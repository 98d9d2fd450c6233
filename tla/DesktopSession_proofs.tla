----------------------- MODULE DesktopSession_proofs -----------------------
(***************************************************************************)
(* For any accounts, rows, passwords, connects and bounds: the desktop     *)
(* session is type correct, and whatever opens an account is its own.      *)
(***************************************************************************)
EXTENDS DesktopSession, TLAPS

\* Whatever an operation takes from the bounds.
Spends == left' \in [Bounds -> Nat]

LEMMA SpendType ==
  ASSUME left \in [Bounds -> Nat], NEW k \in Bounds, Spend(k)
  PROVE  Spends
BY DEF Spend, Spends

LEMMA DeviceKeyType ==
  ASSUME left \in [Bounds -> Nat], NEW k \in BOOLEAN, DeviceKey(k)
  PROVE  Spends
<1>1. CASE k = TRUE /\ UNCHANGED left
  BY <1>1 DEF Spends
<1>2. CASE ~keyed /\ k = FALSE /\ Spend("deny")
  BY <1>2, SpendType DEF Bounds
<1> QED BY <1>1, <1>2 DEF DeviceKey

LEMMA StoppedType ==
  ASSUME TypeOK, NEW server \in Accounts \cup {NoOne}, Stopped(server)
  PROVE  Spends /\ stray' \subseteq Accounts
<1>1. CASE stray' = stray /\ UNCHANGED left
  BY <1>1 DEF Spends, TypeOK
<1>2. CASE server # NoOne /\ Spend("fail") /\ stray' = stray \cup {server}
  BY <1>2, SpendType DEF Bounds, TypeOK
<1> QED BY <1>1, <1>2 DEF Stopped

\* The row that an operation writes.
LEMMA ResetType ==
  ASSUME NEW r \in [Accounts -> {NoRow} \cup Row], NEW a \in Accounts,
         NEW q \in Passwords, NEW k \in BOOLEAN, row = r
  PROVE  /\ Reset(a, q, k) \in [Accounts -> {NoRow} \cup Row]
         /\ Reset(a, q, k)[a].pwd = q /\ Reset(a, q, k)[a].saved = "none"
         /\ Reset(a, q, k)[a] # NoRow
         /\ \A b \in Accounts \ {a} : Reset(a, q, k)[b] = r[b]
BY SessionAssumption DEF Reset, Row, NoRow, Wrapped

LEMMA OpenedType ==
  ASSUME NEW r \in Row, NEW k \in BOOLEAN, NEW remember \in BOOLEAN
  PROVE  /\ Opened(r, k, r.pwd, remember) \in Row
         /\ Opened(r, k, r.pwd, remember).pwd = r.pwd
         /\ Opened(r, k, r.pwd, remember).saved \in {r.saved, r.pwd, "none"}
<1>1. /\ Healed(r, k) \in Row /\ Healed(r, k).pwd = r.pwd
      /\ Healed(r, k).saved \in {r.saved, "none"}
  BY DEF Healed, Row
<1> QED BY <1>1 DEF Opened, Row

\* A row is a row of its own password, never the empty one.
LEMMA RowIsNotEmpty == NoRow \notin Row
BY SessionAssumption DEF NoRow, Row

-----------------------------------------------------------------------------
(* The vault as the model finds it. *)

LEMMA Initially == Init => IInv
<1> SUFFICES ASSUME Init PROVE IInv
  OBVIOUS
<1> USE SessionAssumption
<1>1. TypeOK
  <2>1. row \in [Accounts -> {NoRow} \cup Row] /\ backup \subseteq Accounts
    BY DEF Init
  <2>2. op \in Operations
    BY DEF Init, Idle, Operations, Kinds
  <2>3. left \in [Bounds -> Nat]
    BY DEF Init
  <2> QED BY <2>1, <2>2, <2>3 DEF Init, TypeOK, Rest, Closed
<1>2. CredentialsAreOwn
  <2>1. IdentityIsOwn
    BY DEF Init, IdentityIsOwn
  <2>2. ASSUME NEW a \in Accounts, HasRow(a), row[a].saved \in Passwords
        PROVE  row[a].saved = row[a].pwd
    <3>1. row \in InitialRows /\ row[a] \in Row
      BY <2>2 DEF Init, HasRow
    <3>2. row[a].pwd # ""
      BY <3>1 DEF Row
    <3> QED BY <2>2, <3>1, <3>2
  <2> QED BY <2>1, <2>2 DEF CredentialsAreOwn, SavedPasswordOpens
<1>3. OpensItsOwn /\ PendingIsOwn /\ OperationNames
  BY DEF Init, OpensItsOwn, PendingIsOwn, OperationNames, Idle
<1> QED BY <1>1, <1>2, <1>3 DEF IInv

-----------------------------------------------------------------------------
(* Type correctness, one kind of step after the other. *)

Conn == [at : {"idle", "asked", "app", "boot"}, chat : Accounts \cup {NoOne}, orphan : BOOLEAN]
Booted == \A c \in Conns : conn[c].at = "boot" => conn[c].chat # NoOne
AutoState == [at : {"idle", "handler", "stopping", "force"}, halting : Accounts \cup {NoOne}]

\* A forced stop, by hand or by the timer.
LEMMA ForcedType ==
  ASSUME TypeOK, NEW ok \in BOOLEAN, Forced(ok)
  PROVE  /\ Spends /\ app' \in BOOLEAN /\ unsafe' \in BOOLEAN /\ stray' \subseteq Accounts
         /\ conn' \in [Conns -> Conn] /\ Booted' /\ attached' \in Accounts \cup {NoOne}
         /\ bridge' \in {"none", "fresh", "stale"} /\ events' \in {"none", "live", "dead"}
<1>1. CASE ok
  <2>1. conn' = Orphaned
    BY <1>1 DEF Forced
  <2>2. conn' \in [Conns -> Conn]
    BY <2>1 DEF Orphaned, TypeOK, Conn
  <2>3. \A c \in Conns : conn'[c].at = conn[c].at /\ conn'[c].chat = conn[c].chat
    BY <2>1 DEF Orphaned, TypeOK
  <2>4. Booted'
    BY <2>3 DEF Booted, TypeOK
  <2>5. stray' \subseteq Accounts
    BY <1>1 DEF Forced, TypeOK
  <2> QED BY <1>1, <2>2, <2>4, <2>5 DEF Forced, Spends, TypeOK, BridgeOfNone, Severed
<1>2. CASE ~ok
  <2>1. Spends
    BY <1>2, SpendType DEF Forced, TypeOK, Bounds
  <2> QED BY <1>2, <2>1 DEF Forced, TypeOK, Conn, Booted
<1> QED BY <1>1, <1>2

LEMMA BeginType ==
  ASSUME TypeOK, NEW k \in Kinds, NEW a \in Accounts, NEW p \in Passwords,
         NEW q \in Passwords, NEW r \in BOOLEAN, Begin(k, a, p, q, r)
  PROVE  TypeOK'
<1>1. Spends
  BY SpendType DEF Begin, Bounds, TypeOK
<1>2. op' \in Operations
  BY DEF Begin, Idle, Operations
<1> QED BY <1>1, <1>2 DEF Begin, TypeOK, Spends, vault, runtime

Places == {"idle", "leave", "leaving", "link", "teardown", "stopping", "lock",
           "force", "vault", "open", "connect"}

\* An operation moves on, with the server whose stop it awaits.
LEMMA Moves ==
  ASSUME op \in Operations, NEW at \in Places, NEW server \in Accounts \cup {NoOne}
  PROVE  /\ [op EXCEPT !.at = at, !.halting = server] \in Operations
         /\ [op EXCEPT !.at = at] \in Operations
         /\ Idle \in Operations /\ [Idle EXCEPT !.at = at] \in Operations
<1>1. [op EXCEPT !.at = at, !.halting = server] \in Operations
  BY DEF Operations, Places
<1>2. [op EXCEPT !.at = at] \in Operations
  BY DEF Operations, Places
<1>3. Idle \in Operations
  BY DEF Operations, Idle
<1>4. [Idle EXCEPT !.at = at] \in Operations
  <2>1. \A o \in Operations : [o EXCEPT !.at = at] \in Operations
    BY DEF Operations, Places
  <2> QED BY <1>3, <2>1
<1> QED BY <1>1, <1>2, <1>3, <1>4

LEMMA LeavingType ==
  ASSUME TypeOK, Leave \/ Left \/ Teardown \/ TornDown
  PROVE  TypeOK'
<1>1. op \in Operations /\ attached \in Accounts \cup {NoOne} /\ AfterTeardown \in Places
      /\ op.halting \in Accounts \cup {NoOne} /\ NoOne \in Accounts \cup {NoOne}
  BY DEF TypeOK, AfterTeardown, Places, Operations
<1>2. CASE Leave
  <2>1. op' \in Operations
    <3>1. op' = [op EXCEPT !.at = IF attached = NoOne THEN "teardown" ELSE "leaving",
                           !.halting = attached]
      BY <1>2 DEF Leave
    <3> QED BY <1>1, <3>1, Moves DEF Places
  <2> QED BY <1>2, <2>1 DEF Leave, Detach, TypeOK, vault
<1>3. CASE Left
  <2>1. op' \in Operations
    <3>1. op' = [op EXCEPT !.at = "teardown", !.halting = NoOne]
      BY <1>3 DEF Left
    <3> QED BY <1>1, <3>1, Moves DEF Places
  <2>2. Spends /\ stray' \subseteq Accounts
    BY <1>1, <1>3, StoppedType DEF Left
  <2> QED BY <1>3, <2>1, <2>2 DEF Left, TypeOK, vault, Spends
<1>4. CASE Teardown
  <2>1. op' \in Operations
    <3>1. op' = [op EXCEPT !.at = IF attached = NoOne THEN AfterTeardown ELSE "stopping",
                           !.halting = attached]
      BY <1>4 DEF Teardown
    <3> QED BY <1>1, <3>1, Moves DEF Places
  <2> QED BY <1>4, <2>1 DEF Teardown, Disconnect, Detach, Severed, TypeOK, vault
<1>5. CASE TornDown
  <2>1. op' \in Operations
    <3>1. op' = [op EXCEPT !.at = AfterTeardown, !.halting = NoOne]
      BY <1>5 DEF TornDown
    <3> QED BY <1>1, <3>1, Moves
  <2>2. Spends /\ stray' \subseteq Accounts
    BY <1>1, <1>5, StoppedType DEF TornDown
  <2> QED BY <1>5, <2>1, <2>2 DEF TornDown, TypeOK, vault, Spends
<1> QED BY <1>2, <1>3, <1>4, <1>5

LEMMA LockingType ==
  ASSUME TypeOK, LockVault \/ LockForced
  PROVE  TypeOK'
<1>1. Idle \in Operations
  BY DEF Idle, Operations
<1>2. CASE LockVault
  <2>1. op' \in Operations
    <3>1. op' = Idle \/ op' = [op EXCEPT !.at = "force", !.halting = attached]
      BY <1>2 DEF LockVault
    <3>2. op \in Operations /\ attached \in Accounts \cup {NoOne} /\ "force" \in Places
      BY DEF TypeOK, Places
    <3> QED BY <1>1, <3>1, <3>2, Moves
  <2>2. /\ attached' \in Accounts \cup {NoOne} /\ bridge' \in {"none", "fresh", "stale"}
        /\ events' \in {"none", "live", "dead"} /\ unsafe' \in BOOLEAN
        /\ screen' \in {"locked", "open"}
    BY <1>2 DEF LockVault, ForceStop, BridgeOfNone, Severed, TypeOK
  <2> QED BY <1>2, <2>1, <2>2 DEF LockVault, TypeOK
<1>3. CASE LockForced
  <2> PICK ok \in BOOLEAN : Forced(ok) /\ screen' = IF ok THEN "locked" ELSE screen
    BY <1>3 DEF LockForced
  <2>1. screen' \in {"locked", "open"} /\ op' \in Operations
    BY <1>1, <1>3 DEF LockForced, TypeOK
  <2>2. /\ Spends /\ app' \in BOOLEAN /\ unsafe' \in BOOLEAN /\ stray' \subseteq Accounts
        /\ conn' \in [Conns -> Conn] /\ Booted' /\ attached' \in Accounts \cup {NoOne}
        /\ bridge' \in {"none", "fresh", "stale"} /\ events' \in {"none", "live", "dead"}
    BY ForcedType
  <2> QED BY <1>3, <2>1, <2>2 DEF LockForced, TypeOK, vault, Conn, Booted, Spends
<1> QED BY <1>2, <1>3

LEMMA ProceedType ==
  ASSUME TypeOK, NEW c \in Conns, Proceed(c)
  PROVE  /\ conn' \in [Conns -> Conn] /\ Booted' /\ bridge' \in {"none", "fresh", "stale"}
         /\ events' \in {"none", "live", "dead"}
<1>1. ChatIdentity \in Accounts \cup {NoOne}
  BY DEF ChatIdentity, TypeOK
<1>2. PICK k \in Conn : conn' = [conn EXCEPT ![c] = k] /\ (k.at = "boot" => k.chat # NoOne)
  <2>1. Closed \in Conn /\ Closed.at # "boot"
    BY DEF Closed, Conn
  <2>2. ASSUME ChatIdentity # NoOne
        PROVE  /\ [Closed EXCEPT !.at = "boot", !.chat = ChatIdentity] \in Conn
               /\ [Closed EXCEPT !.at = "boot", !.chat = ChatIdentity].chat # NoOne
    BY <1>1, <2>2 DEF Closed, Conn
  <2>3. \/ conn' = [conn EXCEPT ![c] = Closed]
        \/ /\ ChatIdentity # NoOne
           /\ conn' = [conn EXCEPT ![c] = [Closed EXCEPT !.at = "boot", !.chat = ChatIdentity]]
    BY DEF Proceed
  <2> QED BY <2>1, <2>2, <2>3
<1>3. conn' \in [Conns -> Conn] /\ Booted'
  BY <1>2 DEF TypeOK, Conn, Booted
<1> QED BY <1>3 DEF Proceed, Bridged, Subscribed, TypeOK

LEMMA ConnectingType ==
  ASSUME TypeOK, NEW c \in Conns, Connecting(c)
  PROVE  TypeOK'
<1>1. Closed \in Conn
  BY DEF Closed, Conn
<1>2. ASSUME conn' = [conn EXCEPT ![c] = Closed] \/ conn' = [conn EXCEPT ![c].at = "app"]
      PROVE  conn' \in [Conns -> Conn] /\ Booted'
  <2>1. Closed.at # "boot" /\ conn \in [Conns -> Conn] /\ Booted
    BY DEF Closed, TypeOK, Booted, Conn
  <2>2. CASE conn' = [conn EXCEPT ![c] = Closed]
    BY <1>1, <2>1, <2>2 DEF Booted
  <2>3. CASE conn' = [conn EXCEPT ![c].at = "app"]
    BY <2>1, <2>3 DEF Booted, Conn
  <2> QED BY <1>2, <2>2, <2>3
<1>3. CASE Connect(c)
  <2>1. conn' \in [Conns -> Conn] /\ Booted' /\ bridge' \in {"none", "fresh", "stale"}
        /\ events' \in {"none", "live", "dead"}
    <3>1. CASE active = NoOne \/ (active # NoOne /\ ~app)
      BY <1>2, <1>3, <3>1 DEF Connect, TypeOK
    <3>2. CASE active # NoOne /\ app
      BY <1>3, <3>2, ProceedType DEF Connect, TypeOK
    <3> QED BY <3>1, <3>2
  <2> QED BY <1>3, <2>1 DEF Connect, TypeOK, Conn, Booted, vault, screens
<1>4. CASE AppUp(c)
  <2>1. /\ conn' \in [Conns -> Conn] /\ Booted' /\ bridge' \in {"none", "fresh", "stale"}
        /\ events' \in {"none", "live", "dead"} /\ app' \in BOOLEAN /\ Spends
    <3>1. CASE ~app /\ app' = TRUE /\ UNCHANGED left /\ Proceed(c)
      BY <3>1, ProceedType DEF Spends, TypeOK
    <3>2. CASE ~(~app /\ app' = TRUE /\ UNCHANGED left /\ Proceed(c))
      <4>1. Spends
        BY <1>4, <3>2, SpendType DEF AppUp, TypeOK, Bounds, Spends
      <4> QED BY <1>2, <1>4, <3>2, <4>1 DEF AppUp, TypeOK
    <3> QED BY <3>1, <3>2
  <2> QED BY <1>4, <2>1 DEF AppUp, TypeOK, Conn, Booted, vault, screens, Spends
<1>5. CASE ServerUp(c)
  <2>1. Spends
    BY <1>5, SpendType DEF ServerUp, TypeOK, Bounds, Spends
  <2>2. conn[c].chat \in Accounts
    BY <1>5 DEF TypeOK, ServerUp
  <2>3. conn' \in [Conns -> Conn] /\ Booted'
    BY <1>2, <1>5 DEF ServerUp
  <2>4. /\ attached' \in Accounts \cup {NoOne} /\ stray' \subseteq Accounts
        /\ bridge' \in {"none", "fresh", "stale"} /\ events' \in {"none", "live", "dead"}
    BY <1>5, <2>2 DEF ServerUp, TypeOK
  <2> QED BY <1>5, <2>1, <2>3, <2>4 DEF ServerUp, TypeOK, Conn, Booted, vault, screens, Spends
<1> QED BY <1>3, <1>4, <1>5 DEF Connecting

LEMMA StartConnectType == ASSUME TypeOK, StartConnect PROVE TypeOK'
<1>1. Idle \in Operations
  BY DEF Idle, Operations
<1>2. PICK c \in Conns : conn[c] = Closed /\ conn' = [conn EXCEPT ![c].at = "asked"]
  BY DEF StartConnect
<1>3. conn' \in [Conns -> Conn] /\ Booted'
  BY <1>2 DEF TypeOK, Conn, Booted
<1> QED BY <1>1, <1>3 DEF StartConnect, TypeOK, Conn, Booted, vault, runtime

LEMMA TearingType ==
  ASSUME TypeOK, Tearing \/ AutoLock \/ Link
  PROVE  TypeOK'
<1>1. op \in Operations /\ auto \in AutoState /\ attached \in Accounts \cup {NoOne}
      /\ auto.halting \in Accounts \cup {NoOne} /\ NoOne \in Accounts \cup {NoOne}
  BY DEF TypeOK, AutoState
<1>2. CASE AutoTeardown
  <2>1. auto' \in AutoState
    BY <1>1, <1>2 DEF AutoTeardown, AutoState
  <2> QED BY <1>2, <2>1 DEF AutoTeardown, Disconnect, Detach, Severed, TypeOK, vault, screens, AutoState
<1>3. CASE AutoTornDown
  <2>1. auto' \in AutoState
    BY <1>1, <1>3 DEF AutoTornDown, AutoState, Rest
  <2>2. Spends /\ stray' \subseteq Accounts
    BY <1>1, <1>3, StoppedType DEF AutoTornDown
  <2>3. /\ attached' \in Accounts \cup {NoOne} /\ bridge' \in {"none", "fresh", "stale"}
        /\ events' \in {"none", "live", "dead"} /\ unsafe' \in BOOLEAN
    BY <1>3 DEF AutoTornDown, ForceStop, BridgeOfNone, Severed, TypeOK
  <2> QED BY <1>3, <2>1, <2>2, <2>3 DEF AutoTornDown, TypeOK, vault, screens, AutoState, Spends
<1>4. CASE AutoForced
  <2>1. PICK ok \in BOOLEAN : Forced(ok)
    BY <1>4 DEF AutoForced
  <2>2. /\ Spends /\ app' \in BOOLEAN /\ unsafe' \in BOOLEAN /\ stray' \subseteq Accounts
        /\ conn' \in [Conns -> Conn] /\ Booted' /\ attached' \in Accounts \cup {NoOne}
        /\ bridge' \in {"none", "fresh", "stale"} /\ events' \in {"none", "live", "dead"}
    BY <2>1, ForcedType
  <2>3. auto' \in AutoState
    BY <1>1, <1>4 DEF AutoForced, AutoState, Rest
  <2> QED BY <1>4, <2>2, <2>3 DEF AutoForced, TypeOK, vault, screens, AutoState, Conn, Booted, Spends
<1>5. CASE AutoLock
  <2>1. auto' \in AutoState
    BY <1>1, <1>5 DEF AutoLock, AutoState
  <2>2. Spends
    BY <1>5, SpendType DEF AutoLock, TypeOK, Bounds
  <2> QED BY <1>5, <2>1, <2>2 DEF AutoLock, TypeOK, runtime, screens, AutoState, Spends
<1>6. CASE Link
  <2>1. op' \in Operations
    <3>1. op' = Idle \/ op' = [op EXCEPT !.at = "vault"]
      BY <1>6 DEF Link
    <3> QED BY <1>1, <3>1, Moves DEF Places
  <2>2. Spends
    BY <1>6, SpendType DEF Link, TypeOK, Bounds, Spends
  <2>3. app' \in BOOLEAN
    BY <1>6 DEF Link, TypeOK
  <2> QED BY <1>6, <2>1, <2>2, <2>3 DEF Link, TypeOK, vault, Spends
<1> QED BY <1>2, <1>3, <1>4, <1>5, <1>6 DEF Tearing

-----------------------------------------------------------------------------
(* The credentials.  Whoever does not write the vault leaves them alone.   *)

LEMMA Frame ==
  ASSUME IInv, row' = row, pending' = pending, active' \in {active, NoOne},
         op' = op
  PROVE  CredentialsAreOwn' /\ OpensItsOwn' /\ PendingIsOwn' /\ OperationNames'
<1>1. SavedPasswordOpens'
  BY DEF IInv, CredentialsAreOwn, SavedPasswordOpens, HasRow
<1>2. IdentityIsOwn'
  BY DEF IInv, CredentialsAreOwn, IdentityIsOwn
<1> QED BY <1>1, <1>2 DEF IInv, CredentialsAreOwn, OpensItsOwn, PendingIsOwn, OperationNames, HasRow

\* Nor does an operation that goes on its way, before it opens an account.
LEMMA FrameMove ==
  ASSUME IInv, row' = row, pending' = pending, active' \in {active, NoOne},
         op.at # "open", op'.at # "open",
         op'.at \in {"idle", "connect"} \/ op'.acct \in Accounts,
         op'.kind \in {"unlock", "create", "import", "link", "change", "reset"}
             => op'.new \in Passwords
  PROVE  CredentialsAreOwn' /\ OpensItsOwn' /\ PendingIsOwn' /\ OperationNames'
<1>1. SavedPasswordOpens'
  BY DEF IInv, CredentialsAreOwn, SavedPasswordOpens, HasRow
<1>2. IdentityIsOwn'
  BY DEF IInv, CredentialsAreOwn, IdentityIsOwn
<1>3. pending' = NoOne
  BY DEF IInv, PendingIsOwn
<1> QED BY <1>1, <1>2, <1>3 DEF CredentialsAreOwn, OpensItsOwn, PendingIsOwn, OperationNames

\* One row is written, well: the vault stays typed, the kept passwords too.
RowType == [Accounts -> {NoRow} \cup Row]
Keeps(r) == r.saved \in Passwords => r.saved = r.pwd

LEMMA RowWritten ==
  ASSUME row \in RowType, SavedPasswordOpens, NEW a \in Accounts, NEW r \in {NoRow} \cup Row,
         Keeps(r), row' = [row EXCEPT ![a] = r]
  PROVE  row' \in RowType /\ SavedPasswordOpens' /\ row'[a] = r
BY DEF RowType, SavedPasswordOpens, HasRow, Keeps

\* The vault of a state with nothing to unlock is what its type says.
LEMMA VaultTyped ==
  ASSUME TypeOK, row' \in RowType, backup' \subseteq Accounts, keyed' \in BOOLEAN,
         active' \in [acct : Accounts, chat : Accounts] \cup {NoOne},
         pending' \in Accounts \cup {NoOne}, op' \in Operations,
         screen' \in {"locked", "open"}, Spends,
         UNCHANGED <<runtime, client, auto, conn, crossed>>
  PROVE  TypeOK'
BY DEF TypeOK, RowType, Spends, runtime

\* A vault operation that is refused has written nothing.
LEMMA RefusedSafe ==
  ASSUME IInv, Refused, op.at = "vault", UNCHANGED <<runtime, client, auto, conn, crossed>>
  PROVE  IInv'
<1>1. op' = Idle /\ op' \in Operations
  BY Moves DEF Refused, Idle, Operations
<1>2. TypeOK'
  BY <1>1, VaultTyped DEF IInv, TypeOK, Refused, vault, Spends, RowType
<1>3. op'.at = "idle" /\ op'.kind = "none"
  BY <1>1 DEF Idle
<1> QED BY <1>2, <1>3, FrameMove DEF IInv, Refused, vault

LEMMA UnlockSafe == ASSUME IInv, Unlock PROVE IInv'
<1> DEFINE a == op.acct
<1>1. a \in Accounts /\ row \in RowType /\ SavedPasswordOpens
  BY DEF Unlock, IInv, OperationNames, TypeOK, RowType, CredentialsAreOwn
<1>2. CASE ~HasRow(a) \/ row[a].pwd # op.new
  <2>1. op.at = "vault"
    BY <1>2 DEF Unlock, IInv, OpensItsOwn
  <2> QED BY <1>2, <2>1, RefusedSafe DEF Unlock
<1>3. CASE HasRow(a) /\ row[a].pwd = op.new
  <2>1. row[a] \in Row
    BY <1>1, <1>3 DEF HasRow, RowType
  <2>2. PICK k \in BOOLEAN :
          /\ DeviceKey(k) /\ keyed' = k
          /\ row' = [row EXCEPT ![a] = Opened(@, k, op.new, op.remember)]
          /\ active' = [acct |-> a, chat |-> ChatOf(a)]
          /\ pending' = PendingAfter(a)
          /\ screen' = "open" /\ op' = [Idle EXCEPT !.at = "connect"]
          /\ UNCHANGED backup
    BY <1>3 DEF Unlock
  <2> DEFINE r == Opened(row[a], k, op.new, op.remember)
  <2>3. op.remember \in BOOLEAN
    BY DEF IInv, TypeOK, Operations
  <2>4. r \in Row /\ r.saved \in {row[a].saved, row[a].pwd, "none"} /\ r.pwd = row[a].pwd
    BY <1>3, <2>1, <2>3, OpenedType
  <2>5. Keeps(row[a])
    BY <1>1, <1>3 DEF SavedPasswordOpens, Keeps
  <2>6. Keeps(r)
    BY <2>4, <2>5, SessionAssumption DEF Keeps
  <2>7. row' = [row EXCEPT ![a] = r]
    BY <2>2
  <2> HIDE DEF r
  <2>8. row' \in RowType /\ SavedPasswordOpens'
    BY <1>1, <2>4, <2>6, <2>7, RowWritten
  <2>9. ChatOf(a) = a
    BY DEF ChatOf, IInv, PendingIsOwn
  <2>10. op' \in Operations /\ op'.at = "connect" /\ op'.kind = "none"
    <3>1. op \in Operations /\ "connect" \in Places /\ NoOne \in Accounts \cup {NoOne}
      BY DEF IInv, TypeOK, Places
    <3>2. op' \in Operations
      BY <2>2, <3>1, Moves
    <3> QED BY <2>2, <3>2 DEF Idle
  <2>11. Spends
    BY <2>2, DeviceKeyType DEF IInv, TypeOK
  <2>12. active' = [acct |-> a, chat |-> a] /\ pending' = NoOne /\ backup' = backup /\ keyed' \in BOOLEAN
    BY <2>2, <2>9 DEF PendingAfter
  <2>13. TypeOK'
    BY <1>1, <2>2, <2>8, <2>10, <2>11, <2>12, VaultTyped DEF IInv, TypeOK, Unlock
  <2>14. IdentityIsOwn'
    BY <2>12 DEF IdentityIsOwn
  <2>15. OpensItsOwn' /\ PendingIsOwn' /\ OperationNames'
    BY <2>10, <2>12 DEF OpensItsOwn, PendingIsOwn, OperationNames
  <2> QED BY <2>8, <2>13, <2>14, <2>15 DEF IInv, CredentialsAreOwn
<1> QED BY <1>2, <1>3

LEMMA UnlockWithDeviceSafe == ASSUME IInv, UnlockWithDevice PROVE IInv'
<1> DEFINE a == op.acct
<1>1. a \in Accounts /\ row \in RowType /\ SavedPasswordOpens /\ op \in Operations
      /\ op.at = "vault" /\ op.kind = "saved" /\ pending = NoOne
  BY DEF UnlockWithDevice, IInv, OperationNames, TypeOK, RowType, CredentialsAreOwn, PendingIsOwn
<1>2. CASE row[a].saved = "none"
  BY <1>1, <1>2, RefusedSafe DEF UnlockWithDevice
<1>3. CASE row[a].saved # "none"
  <2>1. row[a] \in Row /\ row[a] # NoRow
    <3>1. row[a] # NoRow
      <4>1. NoRow.saved = "none"
        BY DEF NoRow
      <4> QED BY <1>3, <4>1
    <3> QED BY <1>1, <3>1 DEF RowType
  <2>2. PICK k \in BOOLEAN :
          /\ DeviceKey(k) /\ keyed' = k
          /\ CASE ~k -> op' = Idle /\ UNCHANGED row
               [] k /\ row[a].saved = "legacy" ->
                    op' = Idle /\ row' = [row EXCEPT ![a].saved = "none"]
               [] OTHER -> op' = [op EXCEPT !.new = row[a].saved, !.at = "open"] /\ UNCHANGED row
          /\ UNCHANGED <<backup, active, pending, screen>>
    BY <1>3 DEF UnlockWithDevice
  <2>3. Spends
    BY <2>2, DeviceKeyType DEF IInv, TypeOK
  <2>4. Idle \in Operations /\ Idle.at = "idle" /\ Idle.kind = "none"
    BY DEF Idle, Operations
  <2>5. IdentityIsOwn' /\ pending' = NoOne /\ PendingIsOwn'
    BY <1>1, <2>2 DEF IInv, CredentialsAreOwn, IdentityIsOwn, PendingIsOwn
  <2>6. UNCHANGED <<runtime, client, auto, conn, crossed, backup, active, screen>>
    BY <2>2 DEF UnlockWithDevice
  <2>7. CASE ~k
    <3>1. op' = Idle /\ row' = row
      BY <2>2, <2>7
    <3>2. TypeOK'
      BY <1>1, <2>2, <2>3, <2>4, <2>5, <2>6, <3>1, VaultTyped DEF IInv, TypeOK
    <3> QED BY <2>2, <2>4, <2>5, <3>1, <3>2, <1>1, FrameMove DEF IInv
  <2>8. CASE k /\ row[a].saved = "legacy"
    <3> DEFINE r == [row[a] EXCEPT !.saved = "none"]
    <3>1. op' = Idle /\ row' = [row EXCEPT ![a] = r]
      BY <2>2, <2>8
    <3>2. r \in Row /\ Keeps(r)
      BY <2>1, SessionAssumption DEF Row, Keeps
    <3>3. row' \in RowType /\ SavedPasswordOpens'
      BY <1>1, <3>1, <3>2, RowWritten
    <3>4. TypeOK'
      BY <2>2, <2>3, <2>4, <2>5, <2>6, <3>1, <3>3, VaultTyped DEF IInv, TypeOK
    <3> QED BY <2>4, <2>5, <3>1, <3>3, <3>4 DEF IInv, CredentialsAreOwn, OpensItsOwn, OperationNames
  <2>9. CASE k /\ row[a].saved # "legacy"
    <3>1. op' = [op EXCEPT !.new = row[a].saved, !.at = "open"] /\ row' = row
      BY <2>2, <2>9
    <3>2. row[a].saved \in Passwords /\ row[a].saved = row[a].pwd
      BY <1>1, <1>3, <2>1, <2>9 DEF Row, SavedPasswordOpens, HasRow
    <3>3. op' \in Operations /\ op'.at = "open" /\ op'.acct = a /\ op'.new = row[a].pwd
      BY <1>1, <3>1, <3>2 DEF Operations
    <3>4. TypeOK'
      BY <1>1, <2>2, <2>3, <2>5, <2>6, <3>1, <3>3, VaultTyped DEF IInv, TypeOK
    <3>5. OpensItsOwn' /\ OperationNames' /\ SavedPasswordOpens'
      BY <1>1, <2>1, <3>1, <3>2, <3>3 DEF OpensItsOwn, OperationNames, HasRow, SavedPasswordOpens
    <3> QED BY <2>5, <3>4, <3>5 DEF IInv, CredentialsAreOwn
  <2> QED BY <2>7, <2>8, <2>9
<1> QED BY <1>2, <1>3

\* A reset row keeps no password.
LEMMA ResetWritten ==
  ASSUME row \in RowType, SavedPasswordOpens, NEW a \in Accounts, NEW q \in Passwords,
         NEW k \in BOOLEAN, row' = Reset(a, q, k)
  PROVE  /\ row' \in RowType /\ SavedPasswordOpens'
         /\ row'[a] # NoRow /\ row'[a].pwd = q
<1> DEFINE r == [pwd |-> q, wrap |-> Wrapped(k), saved |-> "none"]
<1>1. r \in Row /\ Keeps(r) /\ r.pwd = q
  BY SessionAssumption DEF Row, Keeps, Wrapped
<1>2. row' = [row EXCEPT ![a] = r]
  BY DEF Reset
<1> HIDE DEF r
<1>3. row' \in RowType /\ SavedPasswordOpens' /\ row'[a] = r
  BY <1>1, <1>2, RowWritten
<1> QED BY <1>1, <1>3, RowIsNotEmpty

LEMMA ChangingSafe ==
  ASSUME IInv, ChangePassword \/ ResealDelegatedKeystore
  PROVE  IInv'
<1> DEFINE a == op.acct
<1>1. a \in Accounts /\ row \in RowType /\ SavedPasswordOpens /\ op.new \in Passwords
      /\ op.at = "vault" /\ pending = NoOne
      /\ UNCHANGED <<runtime, client, auto, conn, crossed>> /\ Reseal
  BY DEF ChangePassword, ResealDelegatedKeystore, IInv, OperationNames, TypeOK, RowType,
         CredentialsAreOwn, PendingIsOwn
<1>2. CASE row[a].pwd # op.pwd \/ op.pwd = op.new
  BY <1>1, <1>2, RefusedSafe DEF Reseal
<1>3. CASE ~(row[a].pwd # op.pwd \/ op.pwd = op.new)
  <2>1. PICK k \in BOOLEAN :
          /\ DeviceKey(k) /\ keyed' = k /\ row' = Reset(a, op.new, k)
          /\ active' = NoOne /\ screen' = "locked" /\ op' = Idle
          /\ UNCHANGED <<backup, pending>>
    BY <1>1, <1>3 DEF Reseal
  <2>2. row' \in RowType /\ SavedPasswordOpens'
    BY <1>1, <2>1, ResetWritten
  <2>3. Spends
    BY <2>1, DeviceKeyType DEF IInv, TypeOK
  <2>4. op' \in Operations /\ op'.at = "idle" /\ op'.kind = "none"
    BY <2>1 DEF Idle, Operations
  <2>5. TypeOK'
    BY <1>1, <2>1, <2>2, <2>3, <2>4, VaultTyped DEF IInv, TypeOK
  <2> QED BY <1>1, <2>1, <2>2, <2>4, <2>5
          DEF IInv, CredentialsAreOwn, IdentityIsOwn, OpensItsOwn, PendingIsOwn, OperationNames
<1> QED BY <1>2, <1>3

LEMMA ResetPasswordSafe == ASSUME IInv, ResetPassword PROVE IInv'
<1> DEFINE a == op.acct
<1>1. a \in Accounts /\ row \in RowType /\ SavedPasswordOpens /\ op.new \in Passwords
      /\ op.at = "vault" /\ pending = NoOne
      /\ UNCHANGED <<runtime, client, auto, conn, crossed>>
  BY DEF ResetPassword, IInv, OperationNames, TypeOK, RowType, CredentialsAreOwn, PendingIsOwn
<1>2. CASE row[a].wrap # "current" \/ ~keyed
  BY <1>1, <1>2, RefusedSafe DEF ResetPassword
<1>3. CASE ~(row[a].wrap # "current" \/ ~keyed)
  <2>1. /\ row' = Reset(a, op.new, TRUE) /\ active' = NoOne /\ op' = Idle
        /\ UNCHANGED <<backup, keyed, pending, screen, left>>
    BY <1>3 DEF ResetPassword
  <2>2. row' \in RowType /\ SavedPasswordOpens'
    BY <1>1, <2>1, ResetWritten
  <2>3. op' \in Operations /\ op'.at = "idle" /\ op'.kind = "none"
    BY <2>1 DEF Idle, Operations
  <2>4. TypeOK'
    BY <1>1, <2>1, <2>2, <2>3, VaultTyped DEF IInv, TypeOK, Spends
  <2> QED BY <1>1, <2>1, <2>2, <2>3, <2>4
          DEF IInv, CredentialsAreOwn, IdentityIsOwn, OpensItsOwn, PendingIsOwn, OperationNames
<1> QED BY <1>2, <1>3

LEMMA ProvisionSafe ==
  ASSUME IInv, NEW kind \in {"create", "link", "import"},
         NEW identity \in Accounts \cup {NoOne}, Provision(kind, identity),
         identity # NoOne => kind # "link" /\ identity = op.acct
  PROVE  IInv'
<1> DEFINE a == op.acct
<1>1. a \in Accounts /\ row \in RowType /\ SavedPasswordOpens /\ op.new \in Passwords
      /\ op.at = "vault" /\ op.kind = kind /\ op \in Operations
      /\ UNCHANGED <<runtime, client, auto, conn, crossed>>
  BY DEF Provision, IInv, OperationNames, TypeOK, RowType, CredentialsAreOwn
<1>2. CASE HasRow(a)
  BY <1>1, <1>2, RefusedSafe DEF Provision
<1>3. CASE ~HasRow(a)
  <2>1. PICK k \in BOOLEAN :
          /\ DeviceKey(k) /\ keyed' = k /\ row' = Reset(a, op.new, k)
          /\ pending' = identity /\ op' = [op EXCEPT !.at = "open"]
          /\ UNCHANGED <<backup, active, screen>>
    BY <1>3 DEF Provision
  <2>2. row' \in RowType /\ SavedPasswordOpens' /\ row'[a] # NoRow /\ row'[a].pwd = op.new
    BY <1>1, <2>1, ResetWritten
  <2>3. Spends
    BY <2>1, DeviceKeyType DEF IInv, TypeOK
  <2>4. op' \in Operations /\ op'.at = "open" /\ op'.kind = kind /\ op'.acct = a /\ op'.new = op.new
    BY <1>1, <2>1 DEF Operations
  <2>5. TypeOK'
    BY <1>1, <2>1, <2>2, <2>3, <2>4, VaultTyped DEF IInv, TypeOK
  <2>6. IdentityIsOwn'
    BY <2>1 DEF IInv, CredentialsAreOwn, IdentityIsOwn
  <2>7. PendingIsOwn'
    BY <1>1, <2>1, <2>4 DEF PendingIsOwn
  <2> QED BY <1>1, <2>2, <2>4, <2>5, <2>6, <2>7
          DEF IInv, CredentialsAreOwn, OpensItsOwn, OperationNames, HasRow
<1> QED BY <1>2, <1>3

LEMMA PurgeSafe == ASSUME IInv, PurgeAccount PROVE IInv'
<1> DEFINE a == op.acct
<1>1. a \in Accounts /\ row \in RowType /\ SavedPasswordOpens
      /\ op.at = "vault" /\ pending = NoOne
      /\ UNCHANGED <<runtime, client, auto, conn, crossed>>
  BY DEF PurgeAccount, IInv, OperationNames, TypeOK, RowType, CredentialsAreOwn, PendingIsOwn
<1>2. CASE row[a].pwd # op.pwd
  BY <1>1, <1>2, RefusedSafe DEF PurgeAccount
<1>3. CASE row[a].pwd = op.pwd
  <2>1. /\ row' = [row EXCEPT ![a] = NoRow] /\ active' = NoOne /\ screen' = "locked"
        /\ op' = Idle /\ UNCHANGED <<backup, keyed, pending, left>>
    BY <1>3 DEF PurgeAccount
  <2>2. Keeps(NoRow)
    BY SessionAssumption DEF Keeps, NoRow
  <2>3. row' \in RowType /\ SavedPasswordOpens'
    BY <1>1, <2>1, <2>2, RowWritten
  <2>4. op' \in Operations /\ op'.at = "idle" /\ op'.kind = "none"
    BY <2>1 DEF Idle, Operations
  <2>5. TypeOK'
    BY <1>1, <2>1, <2>3, <2>4, VaultTyped DEF IInv, TypeOK, Spends
  <2> QED BY <1>1, <2>1, <2>3, <2>4, <2>5
          DEF IInv, CredentialsAreOwn, IdentityIsOwn, OpensItsOwn, PendingIsOwn, OperationNames
<1> QED BY <1>2, <1>3

\* What is asked for next to the screens' operation, and the end of it all.
LEMMA AsideSafe ==
  ASSUME IInv, NEW a \in Accounts,
         DisableDeviceUnlock(a) \/ \E p \in Passwords : ExportBackup(a, p)
  PROVE  IInv'
<1>1. row \in RowType /\ SavedPasswordOpens /\ row[a] \in {NoRow} \cup Row
  BY DEF IInv, TypeOK, RowType, CredentialsAreOwn
<1>2. CASE DisableDeviceUnlock(a)
  <2> DEFINE r == [row[a] EXCEPT !.saved = "none"]
  <2>1. row' = [row EXCEPT ![a] = r] /\ op = Idle /\ op' = op /\ pending' = pending
        /\ active' = active
    BY <1>2 DEF DisableDeviceUnlock, screens
  <2>2. r \in Row /\ Keeps(r)
    BY <1>1, <1>2, SessionAssumption DEF DisableDeviceUnlock, HasRow, Row, Keeps
  <2>3. row' \in RowType /\ SavedPasswordOpens'
    BY <1>1, <2>1, <2>2, RowWritten
  <2>4. Spends
    BY <1>2, SpendType DEF DisableDeviceUnlock, IInv, TypeOK, Bounds
  <2>5. op.at = "idle" /\ op.kind = "none"
    BY <2>1 DEF Idle
  <2>6. TypeOK'
    BY <1>2, <2>1, <2>3, <2>4, VaultTyped DEF DisableDeviceUnlock, IInv, TypeOK, screens
  <2> QED BY <2>1, <2>3, <2>5, <2>6
          DEF IInv, CredentialsAreOwn, IdentityIsOwn, OpensItsOwn, PendingIsOwn, OperationNames
<1>3. CASE \E p \in Passwords : ExportBackup(a, p)
  <2>1. PICK p \in Passwords : ExportBackup(a, p)
    BY <1>3
  <2>2. Spends
    BY <2>1, SpendType DEF ExportBackup, IInv, TypeOK, Bounds
  <2>3. TypeOK'
    BY <2>1, <2>2, VaultTyped DEF ExportBackup, IInv, TypeOK, RowType, screens
  <2> QED BY <2>1, <2>3, Frame DEF ExportBackup, IInv, screens
<1> QED BY <1>2, <1>3

LEMMA CrashSafe == ASSUME IInv, Crash PROVE IInv'
<1>1. row' = row /\ pending' = NoOne /\ active' = NoOne /\ op' = Idle
  BY DEF Crash
<1>2. op' \in Operations /\ op'.at = "idle" /\ op'.kind = "none"
  BY <1>1 DEF Idle, Operations
<1>3. Spends
  BY SpendType DEF Crash, IInv, TypeOK, Bounds
<1>4. conn' \in [Conns -> Conn] /\ Booted' /\ auto' \in AutoState
  BY DEF Crash, Closed, Conn, Booted, Rest, AutoState
<1>5. TypeOK'
  BY <1>1, <1>2, <1>3, <1>4 DEF Crash, IInv, TypeOK, Spends, Conn, AutoState, Booted
<1>6. SavedPasswordOpens'
  BY <1>1 DEF IInv, CredentialsAreOwn, SavedPasswordOpens, HasRow
<1> QED BY <1>1, <1>2, <1>5, <1>6
        DEF IInv, CredentialsAreOwn, IdentityIsOwn, OpensItsOwn, PendingIsOwn, OperationNames

LEMMA BeginSafe ==
  ASSUME IInv, NEW k \in Kinds, NEW a \in Accounts, NEW p \in Passwords,
         NEW q \in Passwords, NEW r \in BOOLEAN, Begin(k, a, p, q, r)
  PROVE  IInv'
<1>1. TypeOK'
  BY BeginType DEF IInv
<1>2. op.at = "idle" /\ op'.at # "open" /\ op'.acct = a /\ op'.kind = k
      /\ (k \notin {"lock", "purge", "saved"} => op'.new = q)
  BY DEF Begin, Idle
<1> QED BY <1>1, <1>2, FrameMove DEF IInv, Begin, vault

LEMMA WaySafe ==
  ASSUME IInv, Leave \/ Left \/ Teardown \/ TornDown \/ LockVault \/ LockForced
                \/ StartConnect \/ Link
  PROVE  IInv'
<1>1. TypeOK'
  BY LeavingType, LockingType, StartConnectType, TearingType DEF IInv
<1>2. /\ row' = row /\ pending' = pending /\ active' \in {active, NoOne} /\ op.at # "open"
  BY DEF Leave, Left, Teardown, TornDown, LockVault, LockForced, StartConnect, Link, vault
<1>3. op \in Operations
  BY DEF IInv, TypeOK
<1>4. op'.at # "open"
  <2>1. Idle.at # "open" /\ AfterTeardown # "open"
    BY DEF Idle, AfterTeardown
  <2>2. CASE Leave \/ Left
    BY <1>3, <2>2 DEF Leave, Left, Operations
  <2>3. CASE Teardown \/ TornDown
    BY <1>3, <2>1, <2>3 DEF Teardown, TornDown, Operations
  <2>4. CASE LockVault \/ LockForced \/ StartConnect \/ Link
    BY <1>3, <2>1, <2>4 DEF LockVault, LockForced, StartConnect, Link, Operations
  <2> QED BY <2>2, <2>3, <2>4
<1>5. CASE op' = Idle
  BY <1>1, <1>2, <1>4, <1>5, FrameMove DEF IInv, Idle
<1>6. CASE op' # Idle
  <2>1. op'.kind = op.kind /\ op'.acct = op.acct /\ op'.new = op.new
        /\ op.at \notin {"idle", "connect"}
    BY <1>3, <1>6 DEF Leave, Left, Teardown, TornDown, LockVault, LockForced, StartConnect, Link,
                      Operations
  <2> QED BY <1>1, <1>2, <1>4, <2>1, FrameMove DEF IInv, OperationNames
<1> QED BY <1>5, <1>6

LEMMA OthersSafe ==
  ASSUME IInv, (\E c \in Conns : Connecting(c)) \/ Tearing \/ AutoLock
  PROVE  IInv'
<1>1. TypeOK'
  BY ConnectingType, TearingType DEF IInv
<1>2. row' = row /\ pending' = pending /\ active' \in {active, NoOne} /\ op' = op
  BY DEF Connecting, Connect, AppUp, ServerUp, Tearing, AutoTeardown, AutoTornDown, AutoForced,
         AutoLock, vault, screens
<1> QED BY <1>1, <1>2, Frame DEF IInv

(* The inductive invariant: the identity a creation leaves behind waits    *)
(* for the unlock of that creation alone, and that unlock cannot be        *)
(* refused (DesktopVaultService.createAccount, unlock).                    *)
THEOREM Inductive == Spec => []IInv
<1>1. ASSUME IInv, Next PROVE IInv'
  <2>1. CASE \E k \in Kinds, a \in Accounts, p, q \in Passwords, r \in BOOLEAN :
                 Begin(k, a, p, q, r)
    BY <1>1, <2>1, BeginSafe
  <2>2. CASE \E a \in Accounts : DisableDeviceUnlock(a) \/ \E p \in Passwords : ExportBackup(a, p)
    BY <1>1, <2>2, AsideSafe
  <2>3. CASE Operate
    <3>1. CASE CreateAccount \/ ImportBackup
      <4>1. op.acct \in Accounts
        BY <1>1, <3>1 DEF CreateAccount, ImportBackup, Provision, IInv, OperationNames
      <4> QED BY <1>1, <3>1, <4>1, ProvisionSafe DEF CreateAccount, ImportBackup
    <3>2. CASE CreateDelegatedAccount
      <4>1. pending = NoOne
        BY <1>1, <3>2 DEF CreateDelegatedAccount, Provision, IInv, PendingIsOwn
      <4> QED BY <1>1, <3>2, <4>1, ProvisionSafe DEF CreateDelegatedAccount
    <3> QED BY <1>1, <2>3, <3>1, <3>2, WaySafe, UnlockSafe, UnlockWithDeviceSafe, ChangingSafe,
               ResetPasswordSafe, PurgeSafe DEF Operate
  <2>4. CASE Crash
    BY <1>1, <2>4, CrashSafe
  <2> QED BY <1>1, <2>1, <2>2, <2>3, <2>4, OthersSafe DEF Next
<1>2. ASSUME IInv, UNCHANGED vars PROVE IInv'
  <2>1. TypeOK'
    BY <1>2 DEF IInv, TypeOK, vars, vault, runtime, screens
  <2> QED BY <1>2, <2>1, Frame DEF IInv, vars, vault, screens
<1> QED BY <1>1, <1>2, Initially, PTL DEF Spec

\* No change, reset, restoration or purge leaves an old password behind that
\* device unlock would use, and no account is open under another's identity
\* (DesktopVaultService.changePassword, unlock).
THEOREM CredentialsOwn == Spec => []CredentialsAreOwn
<1>1. IInv => CredentialsAreOwn
  BY DEF IInv
<1> QED BY <1>1, Inductive, PTL

-----------------------------------------------------------------------------
(* The server.  An operation of the vault does not touch it, and finds     *)
(* none: the client is closed first.                                       *)

Runs == <<attached, bridge, events, client, conn, crossed>>

LEMMA RunFrame ==
  ASSUME IInv, RunInv, UNCHANGED Runs, auto' = auto, active' = active \/ ~client,
         ~client \/ (op'.at \in {"idle", "leave"} /\ screen' = "open"),
         op'.at = "connect" => screen' = "open"
  PROVE  RunInv'
<1>0. /\ attached' = attached /\ bridge' = bridge /\ events' = events
      /\ client' = client /\ conn' = conn /\ crossed' = crossed
  BY DEF Runs
<1>1. ClientFirst' /\ Opening' = Opening
  BY <1>0 DEF ClientFirst, Opening
<1>2. ASSUME ~crossed' PROVE OneConnect' /\ RunsForActive'
  <2>1. OneConnect /\ RunsForActive
    BY <1>0, <1>2 DEF RunInv
  <2>2. OneConnect'
    BY <1>0, <1>1, <2>1 DEF OneConnect, Unheard
  <2>3. CASE active' = active
    BY <1>0, <2>1, <2>2, <2>3 DEF RunsForActive
  <2>4. CASE ~client
    <3>1. Opening = {} /\ attached = NoOne
      BY <2>1, <2>4 DEF OneConnect, Unheard
    <3>2. \A c \in Conns : conn[c].at # "boot"
      BY <3>1 DEF Opening, Closed
    <3> QED BY <1>0, <2>2, <3>1, <3>2 DEF RunsForActive
  <2> QED BY <2>2, <2>3, <2>4
<1> QED BY <1>1, <1>2 DEF RunInv

LEMMA BeginRuns ==
  ASSUME IInv, RunInv, NEW k \in Kinds, NEW a \in Accounts, NEW p \in Passwords,
         NEW q \in Passwords, NEW r \in BOOLEAN, Begin(k, a, p, q, r)
  PROVE  RunInv'
<1>1. CASE client
  <2>1. screen = "open" /\ NeedsLeave(k)
    BY <1>1 DEF RunInv, ClientFirst, IInv, TypeOK, Begin, MayBegin, NeedsLeave, Kinds
  <2>2. op'.at = "leave"
    <3>1. op' = [Idle EXCEPT !.kind = k, !.acct = a, !.remember = r,
                        !.pwd = IF k \in {"change", "purge"} THEN p ELSE "",
                        !.new = IF k \in {"lock", "purge", "saved"} THEN "" ELSE q,
                        !.at = "leave"]
      <4>1. (CASE NeedsLeave(k) /\ client -> "leave"
               [] NeedsLeave(k) /\ ~client -> "teardown"
               [] k = "link"              -> "link"
               [] OTHER                   -> "vault") = "leave"
        BY <1>1, <2>1 DEF NeedsLeave
      <4> QED BY <4>1 DEF Begin
    <3> QED BY <3>1 DEF Idle
  <2> QED BY <2>1, <2>2, RunFrame DEF Begin, vault, runtime, Runs
<1>2. CASE ~client
  <2>1. op'.at # "connect"
    BY DEF Begin, Idle
  <2> QED BY <1>2, <2>1, RunFrame DEF Begin, vault, runtime, Runs
<1> QED BY <1>1, <1>2

\* Whatever an operation does once the client is closed, it opens nothing.
LEMMA VaultRuns ==
  ASSUME IInv, RunInv, op.at \notin {"idle", "leave"}, UNCHANGED Runs, auto' = auto,
         op'.at = "connect" => screen' = "open"
  PROVE  RunInv'
<1>1. ~client
  BY DEF RunInv, ClientFirst
<1> QED BY <1>1, RunFrame

\* Nothing is left that runs: no server, no bridge, no connect.
LEMMA StillRuns ==
  ASSUME IInv, RunInv, ~client', conn' = conn, ~crossed' => Unheard' /\ Opening = {},
         op'.at # "connect"
  PROVE  RunInv'
<1>1. ClientFirst' /\ Opening' = Opening
  BY DEF ClientFirst, Opening
<1>2. ASSUME ~crossed' PROVE OneConnect' /\ RunsForActive'
  <2>1. Opening' = {} /\ Unheard'
    BY <1>1, <1>2
  <2>2. \A c \in Conns : conn'[c].at # "boot"
    BY <2>1 DEF Opening, Closed
  <2> QED BY <2>1, <2>2 DEF OneConnect, RunsForActive, Unheard
<1> QED BY <1>1, <1>2 DEF RunInv

LEMMA ClosedIsUnheard ==
  ASSUME IInv, RunInv, ~client, ~crossed
  PROVE  Unheard /\ Opening = {}
BY DEF RunInv, OneConnect

LEMMA WayRuns ==
  ASSUME IInv, RunInv, Leave \/ Left \/ Teardown \/ TornDown \/ LockVault \/ LockForced \/ Link
  PROVE  RunInv'
<1>0. op'.at # "connect" /\ (~Leave => ~client)
  <2>1. op \in Operations /\ AfterTeardown # "connect" /\ Idle.at # "connect"
    BY DEF IInv, TypeOK, AfterTeardown, Idle
  <2>2. op'.at # "connect"
    BY <2>1 DEF Leave, Left, Teardown, TornDown, LockVault, LockForced, Link, Operations
  <2>3. ~Leave => ~client
    BY DEF Left, Teardown, TornDown, LockVault, LockForced, Link, RunInv, ClientFirst
  <2> QED BY <2>2, <2>3
<1>1. CASE Leave
  BY <1>0, <1>1, StillRuns DEF Leave, Detach, Unheard
<1>2. CASE Left \/ TornDown \/ Link
  <2>1. op.at \notin {"idle", "leave"} /\ UNCHANGED Runs /\ auto' = auto
    BY <1>2 DEF Left, TornDown, Link, Runs
  <2> QED BY <1>0, <2>1, VaultRuns
<1>3. CASE Teardown
  <2>1. ~client' /\ conn' = conn /\ crossed' = (crossed \/ Opening # {})
    BY <1>0, <1>3 DEF Teardown, Leave, Disconnect, Detach
  <2>2. ASSUME ~crossed' PROVE Unheard' /\ Opening = {}
    <3>1. Unheard /\ Opening = {}
      BY <1>0, <1>3, <2>1, <2>2, ClosedIsUnheard DEF Teardown, Leave
    <3> QED BY <1>3, <3>1 DEF Teardown, Disconnect, Detach, Severed, Unheard
  <2> QED BY <1>0, <2>1, <2>2, StillRuns
<1>4. CASE LockVault
  <2>1. ~client /\ ~client' /\ conn' = conn /\ crossed' = crossed
    BY <1>0, <1>4 DEF LockVault, Leave
  <2>2. ASSUME ~crossed' PROVE Unheard' /\ Opening = {}
    <3>1. Unheard /\ Opening = {}
      BY <2>1, <2>2, ClosedIsUnheard
    <3> QED BY <1>4, <3>1 DEF LockVault, ForceStop, BridgeOfNone, Severed, Unheard
  <2> QED BY <1>0, <2>1, <2>2, StillRuns
<1>5. CASE LockForced
  <2>1. ~client /\ ~client' /\ crossed' = crossed
    BY <1>0, <1>5 DEF LockForced, Leave
  <2>2. PICK ok \in BOOLEAN : Forced(ok)
    BY <1>5 DEF LockForced
  <2>3. ClientFirst'
    BY <1>0, <2>1 DEF ClientFirst
  <2>4. ASSUME ~crossed' PROVE OneConnect' /\ RunsForActive'
    <3>1. Unheard /\ Opening = {}
      BY <2>1, <2>4, ClosedIsUnheard
    <3>2. Unheard'
      BY <2>2, <3>1 DEF Forced, Unheard, BridgeOfNone, Severed
    <3>3. \A c \in Conns : conn[c] = Closed
      BY <3>1 DEF Opening
    <3>4. \A c \in Conns : conn'[c] = Closed
      <4>1. Closed.at # "boot"
        BY DEF Closed
      <4> QED BY <2>2, <3>3, <4>1 DEF Forced, Orphaned
    <3>5. Opening' = {} /\ \A c \in Conns : conn'[c].at # "boot"
      <4>1. Closed.at # "boot"
        BY DEF Closed
      <4> QED BY <3>4, <4>1 DEF Opening
    <3> QED BY <3>2, <3>5 DEF OneConnect, RunsForActive, Unheard
  <2> QED BY <2>3, <2>4 DEF RunInv
<1> QED BY <1>1, <1>2, <1>3, <1>4, <1>5

LEMMA StartConnectRuns == ASSUME IInv, RunInv, StartConnect PROVE RunInv'
<1>1. ~client /\ client' /\ op'.at = "idle" /\ crossed' = crossed
  BY DEF StartConnect, RunInv, ClientFirst, Idle
<1>2. PICK c \in Conns : conn[c] = Closed /\ conn' = [conn EXCEPT ![c].at = "asked"]
  BY DEF StartConnect
<1>3. screen' = "open"
  BY DEF StartConnect, RunInv, ClientFirst
<1>4. ClientFirst'
  BY <1>1, <1>3 DEF ClientFirst
<1>5. ASSUME ~crossed' PROVE OneConnect' /\ RunsForActive'
  <2>1. Unheard /\ Opening = {}
    BY <1>1, <1>5, ClosedIsUnheard
  <2>2. Unheard'
    BY <2>1 DEF StartConnect, runtime, Unheard
  <2>3. \A d \in Conns \ {c} : conn'[d] = Closed
    BY <1>2, <2>1 DEF Opening, IInv, TypeOK
  <2>4. conn'[c].at = "asked"
    BY <1>2 DEF IInv, TypeOK
  <2>5. OneConnect'
    BY <1>1, <2>2, <2>3 DEF OneConnect, Opening
  <2>6. RunsForActive'
    BY <2>2, <2>3, <2>4 DEF RunsForActive, Unheard, Closed
  <2> QED BY <2>5, <2>6
<1> QED BY <1>4, <1>5 DEF RunInv

\* A connect that is under way is alone, unless a teardown has crossed it.
LEMMA ConnectingRuns == ASSUME IInv, RunInv, NEW c \in Conns, Connecting(c) PROVE RunInv'
<1>1. /\ client' = client /\ op' = op /\ screen' = screen /\ crossed' = crossed
      /\ auto' = auto /\ active' = active
  BY DEF Connecting, Connect, AppUp, ServerUp, screens, vault
<1>2. ClientFirst'
  BY <1>1 DEF RunInv, ClientFirst
<1>3. ASSUME ~crossed' PROVE OneConnect' /\ RunsForActive'
  <2>1. OneConnect /\ RunsForActive
    BY <1>1, <1>3 DEF RunInv
  <2>2. c \in Opening
    BY DEF Connecting, Connect, AppUp, ServerUp, Opening, Closed
  <2>3. client /\ Unheard /\ \A d \in Conns \ {c} : conn[d] = Closed
    BY <2>1, <2>2 DEF OneConnect, Opening
  <2>4. PICK k : conn' = [conn EXCEPT ![c] = k]
    BY DEF Connecting, Connect, AppUp, ServerUp, Proceed
  <2>5. \A d \in Conns \ {c} : conn'[d] = Closed
    BY <2>3, <2>4 DEF IInv, TypeOK
  <2>6. CASE Connect(c) \/ AppUp(c)
    <3>1. Unheard' /\ (conn'[c].at = "boot" => active # NoOne /\ active.chat = conn'[c].chat)
      <4>1. attached' = NoOne
        BY <2>3, <2>6 DEF Connect, AppUp, Unheard
      <4>2. CASE Proceed(c)
        <5>1. bridge' = bridge /\ events' = events
          BY <2>3, <4>2 DEF Proceed, Unheard
        <5>2. \/ conn' = [conn EXCEPT ![c] = Closed]
              \/ /\ ChatIdentity # NoOne
                 /\ conn' = [conn EXCEPT ![c] = [Closed EXCEPT !.at = "boot", !.chat = ChatIdentity]]
          BY <2>3, <4>2 DEF Proceed, Unheard
        <5>3. CASE conn' = [conn EXCEPT ![c] = Closed]
          <6>1. conn'[c] = Closed
            BY <5>3 DEF IInv, TypeOK
          <6> QED BY <2>3, <4>1, <5>1, <6>1 DEF Unheard, Closed
        <5>4. CASE /\ ChatIdentity # NoOne
                   /\ conn' = [conn EXCEPT ![c] = [Closed EXCEPT !.at = "boot", !.chat = ChatIdentity]]
          <6>1. conn'[c] = [Closed EXCEPT !.at = "boot", !.chat = ChatIdentity]
            BY <5>4 DEF IInv, TypeOK
          <6>2. conn'[c].chat = ChatIdentity
            BY <6>1 DEF Closed
          <6> QED BY <2>3, <4>1, <5>1, <5>4, <6>2 DEF Unheard, ChatIdentity
        <5> QED BY <5>2, <5>3, <5>4
      <4>3. CASE ~Proceed(c)
        <5>1. bridge' = bridge /\ events' = events
          BY <2>6, <4>3 DEF Connect, AppUp
        <5>2. conn' = [conn EXCEPT ![c] = Closed] \/ conn' = [conn EXCEPT ![c].at = "app"]
          BY <2>6, <4>3 DEF Connect, AppUp
        <5>3. conn'[c].at # "boot"
          BY <5>2 DEF IInv, TypeOK, Closed
        <5> QED BY <2>3, <4>1, <5>1, <5>3 DEF Unheard
      <4> QED BY <4>2, <4>3
    <3>2. OneConnect'
      BY <1>1, <2>3, <2>5, <3>1 DEF OneConnect, Opening
    <3>3. RunsForActive'
      BY <1>1, <2>5, <3>1 DEF RunsForActive, Unheard, Closed
    <3> QED BY <3>2, <3>3
  <2>7. CASE ServerUp(c)
    <3>1. conn'[c] = Closed
      BY <2>7 DEF ServerUp, IInv, TypeOK
    <3>2. Opening' = {} /\ \A d \in Conns : conn'[d].at # "boot"
      <4>1. Closed.at # "boot" /\ \A d \in Conns : conn'[d] = Closed
        BY <2>5, <3>1 DEF Closed
      <4> QED BY <4>1 DEF Opening
    <3>3. OneConnect'
      BY <1>1, <2>3, <3>2 DEF OneConnect
    <3>4. \/ UNCHANGED <<attached, bridge, events>>
          \/ attached' = conn[c].chat /\ bridge' = "fresh" /\ events' = "live"
      BY <2>3, <2>7 DEF ServerUp, Unheard
    <3>5. conn[c].at = "boot"
      BY <2>7 DEF ServerUp
    <3> QED BY <1>1, <2>1, <2>3, <3>2, <3>3, <3>4, <3>5 DEF RunsForActive, Unheard
  <2> QED BY <2>6, <2>7 DEF Connecting
<1> QED BY <1>2, <1>3 DEF RunInv

LEMMA TearingRuns ==
  ASSUME IInv, RunInv, Tearing \/ AutoLock
  PROVE  RunInv'
<1>1. client' = client /\ op' = op /\ screen' = screen /\ ClientFirst'
  BY DEF Tearing, AutoTeardown, AutoTornDown, AutoForced, AutoLock, screens, RunInv, ClientFirst
<1>2. auto \in AutoState /\ conn \in [Conns -> Conn]
  BY DEF IInv, TypeOK, AutoState, Conn
<1>3. CASE AutoLock
  <2>1. /\ auto'.at = "handler" /\ UNCHANGED <<attached, bridge, events, conn, crossed>>
    BY <1>2, <1>3 DEF AutoLock, AutoState, runtime
  <2>2. Opening' = Opening
    BY <2>1 DEF Opening
  <2> QED BY <1>1, <2>1, <2>2 DEF RunInv, OneConnect, Unheard, RunsForActive
<1>4. CASE AutoTeardown
  <2>1. /\ conn' = conn /\ crossed' = (crossed \/ Opening # {}) /\ attached' = NoOne
        /\ bridge' = "none" /\ events' = Severed
    BY <1>4 DEF AutoTeardown, Disconnect, Detach
  <2>2. ASSUME ~crossed' PROVE OneConnect' /\ RunsForActive'
    <3>1. Opening = {} /\ OneConnect
      BY <2>1, <2>2 DEF RunInv
    <3>2. Opening' = {} /\ \A c \in Conns : conn'[c].at # "boot"
      <4>1. Closed.at # "boot"
        BY DEF Closed
      <4> QED BY <2>1, <3>1, <4>1 DEF Opening
    <3> QED BY <1>1, <2>1, <3>1, <3>2 DEF OneConnect, RunsForActive, Unheard, Severed
  <2> QED BY <1>1, <2>2 DEF RunInv
<1>5. CASE AutoTornDown
  <2>1. conn' = conn /\ crossed' = crossed /\ active' = active /\ Opening' = Opening
    BY <1>5 DEF AutoTornDown, vault, Opening
  <2>2. \/ UNCHANGED <<attached, bridge, events>> /\ attached = NoOne
        \/ attached' = NoOne /\ bridge' = BridgeOfNone /\ events' = Severed
    BY <1>5 DEF AutoTornDown, ForceStop
  <2>3. auto.at # "handler"
    BY <1>5 DEF AutoTornDown
  <2>4. ASSUME ~crossed' PROVE OneConnect' /\ RunsForActive'
    <3>1. OneConnect /\ RunsForActive
      BY <2>1, <2>4 DEF RunInv
    <3>2. Unheard => Unheard'
      BY <2>2 DEF Unheard, BridgeOfNone, Severed
    <3> QED BY <1>1, <2>1, <2>2, <2>3, <3>1, <3>2 DEF OneConnect, RunsForActive
  <2> QED BY <1>1, <2>4 DEF RunInv
<1>6. CASE AutoForced
  <2>1. PICK ok \in BOOLEAN : Forced(ok)
    BY <1>6 DEF AutoForced
  <2>2. crossed' = crossed /\ active' = active /\ auto.at # "handler"
    BY <1>6 DEF AutoForced, vault
  <2>3. /\ \A c \in Conns : conn'[c].at = conn[c].at /\ conn'[c].chat = conn[c].chat
        /\ \A c \in Conns : conn[c] = Closed => conn'[c] = Closed
    <3>1. CASE conn' = conn
      BY <3>1
    <3>2. CASE conn' = Orphaned
      <4>1. \A c \in Conns : conn'[c] = IF conn[c].at = "boot"
                                         THEN [conn[c] EXCEPT !.orphan = TRUE] ELSE conn[c]
        BY <3>2 DEF Orphaned
      <4>2. \A c \in Conns : conn'[c].at = conn[c].at /\ conn'[c].chat = conn[c].chat
        BY <1>2, <4>1 DEF Conn
      <4>3. Closed.at # "boot"
        BY DEF Closed
      <4> QED BY <4>1, <4>2, <4>3
    <3> QED BY <2>1, <3>1, <3>2 DEF Forced
  <2>4. Opening' \subseteq Opening
    BY <2>3 DEF Opening
  <2>5. \/ UNCHANGED <<attached, bridge, events>>
        \/ attached' = NoOne /\ bridge' = BridgeOfNone /\ events' = Severed
    BY <2>1 DEF Forced
  <2>6. ASSUME ~crossed' PROVE OneConnect' /\ RunsForActive'
    <3>1. OneConnect /\ RunsForActive
      BY <2>2, <2>6 DEF RunInv
    <3>2. Unheard => Unheard'
      BY <2>5 DEF Unheard, BridgeOfNone, Severed
    <3>3. OneConnect'
      BY <1>1, <2>4, <3>1, <3>2 DEF OneConnect
    <3> QED BY <2>2, <2>3, <2>5, <3>1, <3>3 DEF RunsForActive
  <2> QED BY <1>1, <2>6 DEF RunInv
<1> QED BY <1>3, <1>4, <1>5, <1>6 DEF Tearing

LEMMA FreshRuns == Init => RunInv
<1> SUFFICES ASSUME Init PROVE RunInv
  OBVIOUS
<1>1. Opening = {} /\ \A c \in Conns : conn[c].at # "boot"
  BY DEF Init, Opening, Closed
<1> QED BY <1>1 DEF Init, Idle, RunInv, ClientFirst, OneConnect, Unheard, RunsForActive

LEMMA CrashRuns == ASSUME IInv, RunInv, Crash PROVE RunInv'
<1>1. Opening' = {} /\ \A c \in Conns : conn'[c].at # "boot"
  BY DEF Crash, Opening, Closed
<1> QED BY <1>1 DEF Crash, Idle, RunInv, ClientFirst, OneConnect, Unheard, RunsForActive

LEMMA OperationRuns ==
  ASSUME IInv, RunInv,
         \/ Unlock \/ UnlockWithDevice \/ ChangePassword \/ ResealDelegatedKeystore
         \/ ResetPassword \/ CreateAccount \/ CreateDelegatedAccount \/ ImportBackup
         \/ PurgeAccount
  PROVE  RunInv'
<1>1. op.at \notin {"idle", "leave"} /\ auto' = auto /\ UNCHANGED Runs
  BY DEF Unlock, UnlockWithDevice, ChangePassword, ResealDelegatedKeystore, ResetPassword,
         CreateAccount, CreateDelegatedAccount, ImportBackup, Provision, PurgeAccount, runtime, Runs
<1>2. op \in Operations /\ Idle.at = "idle" /\ [Idle EXCEPT !.at = "connect"].at = "connect"
  BY DEF IInv, TypeOK, Idle
<1>3. op'.at = "connect" => screen' = "open"
  <2>1. CASE Unlock
    BY <1>2, <2>1 DEF Unlock, Refused
  <2>2. CASE UnlockWithDevice
    BY <1>2, <2>2 DEF UnlockWithDevice, Refused, Operations
  <2>3. CASE ChangePassword \/ ResealDelegatedKeystore \/ ResetPassword \/ PurgeAccount
    BY <1>2, <2>3 DEF ChangePassword, ResealDelegatedKeystore, Reseal, ResetPassword,
                      PurgeAccount, Refused
  <2>4. CASE CreateAccount \/ CreateDelegatedAccount \/ ImportBackup
    BY <1>2, <2>4 DEF CreateAccount, CreateDelegatedAccount, ImportBackup, Provision,
                      Refused, Operations
  <2> QED BY <2>1, <2>2, <2>3, <2>4
<1> QED BY <1>1, <1>3, VaultRuns

(* A server is attached only for the unlocked account and is heard on the  *)
(* screen, because the client is closed before an operation begins, one    *)
(* connect is open at a time, and the timer's handler is still to come     *)
(* where the vault locked under a server (DesktopSupervisor.connect).      *)
THEOREM ServerInductive == Spec => []RunInv
<1>1. ASSUME IInv, RunInv, Next PROVE RunInv'
  <2>1. CASE \E a \in Accounts : DisableDeviceUnlock(a) \/ \E p \in Passwords : ExportBackup(a, p)
    <3>1. op' = op /\ screen' = screen /\ active' = active /\ auto' = auto /\ UNCHANGED Runs
      BY <2>1 DEF DisableDeviceUnlock, ExportBackup, runtime, screens, Runs
    <3>2. op' = Idle /\ screen' \in {"open", "locked"}
      BY <1>1, <2>1, <3>1 DEF DisableDeviceUnlock, ExportBackup, IInv, TypeOK
    <3>3. op'.at = "idle" /\ (~client \/ screen' = "open")
      <4>1. op'.at = "idle"
        BY <3>2 DEF Idle
      <4>2. screen = "locked" => ~client
        BY <1>1 DEF RunInv, ClientFirst
      <4> QED BY <3>1, <3>2, <4>1, <4>2
    <3> QED BY <1>1, <3>1, <3>3, RunFrame
  <2>2. CASE Operate
    BY <1>1, <2>2, WayRuns, OperationRuns, StartConnectRuns DEF Operate
  <2> QED BY <1>1, <2>1, <2>2, BeginRuns, ConnectingRuns, TearingRuns, CrashRuns DEF Next
<1>2. ASSUME RunInv, UNCHANGED vars PROVE RunInv'
  BY <1>2 DEF RunInv, ClientFirst, OneConnect, Unheard, RunsForActive, Opening,
              vars, vault, runtime, screens
<1> QED BY <1>1, <1>2, FreshRuns, Inductive, PTL DEF Spec

(* When nothing is under way and no teardown crossed a connect, a server   *)
(* runs only for the unlocked account, with its identity, and the screens  *)
(* hear it (DesktopSupervisor.lock, registerDesktopIpc attachBusEvents).   *)
THEOREM ServerIsTheirs == Spec => []ServerIsTheUsers
<1>1. RunInv => ServerIsTheUsers
  BY DEF RunInv, RunsForActive, ServerIsTheUsers, ServerFollowsVault, EventsFlow, Quiet, Rest
<1> QED BY <1>1, ServerInductive, PTL
=============================================================================
