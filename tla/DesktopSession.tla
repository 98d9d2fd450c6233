--------------------------- MODULE DesktopSession ---------------------------
(***************************************************************************)
(* The desktop shell's session: the vault of accounts and passwords        *)
(* (src/desktop/runtime/DesktopVaultService.js), the supervisor that ties  *)
(* the chat runtime to it (DesktopSupervisor.js), the chat application it  *)
(* starts and stops (src/index.js), the IPC handlers in front of them and  *)
(* the screens that call them (src/ui/services/bus/SessionService.js).     *)
(*                                                                         *)
(* Four kinds of process interleave at every await: one operation of the   *)
(* screens at a time, the connects the screens leave running behind an     *)
(* unlock, the teardown that follows the vault's own timers, and the end   *)
(* of the process.                                                         *)
(*                                                                         *)
(* A row is one password (keystore, data key and phrase are sealed and     *)
(* written together, in one statement), the machine-bound copy of the data *)
(* key and the saved password of device unlock.  The data key itself is    *)
(* the account's for ever: every operation reseals it and none renews it.  *)
(***************************************************************************)
EXTENDS Naturals, FiniteSets, FiniteSetsExt

CONSTANTS
  Accounts,     \* the accounts that may live on this device
  Delegated,    \* those linked from another device, with no phrase
  InitialRows,  \* the rows an account may have when the model begins
  Restorable,   \* accounts an encrypted backup file exists of from before
  Passwords,
  Conns,        \* connects that may be open at the same time
  NoOne,        \* no account
  Limits        \* how often: "op", "auto", "deny", "fail", "crash"

Bounds == {"op", "auto", "deny", "fail", "crash"}

NoRow == [pwd |-> "", wrap |-> "none", saved |-> "none"]
Row   == [pwd : Passwords, wrap : {"none", "legacy", "current"},
          saved : Passwords \cup {"none", "legacy"}]

ASSUME SessionAssumption ==
  /\ Delegated \subseteq Accounts /\ Restorable \subseteq Accounts \ Delegated
  /\ NoOne \notin Accounts /\ Passwords # {}
  /\ Passwords \cap {"", "none", "legacy"} = {}
  /\ InitialRows \subseteq [Accounts -> {NoRow} \cup Row]
  /\ \A f \in InitialRows : \A a \in Accounts :
       f[a].pwd # "" => f[a].saved \in {"none", "legacy", f[a].pwd}
  /\ Limits \subseteq [Bounds -> Nat]

VARIABLES
  row,        \* the vault's rows, NoRow for an account without one
  backup,     \* accounts an encrypted backup file exists of
  keyed,      \* the keychain's device key is in memory
  active,     \* the unlocked account and its chat identity, or NoOne
  pending,    \* the chat identity a creation left for the next unlock
  app,        \* the chat application (node and shell) is up
  attached,   \* the identity of the chat server the application holds
  stray,      \* identities of live servers that no one holds any more
  bridge,     \* the bus bridge: of the attached server, of an older one
  events,     \* the subscription that carries its events to the screens
  unsafe,     \* lockIncomplete
  screen,     \* what the screens believe: "locked" or "open"
  client,     \* the screens hold a runtime client
  op,         \* the operation of the screens that is under way
  auto,       \* the teardown that follows an auto-lock
  conn,       \* the connects under way
  crossed,    \* history: a teardown has run beside an open connect
  left        \* what is left of the bounds

vault   == <<row, backup, keyed, active, pending>>
runtime == <<app, attached, stray, bridge, events, unsafe>>
screens == <<screen, client, op>>
vars    == <<vault, runtime, screens, auto, conn, crossed, left>>

HasRow(a) == row[a] # NoRow

Kinds == {"unlock", "saved", "create", "import", "link",
          "change", "reset", "purge", "lock"}
Idle  == [kind |-> "none", acct |-> NoOne, pwd |-> "", new |-> "",
          remember |-> FALSE, at |-> "idle", halting |-> NoOne]
Rest  == [at |-> "idle", halting |-> NoOne]
Closed == [at |-> "idle", chat |-> NoOne, orphan |-> FALSE]

Spend(k) == left[k] > 0 /\ left' = [left EXCEPT ![k] = @ - 1]

Init ==
  /\ row \in InitialRows
  /\ backup = {a \in Restorable : ~HasRow(a)} /\ keyed = FALSE /\ active = NoOne /\ pending = NoOne
  /\ app = FALSE /\ attached = NoOne /\ stray = {}
  /\ bridge = "none" /\ events = "none" /\ unsafe = FALSE
  /\ screen = "locked" /\ client = FALSE /\ op = Idle
  /\ auto = Rest /\ conn = [c \in Conns |-> Closed]
  /\ crossed = FALSE /\ left \in Limits

-----------------------------------------------------------------------------
(* The chat application and the supervisor's teardown. *)

Opening == {c \in Conns : conn[c] # Closed}

\* A bridge and a subscription outlive the server they were made for.
BridgeOfNone == IF bridge = "fresh" THEN "stale" ELSE bridge
Severed      == IF events = "live" THEN "dead" ELSE events

\* disconnect: the bridge closes, and the application forgets its server
\* before it awaits the stop.  `halting` is the server whose stop is awaited.
\* Wrong variant: the bridge is closed and the server left running.
DetachBridge == bridge' = "none" /\ crossed' = (crossed \/ Opening # {}) /\ UNCHANGED attached
Detach == bridge' = "none" /\ crossed' = (crossed \/ Opening # {}) /\ attached' = NoOne
Disconnect == Detach /\ events' = Severed

\* The awaited stop: a failure is logged and swallowed, and the server lives.
Stopped(server) ==
  \/ stray' = stray /\ UNCHANGED left
  \/ server # NoOne /\ Spend("fail") /\ stray' = stray \cup {server}

\* chatApp.stop: no connect that is under way will find this application.
ForceStop ==
  /\ attached' = NoOne /\ bridge' = BridgeOfNone /\ events' = Severed

Orphaned == [c \in Conns |-> IF conn[c].at = "boot" THEN [conn[c] EXCEPT !.orphan = TRUE]
                             ELSE conn[c]]

-----------------------------------------------------------------------------
(* The keychain: the key is fetched on first use and may be refused. *)

DeviceKey(k) ==
  \/ k = TRUE /\ UNCHANGED left
  \/ ~keyed /\ k = FALSE /\ Spend("deny")

Wrapped(k) == IF k THEN "current" ELSE "none"

\* The machine-bound copy of another scheme is replaced, and with it goes
\* the saved password; the password itself is saved when it is asked for.
Healed(r, k) == IF k /\ r.wrap = "legacy"
                THEN [r EXCEPT !.wrap = "current", !.saved = "none"] ELSE r
Opened(r, k, p, remember) ==
  IF k /\ remember THEN [Healed(r, k) EXCEPT !.saved = p] ELSE Healed(r, k)

\* The chat identity an unlock ends with, and what it leaves for the next.
ChatOf(a) == IF a \in Delegated \/ pending = NoOne THEN a ELSE pending
PendingAfter(a) == NoOne

-----------------------------------------------------------------------------
(* The screens' operations. *)

NeedsLeave(k) == k \in {"change", "reset", "import", "purge", "lock"}
MayBegin(k, a) ==
  CASE k \in {"unlock", "saved"} -> screen = "locked" /\ HasRow(a)
    [] k \in {"change", "lock"}  -> screen = "open" /\ HasRow(a)
    [] k = "purge"               -> HasRow(a)
    [] k = "reset"               -> screen = "locked" /\ HasRow(a) /\ a \notin Delegated
    [] k = "create"              -> screen = "locked" /\ ~HasRow(a) /\ a \notin Delegated \cup backup
    [] k = "link"                -> screen = "locked" /\ ~HasRow(a) /\ a \in Delegated
    [] k = "import"              -> screen = "locked" /\ a \in backup

Begin(k, a, p, q, r) ==
  /\ op = Idle /\ MayBegin(k, a) /\ Spend("op")
  /\ (k = "change" <=> p # q) /\ (k = "unlock" \/ ~r)
  /\ op' = [Idle EXCEPT !.kind = k, !.acct = a, !.remember = r,
                        !.pwd = IF k \in {"change", "purge"} THEN p ELSE "",
                        !.new = IF k \in {"lock", "purge", "saved"} THEN "" ELSE q,
                        !.at = CASE NeedsLeave(k) /\ client -> "leave"
                                 [] NeedsLeave(k) /\ ~client -> "teardown"
                                 [] k = "link"              -> "link"
                                 [] OTHER                   -> "vault"]
  /\ UNCHANGED <<vault, runtime, screen, client, auto, conn, crossed>>

\* The screens close their client: desktop:runtime:disconnect.
Leave ==
  /\ op.at = "leave"
  /\ op' = [op EXCEPT !.at = IF attached = NoOne THEN "teardown" ELSE "leaving",
                    !.halting = attached]
  /\ Detach /\ events' = "none"
  /\ client' = FALSE
  /\ UNCHANGED <<vault, app, stray, unsafe, screen, auto, conn, left>>

Left ==
  /\ op.at = "leaving" /\ Stopped(op.halting)
  /\ op' = [op EXCEPT !.at = "teardown", !.halting = NoOne]
  /\ UNCHANGED <<vault, app, attached, bridge, events, unsafe, screen, client, auto, conn, crossed>>

AfterTeardown == IF op.kind = "lock" THEN "lock" ELSE "vault"

\* The supervisor's own disconnect, before it hands over to the vault.
Teardown ==
  /\ op.at = "teardown"
  /\ op' = [op EXCEPT !.at = IF attached = NoOne THEN AfterTeardown ELSE "stopping",
                    !.halting = attached]
  /\ Disconnect
  /\ UNCHANGED <<vault, app, stray, unsafe, screen, client, auto, conn, left>>

TornDown ==
  /\ op.at = "stopping" /\ Stopped(op.halting)
  /\ op' = [op EXCEPT !.at = AfterTeardown, !.halting = NoOne]
  /\ UNCHANGED <<vault, app, attached, bridge, events, unsafe, screen, client, auto, conn, crossed>>

\* The vault locks whatever the teardown did; then the supervisor looks.
LockVault ==
  /\ op.at = "lock"
  /\ active' = NoOne
  /\ IF attached = NoOne
     THEN unsafe' = FALSE /\ op' = Idle /\ screen' = "locked" /\ UNCHANGED <<attached, bridge, events>>
     ELSE /\ op' = [op EXCEPT !.at = "force", !.halting = attached]
          /\ ForceStop /\ UNCHANGED <<unsafe, screen>>
  /\ UNCHANGED <<row, backup, keyed, pending, app, stray, client, auto, conn, crossed, left>>

\* The forced stop ends with the application given up, and with it a server
\* that came up meanwhile; or it fails, and the lock is incomplete.
Forced(ok) ==
  IF ok THEN /\ app' = FALSE /\ unsafe' = FALSE /\ conn' = Orphaned
             /\ attached' = NoOne /\ stray' = stray \cup ({attached} \ {NoOne})
             /\ bridge' = BridgeOfNone /\ events' = Severed /\ UNCHANGED left
  ELSE /\ Spend("fail") /\ unsafe' = TRUE
       /\ UNCHANGED <<app, attached, stray, bridge, events, conn>>

LockForced ==
  /\ op.at = "force"
  /\ \E ok \in BOOLEAN : Forced(ok) /\ screen' = IF ok THEN "locked" ELSE screen
  /\ op' = Idle
  /\ UNCHANGED <<vault, client, auto, crossed>>

-----------------------------------------------------------------------------
(* The vault's operations.  Each reads the row, verifies what it was given *)
(* and writes once; only an unlock, and a creation that ends in one, leave *)
(* the vault open. *)

Refused == op' = Idle /\ UNCHANGED <<vault, screen, left>>

\* Wrong variant: the new password leaves the saved one in place.
ResetKeepsSaved(a, q, k) == [row EXCEPT ![a] = [pwd |-> q, wrap |-> Wrapped(k), saved |-> row[a].saved]]
Reset(a, q, k) == [row EXCEPT ![a] = [pwd |-> q, wrap |-> Wrapped(k), saved |-> "none"]]
Unlock ==
  /\ op.at \in {"vault", "open"} /\ (op.kind = "unlock" \/ op.at = "open")
  /\ LET a == op.acct IN
     IF ~HasRow(a) \/ row[a].pwd # op.new THEN Refused
     ELSE \E k \in BOOLEAN :
          /\ DeviceKey(k)
          /\ keyed' = k
          /\ row' = [row EXCEPT ![a] = Opened(@, k, op.new, op.remember)]
          /\ active' = [acct |-> a, chat |-> ChatOf(a)]
          /\ pending' = PendingAfter(a)
          /\ screen' = "open" /\ op' = [Idle EXCEPT !.at = "connect"]
          /\ UNCHANGED backup
  /\ UNCHANGED <<runtime, client, auto, conn, crossed>>

\* Device unlock: the saved password is recovered and an unlock runs with it;
\* one of another scheme is forgotten.
UnlockWithDevice ==
  /\ op.at = "vault" /\ op.kind = "saved"
  /\ LET a == op.acct IN
     IF row[a].saved = "none" THEN Refused
     ELSE \E k \in BOOLEAN :
          /\ DeviceKey(k) /\ keyed' = k
          /\ CASE ~k -> op' = Idle /\ UNCHANGED row
               [] k /\ row[a].saved = "legacy" ->
                    op' = Idle /\ row' = [row EXCEPT ![a].saved = "none"]
               [] OTHER -> op' = [op EXCEPT !.new = row[a].saved, !.at = "open"] /\ UNCHANGED row
          /\ UNCHANGED <<backup, active, pending, screen>>
  /\ UNCHANGED <<runtime, client, auto, conn, crossed>>

\* changePassword: the row is resealed and the vault ends locked.
Reseal ==
  LET a == op.acct IN
  IF row[a].pwd # op.pwd \/ op.pwd = op.new THEN Refused
  ELSE \E k \in BOOLEAN :
       /\ DeviceKey(k) /\ keyed' = k
       /\ row' = Reset(a, op.new, k)
       /\ active' = NoOne /\ screen' = "locked" /\ op' = Idle
       /\ UNCHANGED <<backup, pending>>

ChangePassword ==
  /\ op.at = "vault" /\ op.kind = "change" /\ op.acct \notin Delegated
  /\ Reseal
  /\ UNCHANGED <<runtime, client, auto, conn, crossed>>

\* A delegated row has no phrase to rebuild: its payload is sealed again.
ResealDelegatedKeystore ==
  /\ op.at = "vault" /\ op.kind = "change" /\ op.acct \in Delegated
  /\ Reseal
  /\ UNCHANGED <<runtime, client, auto, conn, crossed>>

\* The phrase opens a row only through the machine-bound copy, and that only
\* with a device key that an earlier operation has fetched.
ResetPassword ==
  /\ op.at = "vault" /\ op.kind = "reset"
  /\ LET a == op.acct IN
     IF row[a].wrap # "current" \/ ~keyed THEN Refused
     ELSE /\ row' = Reset(a, op.new, TRUE) /\ active' = NoOne /\ op' = Idle
          /\ UNCHANGED <<backup, keyed, pending, screen, left>>
  /\ UNCHANGED <<runtime, client, auto, conn, crossed>>

\* A new row, the identity left for the unlock, and the unlock.
Provision(kind, identity) ==
  /\ op.at = "vault" /\ op.kind = kind
  /\ LET a == op.acct IN
     IF HasRow(a) THEN Refused
     ELSE \E k \in BOOLEAN :
          /\ DeviceKey(k) /\ keyed' = k
          /\ row' = Reset(a, op.new, k)
          /\ pending' = identity
          /\ op' = [op EXCEPT !.at = "open"]
          /\ UNCHANGED <<backup, active, screen>>
  /\ UNCHANGED <<runtime, client, auto, conn, crossed>>

CreateAccount          == Provision("create", op.acct)
CreateDelegatedAccount == Provision("link", pending)
ImportBackup           == Provision("import", op.acct)

\* The ceremony of a new device runs on the local node, without a session.
Link ==
  /\ op.at = "link"
  /\ \/ attached # NoOne /\ op' = Idle /\ UNCHANGED <<app, left>>
     \/ attached = NoOne /\ app' = TRUE /\ op' = [op EXCEPT !.at = "vault"] /\ UNCHANGED left
     \/ attached = NoOne /\ op' = Idle /\ Spend("fail") /\ UNCHANGED app
  /\ UNCHANGED <<vault, attached, stray, bridge, events, unsafe, screen, client, auto, conn, crossed>>

PurgeAccount ==
  /\ op.at = "vault" /\ op.kind = "purge"
  /\ LET a == op.acct IN
     IF row[a].pwd # op.pwd THEN Refused
     ELSE /\ row' = [row EXCEPT ![a] = NoRow] /\ active' = NoOne
          /\ screen' = "locked" /\ op' = Idle
          /\ UNCHANGED <<backup, keyed, pending, left>>
  /\ UNCHANGED <<runtime, client, auto, conn, crossed>>

DisableDeviceUnlock(a) ==
  /\ op = Idle /\ HasRow(a) /\ row[a].saved # "none" /\ Spend("op")
  /\ row' = [row EXCEPT ![a].saved = "none"]
  /\ UNCHANGED <<backup, keyed, active, pending, runtime, screens, auto, conn, crossed>>

\* exportBackup reads, verifies and writes nothing here.
ExportBackup(a, p) ==
  /\ op = Idle /\ screen = "open" /\ HasRow(a) /\ a \notin Delegated \cup backup
  /\ row[a].pwd = p /\ Spend("op")
  /\ backup' = backup \cup {a}
  /\ UNCHANGED <<row, keyed, active, pending, runtime, screens, auto, conn, crossed>>

-----------------------------------------------------------------------------
(* The connect an unlock leaves running. *)

\* The screens make a client and connect it, and do not wait.
StartConnect ==
  /\ op.at = "connect" /\ op' = Idle /\ client' = TRUE
  /\ \E c \in Conns : conn[c] = Closed /\ conn' = [conn EXCEPT ![c].at = "asked"]
  /\ UNCHANGED <<vault, runtime, screen, auto, crossed, left>>

ChatIdentity == IF active = NoOne THEN NoOne ELSE active.chat

\* The bridge and the subscription are made where there are none.
Bridged == IF bridge = "none" THEN "fresh" ELSE bridge
Subscribed == IF events = "none" THEN IF Bridged = "fresh" THEN "live" ELSE "dead" ELSE events

\* After the application is there: an attached server is kept, another is
\* booted with the identity of the vault as it is now.
Proceed(c) ==
  IF attached # NoOne
  THEN /\ bridge' = Bridged /\ events' = Subscribed /\ conn' = [conn EXCEPT ![c] = Closed]
  ELSE /\ conn' = [conn EXCEPT ![c] = IF ChatIdentity = NoOne THEN Closed
                                      ELSE [Closed EXCEPT !.at = "boot", !.chat = ChatIdentity]]
       /\ UNCHANGED <<bridge, events>>

Connect(c) ==
  /\ conn[c].at = "asked"
  /\ CASE active = NoOne -> conn' = [conn EXCEPT ![c] = Closed] /\ UNCHANGED <<bridge, events>>
       [] active # NoOne /\ ~app -> conn' = [conn EXCEPT ![c].at = "app"] /\ UNCHANGED <<bridge, events>>
       [] OTHER -> Proceed(c)
  /\ UNCHANGED <<vault, app, attached, stray, unsafe, screens, auto, crossed, left>>

\* startRezChat: only one application can hold the ports and the store.
AppUp(c) ==
  /\ conn[c].at = "app"
  /\ \/ ~app /\ app' = TRUE /\ UNCHANGED left /\ Proceed(c)
     \/ /\ app \/ left["fail"] > 0
        /\ IF app THEN UNCHANGED left ELSE Spend("fail")
        /\ conn' = [conn EXCEPT ![c] = Closed] /\ UNCHANGED <<app, bridge, events>>
  /\ UNCHANGED <<vault, attached, stray, unsafe, screens, auto, crossed>>

\* startChatServer ends.  The vault is not asked again, and a server that
\* another connect attached meanwhile is replaced without being stopped.
ServerUp(c) ==
  /\ conn[c].at = "boot"
  /\ conn' = [conn EXCEPT ![c] = Closed]
  /\ \/ /\ ~conn[c].orphan
        /\ attached' = conn[c].chat
        /\ stray' = stray \cup ({attached} \ {NoOne})
        /\ bridge' = IF bridge = "none" THEN "fresh" ELSE "stale"
        /\ events' = IF events = "none" THEN "live" ELSE events
        /\ UNCHANGED left
     \/ /\ conn[c].orphan
        /\ stray' = stray \cup {conn[c].chat}
        /\ UNCHANGED <<attached, bridge, events, left>>
     \/ /\ Spend("fail") /\ UNCHANGED <<attached, stray, bridge, events>>
  /\ UNCHANGED <<vault, app, unsafe, screens, auto, crossed>>

-----------------------------------------------------------------------------
(* The idle and the absolute timer, and the end of the process. *)

\* Wrong variant: the vault locks and no one is told.
AutoLockAlone ==
  /\ active # NoOne /\ auto.at = "idle" /\ Spend("auto")
  /\ active' = NoOne
  /\ UNCHANGED <<row, backup, keyed, pending, runtime, screens, auto, conn, crossed>>
AutoLock ==
  /\ active # NoOne /\ auto.at = "idle" /\ Spend("auto")
  /\ active' = NoOne
  /\ auto' = [auto EXCEPT !.at = "handler"]
  /\ UNCHANGED <<row, backup, keyed, pending, runtime, screens, conn, crossed>>

AutoTeardown ==
  /\ auto.at = "handler"
  /\ auto' = [at |-> "stopping", halting |-> attached]
  /\ Disconnect
  /\ UNCHANGED <<vault, app, stray, unsafe, screens, conn, left>>

AutoTornDown ==
  /\ auto.at = "stopping" /\ Stopped(auto.halting)
  /\ IF attached = NoOne
     THEN unsafe' = FALSE /\ auto' = Rest /\ UNCHANGED <<attached, bridge, events>>
     ELSE auto' = [at |-> "force", halting |-> attached] /\ ForceStop /\ UNCHANGED unsafe
  /\ UNCHANGED <<vault, app, screens, conn, crossed>>

AutoForced ==
  /\ auto.at = "force" /\ auto' = Rest
  /\ \E ok \in BOOLEAN : Forced(ok)
  /\ UNCHANGED <<vault, screens, crossed>>

Crash ==
  /\ Spend("crash")
  /\ keyed' = FALSE /\ active' = NoOne /\ pending' = NoOne
  /\ app' = FALSE /\ attached' = NoOne /\ stray' = {} /\ bridge' = "none"
  /\ events' = "none" /\ unsafe' = FALSE
  /\ screen' = "locked" /\ client' = FALSE /\ op' = Idle
  /\ auto' = Rest /\ conn' = [c \in Conns |-> Closed] /\ crossed' = FALSE
  /\ UNCHANGED <<row, backup>>

-----------------------------------------------------------------------------
Operate == \/ Leave \/ Left \/ Teardown \/ TornDown \/ LockVault \/ LockForced
           \/ Unlock \/ UnlockWithDevice \/ ChangePassword \/ ResealDelegatedKeystore
           \/ ResetPassword \/ CreateAccount \/ CreateDelegatedAccount \/ ImportBackup
           \/ Link \/ PurgeAccount \/ StartConnect
Connecting(c) == Connect(c) \/ AppUp(c) \/ ServerUp(c)
Tearing == AutoTeardown \/ AutoTornDown \/ AutoForced

Next ==
  \/ \E k \in Kinds, a \in Accounts, p, q \in Passwords, r \in BOOLEAN : Begin(k, a, p, q, r)
  \/ \E a \in Accounts : DisableDeviceUnlock(a) \/ \E p \in Passwords : ExportBackup(a, p)
  \/ Operate
  \/ \E c \in Conns : Connecting(c)
  \/ AutoLock \/ Tearing \/ Crash

Fairness ==
  /\ WF_vars(Operate) /\ WF_vars(Tearing)
  /\ \A c \in Conns : WF_vars(Connecting(c))

Spec == Init /\ [][Next]_vars /\ Fairness

-----------------------------------------------------------------------------
(* Properties. *)

Operations ==
  [kind : Kinds \cup {"none"}, acct : Accounts \cup {NoOne},
   pwd : Passwords \cup {""}, new : Passwords \cup {""}, remember : BOOLEAN,
   at : {"idle", "leave", "leaving", "link", "teardown", "stopping", "lock",
         "force", "vault", "open", "connect"},
   halting : Accounts \cup {NoOne}]

TypeOK ==
  /\ row \in [Accounts -> {NoRow} \cup Row] /\ backup \subseteq Accounts
  /\ keyed \in BOOLEAN /\ pending \in Accounts \cup {NoOne}
  /\ active \in [acct : Accounts, chat : Accounts] \cup {NoOne}
  /\ app \in BOOLEAN /\ attached \in Accounts \cup {NoOne} /\ stray \subseteq Accounts
  /\ bridge \in {"none", "fresh", "stale"} /\ events \in {"none", "live", "dead"}
  /\ unsafe \in BOOLEAN /\ screen \in {"locked", "open"} /\ client \in BOOLEAN
  /\ op \in Operations
  /\ auto \in [at : {"idle", "handler", "stopping", "force"}, halting : Accounts \cup {NoOne}]
  /\ conn \in [Conns -> [at : {"idle", "asked", "app", "boot"},
                        chat : Accounts \cup {NoOne}, orphan : BOOLEAN]]
  /\ \A c \in Conns : conn[c].at = "boot" => conn[c].chat # NoOne
  /\ crossed \in BOOLEAN /\ left \in [Bounds -> Nat]

\* Nothing is under way.
Quiet == op = Idle /\ auto = Rest /\ \A c \in Conns : conn[c] = Closed

(* The password device unlock keeps is the password of the row: no change, *)
(* reset or restoration leaves an old one behind                           *)
(* (DesktopVaultService.changePassword, resetPasswordWithMnemonic).        *)
SavedPasswordOpens ==
  \A a \in Accounts : HasRow(a) /\ row[a].saved \in Passwords => row[a].saved = row[a].pwd

(* The chat identity a creation leaves behind is taken by that creation's  *)
(* own unlock: no account is ever open under the identity of another       *)
(* (DesktopVaultService.unlock).                                           *)
IdentityIsOwn == active # NoOne => active.chat = active.acct

(* Whatever opens an account is that account's: the password kept for it   *)
(* and the identity it runs under.                                         *)
CredentialsAreOwn == SavedPasswordOpens /\ IdentityIsOwn

(* When nothing is under way and no teardown has run beside an open        *)
(* connect, a chat server runs only for the account that is unlocked, with *)
(* its identity (DesktopSupervisor.connect, lock, #onVaultAutoLocked).     *)
ServerFollowsVault ==
  Quiet /\ ~crossed /\ attached # NoOne => active # NoOne /\ active.chat = attached

(* Then, too, the screens hear it: the bridge is that server's and the     *)
(* subscription is that bridge's, after any number of locks by the timer   *)
(* and by hand (registerDesktopIpc attachBusEvents).                       *)
EventsFlow ==
  Quiet /\ ~crossed /\ attached # NoOne => bridge = "fresh" /\ events = "live"

(* Why they are: whoever is about to open an account proved its password   *)
(* or has just written it, and an identity waits for its own unlock only.  *)
OpensItsOwn ==
  op.at = "open" => /\ op.acct \in Accounts /\ HasRow(op.acct)
                    /\ row[op.acct].pwd = op.new
PendingIsOwn ==
  pending # NoOne => op.at = "open" /\ op.kind \in {"create", "import"} /\ pending = op.acct
\* What the vault is asked to do names an account, and the password it needs.
OperationNames ==
  /\ op.at \notin {"idle", "connect"} => op.acct \in Accounts
  /\ op.kind \in {"unlock", "create", "import", "link", "change", "reset"} => op.new \in Passwords
IInv == TypeOK /\ CredentialsAreOwn /\ OpensItsOwn /\ PendingIsOwn /\ OperationNames

(* Why the server is the user's: the screens close their client before     *)
(* they ask for anything, and so an unlock finds nothing running; as long  *)
(* as no teardown runs beside it, one connect is open at a time, and what  *)
(* it boots is the account of that unlock or awaits the timer's handler.   *)
ClientFirst ==
  /\ op.at \notin {"idle", "leave"} \/ screen = "locked" => ~client
  /\ op.at = "connect" => screen = "open"
Unheard == attached = NoOne /\ bridge = "none" /\ events = "none"
OneConnect ==
  /\ \A c, d \in Opening : c = d
  /\ Opening # {} => client /\ Unheard
  /\ ~client => Unheard
RunsForActive ==
  /\ attached # NoOne => bridge = "fresh" /\ events = "live"
  /\ attached # NoOne /\ auto.at # "handler" => active # NoOne /\ active.chat = attached
  /\ \A c \in Conns : conn[c].at = "boot" /\ auto.at # "handler" =>
       active # NoOne /\ active.chat = conn[c].chat
RunInv == ClientFirst /\ (~crossed => OneConnect /\ RunsForActive)

(* A chat server runs for the account on the screen, and is heard there.   *)
ServerIsTheUsers == ServerFollowsVault /\ EventsFlow

(* A timer's lock reaches the runtime, whose teardown no one awaits.       *)
LockReachesServer == []<>(crossed \/ active # NoOne \/ attached = NoOne)

=============================================================================
