----------------------------- MODULE ThreadList -----------------------------
(***************************************************************************)
(* The server's conversation list and the calls of a window about it:      *)
(* src/server/services/ServerThreadsService.js over the thread index of    *)
(* src/server/storage/ChatThreadIndex.js.                                  *)
(*                                                                         *)
(* The index is one record per thread, written under that thread's lock,   *)
(* and one list of all the threads, which every write loads and saves as a *)
(* whole.  A message is named by its place in the order of keys.           *)
(***************************************************************************)
EXTENDS ChatUplink

ASSUME MessageAssumption == Msgs \subseteq Nat \ {0} /\ IsFiniteSet(Msgs)

VARIABLES
  own,    \* threads with a record in the thread store
  stored,  \* messages in the thread store
  due,    \* stored messages whose index entry nobody has asked for yet
  rec,    \* the index record of a thread
  tips,   \* the threads of the shared list
  lock,   \* the writes of a thread's index: the first one runs
  jobs,   \* calls the server is working on
  mixed   \* history: a list was built while a row it had read changed, or the
          \* end of a write was said while no server was attached

threadVars == <<own, stored, due, rec, tips, lock, jobs, mixed>>

Key == {0} \cup Msgs  \* 0: before every message
NoRec == [act |-> 0, unread |-> {0}, mark |-> 0, ch |-> [c \in Channels |-> 0]]
EmptyEntry == [NoRec EXCEPT !.unread = {}]
Record == [act : Key, unread : SUBSET Msgs, mark : Key, ch : [Channels -> Key]]

\* A write: its kind, its message or channel, the call it answers; then the
\* messages it has read, and the shared list it has loaded.
Op == [k : {"upsert", "read", "chread", "remove", "ensure"}, m : Key, c : Channels,
       id : {0} \cup CallIds, at : {"wait", "read", "saved"},
       snap : SUBSET Msgs, tips : SUBSET Threads]
Write(k, m, c, id) ==
  [k |-> k, m |-> m, c |-> c, id |-> id, at |-> "wait", snap |-> {}, tips |-> {}]

NoJob == [k |-> "none", todo |-> {}, rows |-> NoRows, had |-> FALSE]
CallJob == [k : {"none", "list", "repair", "check", "write"}, todo : SUBSET Threads,
        rows : [Threads -> (SUBSET Msgs) \cup {NoRow}], had : BOOLEAN]

\* Some conversations may have been created and opened before, and be empty.
ThreadInit ==
  /\ own = {ThreadOf[m] : m \in {n \in Msgs : n <= left["opened"]}} /\ tips = own
  /\ rec = [t \in Threads |-> IF t \in own THEN EmptyEntry ELSE NoRec]
  /\ stored = {} /\ due = {} /\ lock = [t \in Threads |-> <<>>]
  /\ jobs = [i \in CallIds |-> NoJob] /\ mixed = FALSE

MessagesOf(t) == {m \in stored : ThreadOf[m] = t}
Latest(set) == IF set = {} THEN 0 ELSE CHOOSE m \in set : \A n \in set : n <= m

\* A channel's own marker wins, the thread's is for the channels without one.
Marker(r, c) == IF r.ch[c] # 0 THEN r.ch[c] ELSE r.mark
Unread(set, r) == {m \in set : m > Marker(r, ChanOf[m])}

\* What a write makes of the record, from the messages it has read.
Written(op, r, set) ==
  CASE op.k = "upsert" -> [r EXCEPT !.act = Latest({@, op.m}),
                                    !.unread = Unread(set \cup {op.m}, r)]
    [] op.k = "read"   -> [r EXCEPT !.unread = {}, !.mark = Latest(set),
                                    !.ch = [c \in Channels |-> 0]]
    [] op.k = "chread" -> LET seen == Latest(InChannel(set, op.c))
                              v == IF seen = 0 THEN r ELSE [r EXCEPT !.ch[op.c] = seen]
                          IN [v EXCEPT !.unread = Unread(set, v)]
    [] op.k = "ensure" /\ set # {} -> [r EXCEPT !.act = Latest(set), !.unread = Unread(set, r)]
    [] OTHER -> r
Existing(t) == IF rec[t] = NoRec THEN EmptyEntry ELSE rec[t]
\* An entry that is new and has nothing to tell is not saved.
Saves(op, t) == op.k \notin {"remove", "ensure"} \/ (op.k = "ensure" /\ (op.snap # {} \/ rec[t] # NoRec))

ThreadRest == UNCHANGED <<attached, greeting, authed, retry>>
Enqueued(t, op) == [lock EXCEPT ![t] = Append(@, op)]

\* ---- messages that come in ----

Persist(m) ==
  /\ m \notin stored /\ Spend("inbound")
  /\ stored' = stored \cup {m} /\ due' = due \cup {m} /\ own' = own \cup {ThreadOf[m]}
  /\ UNCHANGED <<rec, tips, lock, jobs, mixed, wire, win>> /\ ThreadRest

IndexMessage(m) ==
  /\ m \in due /\ due' = due \ {m}
  /\ lock' = Enqueued(ThreadOf[m], Write("upsert", m, ChanOf[m], 0))
  /\ UNCHANGED <<own, stored, rec, tips, jobs, mixed, left, wire, win>> /\ ThreadRest

\* ---- a write of the index ----

\* Wrong variant: the writes of a thread do not wait for one another.
RunningAtOnce(t) == DOMAIN lock[t]

Running(t) == {i \in DOMAIN lock[t] : i = 1}

OpReads(t) == \E i \in Running(t) :
  /\ lock[t][i].at = "wait"
  /\ lock' = [lock EXCEPT ![t][i].at = "read", ![t][i].snap = MessagesOf(t)]
  /\ UNCHANGED <<own, stored, due, rec, tips, jobs, mixed, left, wire, win>> /\ ThreadRest

\* The record first, then the list is loaded.
OpSaves(t) == \E i \in Running(t) :
  LET op == lock[t][i] IN
  /\ op.at = "read"
  /\ rec' = [rec EXCEPT ![t] = IF op.k = "remove" THEN NoRec
                               ELSE IF Saves(op, t) THEN Written(op, Existing(t), op.snap) ELSE @]
  /\ lock' = [lock EXCEPT ![t][i].at = "saved", ![t][i].tips = tips]
  /\ UNCHANGED <<own, stored, due, tips, jobs, mixed, left, wire, win>> /\ ThreadRest

\* A list that is being built has read the row of t already.
RowIsTaken(t, id) ==
  \E j \in CallIds \ {id} : jobs[j].k \in {"list", "repair"} /\ t \notin jobs[j].todo

Replied(frames, id, f) == IF SocketOpen /\ id # 0 THEN frames \o <<f>> ELSE frames

\* What is said when the write is over: the index event, and the answer of the
\* call that asked for it.
Said(op, t) ==
  LET unread == Existing(t).unread IN
  CASE op.k = "remove" -> Replied(Heard(RemovedEvent(t)), op.id, Answer(op.id, t, {}))
    [] op.k = "ensure" /\ jobs[op.id].k = "repair" -> wire
    [] op.k = "ensure" -> Replied(Heard(IndexEvent(t, {})), op.id, Answer(op.id, t, unread))
    [] OTHER -> Replied(Heard(IndexEvent(t, unread)), op.id, Answer(op.id, t, {}))

\* The list is saved as it was loaded, with this thread's row in or out.
OpEnds(t) == \E i \in Running(t) :
  LET op == lock[t][i] IN
  /\ op.at = "saved"
  /\ tips' = IF op.k = "remove" THEN op.tips \ {t}
             ELSE IF rec[t] # NoRec THEN op.tips \cup {t} ELSE tips
  /\ lock' = [lock EXCEPT ![t] = RemoveAt(@, i)]
  /\ jobs' = IF op.id = 0 THEN jobs
             ELSE IF jobs[op.id].k = "repair"
             THEN [jobs EXCEPT ![op.id].rows[t] = Existing(t).unread, ![op.id].k = "list"]
             ELSE [jobs EXCEPT ![op.id] = NoJob]
  /\ wire' = Said(op, t)
  /\ mixed' = (mixed \/ RowIsTaken(t, op.id) \/ ~attached)
  /\ UNCHANGED <<own, stored, due, rec, left, win>> /\ ThreadRest

\* ---- the calls ----

Taken(id, m) ==
  /\ authed /\ attached /\ Pending(id) /\ win.open[id].m = m /\ Took
  /\ UNCHANGED left /\ ThreadRest

\* thread.read and thread.channel.read are one write each.
TakeRead(id) == \E m \in {"read", "chread"} :
  LET call == win.open[id] IN
  /\ Taken(id, m) /\ lock' = Enqueued(call.t, Write(m, 0, call.c, id))
  /\ jobs' = [jobs EXCEPT ![id].k = "write"]
  /\ UNCHANGED <<own, stored, due, rec, tips, mixed, wire>>

\* thread.state.set says thread.updated with the stored row, which carries no
\* counts; there is none of a thread that is not stored.
TakeState(id) ==
  LET t == win.open[id].t IN
  /\ Taken(id, "state")
  /\ wire' = IF t \in own THEN Replied(Heard(RowEvent(t, {})), id, Answer(id, t, {}))
             ELSE Replied(wire, id, Answer(id, NoThread, {}))
  /\ UNCHANGED threadVars

\* thread.create.direct: the stored row, the repair of its summary if there is
\* none, and an index event that says nothing is unread.
TakeCreate(id) ==
  LET t == win.open[id].t IN
  /\ Taken(id, "create") /\ own' = own \cup {t}
  /\ IF Existing(t).act = 0
       THEN /\ lock' = Enqueued(t, Write("ensure", 0, General, id))
            /\ jobs' = [jobs EXCEPT ![id].k = "write"] /\ UNCHANGED wire
       ELSE /\ wire' = Replied(Heard(IndexEvent(t, {})), id, Answer(id, t, rec[t].unread))
            /\ UNCHANGED <<lock, jobs>>
  /\ UNCHANGED <<stored, due, rec, tips, mixed>>

\* thread.delete: the stored thread with its messages, then the index row, if
\* there is one at that moment.
TakeDelete(id) ==
  LET t == win.open[id].t IN
  /\ Taken(id, "delete")
  /\ own' = own \ {t} /\ stored' = stored \ MessagesOf(t)
  /\ jobs' = [jobs EXCEPT ![id].k = "check", ![id].todo = {t}, ![id].had = t \in own]
  /\ UNCHANGED <<due, rec, tips, lock, mixed, wire>>

DeleteChecks(id) == \E t \in jobs[id].todo :
  /\ jobs[id].k = "check"
  /\ IF rec[t] # NoRec
       THEN /\ lock' = Enqueued(t, Write("remove", 0, General, id))
            /\ jobs' = [jobs EXCEPT ![id] = [NoJob EXCEPT !.k = "write"]] /\ UNCHANGED wire
       ELSE /\ wire' = Replied(IF jobs[id].had THEN Heard(RemovedEvent(t)) ELSE wire,
                             id, Answer(id, t, {}))
            /\ jobs' = [jobs EXCEPT ![id] = NoJob] /\ UNCHANGED lock
  /\ mixed' = (mixed \/ ~attached)
  /\ UNCHANGED <<own, stored, due, rec, tips, left, win>> /\ ThreadRest

\* threads.list: the shared list, then one record after the other, with the
\* repair of a stored thread's record that knows of no activity.
TakeList(id) ==
  /\ Taken(id, "list") /\ jobs' = [jobs EXCEPT ![id].k = "list", ![id].todo = tips]
  /\ UNCHANGED <<own, stored, due, rec, tips, lock, mixed, wire>>

ListReads(id) == \E t \in jobs[id].todo :
  /\ jobs[id].k = "list"
  /\ LET repair == rec[t] # NoRec /\ rec[t].act = 0 /\ t \in own
         job == [jobs[id] EXCEPT !.todo = @ \ {t},
                   !.rows[t] = IF rec[t] = NoRec THEN NoRow ELSE rec[t].unread,
                   !.k = IF repair THEN "repair" ELSE @]
     IN /\ jobs' = [jobs EXCEPT ![id] = job]
        /\ lock' = IF repair THEN Enqueued(t, Write("ensure", 0, General, id)) ELSE lock
  /\ UNCHANGED <<own, stored, due, rec, tips, mixed, left, wire, win>> /\ ThreadRest

ListAnswers(id) ==
  /\ jobs[id].k = "list" /\ jobs[id].todo = {}
  /\ wire' = Replied(wire, id, AnswerRows(id, jobs[id].rows))
  /\ jobs' = [jobs EXCEPT ![id] = NoJob]
  /\ UNCHANGED <<own, stored, due, rec, tips, lock, mixed, left, win>> /\ ThreadRest

\* ---- the user ----

Acts(w) == /\ win.bound /\ Spend("user") /\ win' = w
           /\ UNCHANGED <<threadVars, wire>> /\ ThreadRest
Listed == {t \in Threads : win.rows[t] # NoRow}

UserActs ==
  \/ \E t \in Listed : \/ \E c \in Channels : Acts(Select(win, t, c))
                       \/ Acts(MarkRead(win, t)) \/ Acts(Archive(win, t)) \/ Acts(Delete(win, t))
  \/ \E t \in Threads : Acts(CreateDirect(win, t))
  \/ win.sel # NoThread /\ Acts(Deselect(win))
  \/ win.focus /\ Acts(Blur(win))
  \/ ~win.focus /\ Acts(Focus(win))
  \/ Acts(Refresh(win))

ThreadStep ==
  \/ \E m \in Msgs : IndexMessage(m)
  \/ \E t \in Threads : OpReads(t) \/ OpSaves(t) \/ OpEnds(t)
  \/ \E id \in CallIds : \/ TakeRead(id) \/ TakeState(id) \/ TakeCreate(id) \/ TakeDelete(id)
                         \/ DeleteChecks(id) \/ TakeList(id) \/ ListReads(id) \/ ListAnswers(id)
  \/ UserActs

ThreadTypeOK ==
  /\ own \subseteq Threads /\ tips \subseteq Threads
  /\ stored \subseteq Msgs /\ due \subseteq Msgs
  /\ rec \in [Threads -> Record \cup {NoRec}]
  /\ lock \in [Threads -> Seq(Op)] /\ jobs \in [CallIds -> CallJob]
  /\ mixed \in BOOLEAN
=============================================================================
