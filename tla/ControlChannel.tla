--------------------------- MODULE ControlChannel ---------------------------
(***************************************************************************)
(* The control channel: a client process opens a connection beside its     *)
(* work connections and serves what the server asks on it.  On the server  *)
(* a thread per connection sends what the operator posted in the queue of  *)
(* its session (control_registry.c), and keeps the register of the known   *)
(* machines (known_clients_registry.c).  Connections are numbered in the   *)
(* order they are opened; the two ends of one close independently, and a   *)
(* client may have opened a new one while the server still serves the old. *)
(***************************************************************************)
EXTENDS Integers, SequencesExt, FiniteSetsExt

CONSTANTS
  CtlClient,        \* client processes: a restarted client is another one
  Machine,
  Mode,          \* Mode[c]: "search" or "prune"
  Label,         \* Label[c]: the declared label, not unique
  CtlSettings,      \* what a behaviour may do: [clients, machineOf, kinds, left]
  MaxSlot,       \* MAX_CONTROL_SESSIONS
  QueueCap,      \* CONTROL_SESSION_QUEUE_CAP
  MaxKnown,      \* MAX_KNOWN_CLIENTS
  MaxSessions,   \* KNOWN_CLIENT_MAX_SESSIONS
  MaxDosage,     \* ROLE_MIX_MAX_DOSAGE
  Forks,         \* forks of a client
  MaxLinks       \* bound: connections opened in a behaviour

ASSUME ControlAssumption ==
  /\ \A c \in CtlClient : Mode[c] \in {"search", "prune"}
  /\ {MaxSlot, QueueCap, MaxKnown, MaxSessions, MaxDosage, Forks, MaxLinks} \subseteq Nat \ {0}
  /\ \A s \in CtlSettings : s.machineOf \in [CtlClient -> Machine]

\* A queue has room for all that a session is told first (it has 16 places).
ASSUME RoomForFirst == QueueCap >= 3

NoClient == "none"
NoCmd == "none"
CtlSlot == 1 .. MaxSlot
Link == 1 .. MaxLinks

VARIABLES
  ctlSet,     \* the settings of the behaviour: who takes part, which orders are given
  reg,     \* [slot, next, pause, roles, dosage]: control_registry.c, auto_role_mix_state_t
  ctlLink,    \* link[k]: connection k and the server's thread for it
  cl,      \* cl[c]: the client process
  known,   \* [entry, now]: known_clients_registry.c, and the time
  saved,   \* the file of the known machines
  left,    \* [links, orders, work, polls, stops, saves, restarts, restores]: what may still happen
  ctlHist     \* what the properties remember

ctlVars == <<ctlSet, reg, ctlLink, cl, known, saved, left, ctlHist>>
MachineOf(c) == ctlSet.machineOf[c]

-----------------------------------------------------------------------------
(* The registry of sessions, under g_registry_mutex. *)
CtlEntry(cmd, n, to) == [cmd |-> cmd, n |-> n, to |-> to]
NoSession == [no |-> 0, client |-> NoClient, queue |-> <<>>]
NoRole == -1
registry_init == [slot |-> [i \in CtlSlot |-> NoSession], next |-> 1, pause |-> FALSE,
                  roles |-> [m \in Machine |-> NoRole], dosage |-> 0]
InUse(r) == {i \in CtlSlot : r.slot[i].no # 0}

FirstOnlyRole(r, c) ==   \* mutant: the pause is not replayed
  IF r.roles[MachineOf(c)] = NoRole THEN <<>>
  ELSE <<CtlEntry("config", r.roles[MachineOf(c)], NoClient), CtlEntry("configApply", 0, NoClient)>>
\* What a new session is told at once: the desired pause, the desired dosage.
FirstCommands(r, c) ==
  LET m == MachineOf(c)
      pause == IF r.pause THEN <<CtlEntry("pause", 0, NoClient)>> ELSE <<>>
  IN  IF r.roles[m] # NoRole /\ Len(pause) + 2 <= QueueCap
      THEN pause \o <<CtlEntry("config", r.roles[m], NoClient), CtlEntry("configApply", 0, NoClient)>>
      ELSE pause

SlotAsNumber(r, i) == i   \* mutant: the number of the slot, taken again by the next client
session_no(r, i) == r.next

\* The first free slot, if there is one.
FirstFree(r) == {i \in CtlSlot \ InUse(r) : \A j \in CtlSlot \ InUse(r) : i <= j}
control_registry_register(r, i, c) ==
  [r EXCEPT !.slot[i] = [no |-> session_no(r, i), client |-> c, queue |-> FirstCommands(r, c)],
            !.next = @ + 1]
control_registry_unregister(r, i) == [r EXCEPT !.slot[i] = NoSession]

Postable(r, i) == r.slot[i].no # 0 /\ Len(r.slot[i].queue) < QueueCap
control_registry_post_command(r, i, e) ==
  IF Postable(r, i) THEN [r EXCEPT !.slot[i].queue = Append(@, e)] ELSE r

control_registry_broadcast_command(r, cmd) ==
  [r EXCEPT !.pause = CASE cmd = "pause" -> TRUE [] cmd = "resume" -> FALSE [] OTHER -> @,
            !.slot = [i \in CtlSlot |-> IF Postable(r, i)
                                     THEN [r.slot[i] EXCEPT !.queue = Append(@, CtlEntry(cmd, 0, NoClient))]
                                     ELSE r.slot[i]]]

\* Targets: a session number, a client_uid, a label; what they match.
Targets == [kind : {"no"}, v : 1 .. MaxLinks] \cup [kind : {"uid"}, v : CtlClient]
           \cup [kind : {"label"}, v : {Label[c] : c \in CtlClient}]
Matches(r, t) ==
  {i \in InUse(r) : CASE t.kind = "no" -> r.slot[i].no = t.v
                      [] t.kind = "uid" -> r.slot[i].client = t.v
                      [] t.kind = "label" -> Label[r.slot[i].client] = t.v}
control_registry_send_command_to(r, t, e) ==
  IF Cardinality(Matches(r, t)) = 1
  THEN control_registry_post_command(r, Min(Matches(r, t)), e) ELSE r

\* The dosage n is remembered for the machines of the sessions T: for those that have
\* one already, and for new ones, in the order of the slots, until the table is full.
desired_role_set(r, T, n) ==
  LET of(m) == {i \in T : MachineOf(r.slot[i].client) = m}
      remembered == {m \in Machine : r.roles[m] # NoRole}
      before(m) == {x \in Machine \ remembered : of(x) # {} /\ Min(of(x)) < Min(of(m))}
  IN  [m \in Machine |->
         IF of(m) # {} /\ (m \in remembered \/ Cardinality(remembered) + Cardinality(before(m)) < MaxKnown)
         THEN n ELSE r.roles[m]]

\* Two commands for each session of S, as far as its queue has room; the dosage is
\* remembered for those that took both.
DosePosted(s, n) ==
  LET post(q, e) == IF Len(q) < QueueCap THEN Append(q, e) ELSE q
  IN  [s EXCEPT !.queue = post(post(@, CtlEntry("config", n, NoClient)), CtlEntry("configApply", 0, NoClient))]
Dosed(r, S) == {i \in S : Len(r.slot[i].queue) + 2 <= QueueCap}
control_registry_apply_role_dosage(r, S, n) ==
  [r EXCEPT !.slot = [i \in CtlSlot |-> IF i \in S THEN DosePosted(r.slot[i], n) ELSE r.slot[i]],
            !.roles = desired_role_set(r, Dosed(r, S), n)]

\* The automatic policy; need is what the stock shows it.
count_role_forks(r, mode) == Forks * Cardinality({i \in InUse(r) : Mode[r.slot[i].client] = mode})
compute_desired_role_mix(need, search, prune) ==
  CASE search <= 0 /\ prune > 0 -> -1
    [] search + prune <= 0 -> 0
    [] search > 0 /\ need = "starved" -> IF prune > 0 THEN -1 ELSE 0
    [] search > 1 /\ need \in {"ram", "unchecked"} -> 1
    [] search > 0 /\ need = "checked" /\ prune > 0 -> -1
    [] OTHER -> 0

-----------------------------------------------------------------------------
(* The register of the known machines, under g_known_clients_mutex. *)
NoEntry == [used |-> FALSE, mode |-> "search", sess |-> {}, active |-> 0,
            search |-> 0, prune |-> 0, total |-> 0, last_seen |-> 0]
known_clients_init(now) == [entry |-> [m \in Machine |-> NoEntry], now |-> now]
Used(kn) == {m \in Machine : kn.entry[m].used}
\* Machine m becomes e, seen just now.
Touch(kn, m, e) ==
  [entry |-> [kn.entry EXCEPT ![m] = [e EXCEPT !.last_seen = kn.now]], now |-> kn.now + 1]

\* The entry of a machine: its own, a free one, or that of the longest unseen
\* machine without a session; {} when there is none to take.
Evictable(kn) ==
  LET idle == {x \in Used(kn) : kn.entry[x].active = 0}
  IN  {v \in idle : \A x \in idle : kn.entry[v].last_seen <= kn.entry[x].last_seen}
allocate_machine_slot(kn, m) ==
  LET new(k) == [k EXCEPT !.entry[m] = [NoEntry EXCEPT !.used = TRUE]]
  IN  IF m \in Used(kn) THEN {kn}
      ELSE IF Cardinality(Used(kn)) < MaxKnown THEN {new(kn)}
      ELSE {new([kn EXCEPT !.entry[v] = NoEntry]) : v \in Evictable(kn)}

\* A session entry: the client and its counter at the last reading.
Session(kn, m, c) == {s \in kn.entry[m].sess : s.client = c}
Role(e, mode, d) == IF mode = "search" THEN [e EXCEPT !.search = @ + d] ELSE [e EXCEPT !.prune = @ + d]

known_clients_on_connect(kn, m, c) ==
  LET slots == allocate_machine_slot(kn, m)
      k == CHOOSE x \in slots : TRUE
      e == [k.entry[m] EXCEPT !.mode = Mode[c]]
      new == Role([e EXCEPT !.sess = @ \cup {[client |-> c, last |-> 0]}, !.active = @ + 1], Mode[c], 1)
  IN  IF slots = {} THEN kn
      ELSE Touch(k, m, IF Session(k, m, c) # {} \/ Cardinality(e.sess) >= MaxSessions THEN e ELSE new)

known_clients_on_stats(kn, m, c, v) ==
  LET e == kn.entry[m]
      s == CHOOSE x \in Session(kn, m, c) : TRUE
  IN  IF ~ e.used THEN kn
      ELSE Touch(kn, m, IF \A x \in Session(kn, m, c) : v < x.last THEN e
                        ELSE [e EXCEPT !.total = @ + (v - s.last),
                                       !.sess = (@ \ {s}) \cup {[client |-> c, last |-> v]}])

ForgetSession(kn, m, c, mode) ==
  LET e == kn.entry[m]
  IN  IF ~ e.used THEN kn
      ELSE Touch(kn, m, IF Session(kn, m, c) = {} THEN e
                        ELSE Role([e EXCEPT !.sess = @ \ Session(kn, m, c), !.active = @ - 1], mode, -1))
\* mutant: the role the machine declared last, another session's in a mixed dosage
DisconnectByLastMode(kn, m, c) == ForgetSession(kn, m, c, kn.entry[m].mode)
known_clients_on_disconnect(kn, m, c) == ForgetSession(kn, m, c, Mode[c])

\* One machine of the file: its totals are added to those of the machine, or make
\* a new one.
apply_persisted_record(kn, rec) ==
  LET slots == allocate_machine_slot(kn, rec.m)
      k == CHOOSE x \in slots : TRUE
  IN  IF slots = {} THEN kn
      ELSE [k EXCEPT !.entry[rec.m].total = @ + rec.total,
                     !.entry[rec.m].mode = IF rec.m \in Used(kn) THEN @ ELSE rec.mode,
                     !.entry[rec.m].last_seen = IF rec.last_seen > @ THEN rec.last_seen ELSE @]

-----------------------------------------------------------------------------
(* The client process: its channel thread, and what the commands change. *)
\* What travels on a connection: one frame at a time, a request then its answer.
NoFrame == [is |-> "none", e |-> CtlEntry(NoCmd, 0, NoClient), v |-> 0]
CtlRequest(e) == [NoFrame EXCEPT !.is = "request", !.e = e]
Answer(e, v) == [is |-> "answer", e |-> e, v |-> v]
NoLink == [client |-> NoClient, cOpen |-> FALSE, pc |-> "none", slot |-> 0, wire |-> NoFrame]
\* A connection closed at both ends is forgotten.
Over == [NoLink EXCEPT !.pc = "gone"]
ServerEnds(l) == IF l.cOpen THEN [l EXCEPT !.pc = "gone", !.slot = 0] ELSE Over
ClientEnds(l) == IF l.pc = "gone" THEN Over ELSE [l EXCEPT !.cOpen = FALSE, !.wire = NoFrame]
Down == [req |-> "run", staged |-> 0, dosage |-> 0, applying |-> FALSE, checked |-> 0, link |-> 0]

admin_pause_transition(req, want) ==
  CASE want /\ req = "run" -> "admin" [] ~ want /\ req = "admin" -> "run" [] OTHER -> req

\* do_command_line of a remote command, refused by a client that stops.
Obey(x, e) ==
  IF x.req = "stop" THEN x ELSE
  CASE e.cmd = "pause" -> [x EXCEPT !.req = admin_pause_transition(@, TRUE)]
    [] e.cmd = "resume" -> [x EXCEPT !.req = admin_pause_transition(@, FALSE)]
    [] e.cmd = "config" -> [x EXCEPT !.staged = e.n]
    [] e.cmd = "configApply" -> [x EXCEPT !.applying = TRUE]
    [] OTHER -> x

\* run_control_channel opens the next connection and sends its hello.
CtlConnect(c) ==
  /\ c \in ctlSet.clients /\ cl[c].link = 0 /\ cl[c].req # "stop" /\ left.links > 0
  /\ left' = [left EXCEPT !.links = @ - 1]
  /\ \E k \in Link :
       /\ ctlLink[k].pc = "none" /\ \A j \in 1 .. (k - 1) : ctlLink[j].pc # "none"
       /\ ctlLink' = [ctlLink EXCEPT ![k] = [NoLink EXCEPT !.client = c, !.cOpen = TRUE, !.pc = "hello"]]
       /\ cl' = [cl EXCEPT ![c].link = k]
  /\ UNCHANGED <<ctlSet, reg, known, saved, ctlHist>>

\* control_channel_handle_frame on the current connection: the order is obeyed
\* and answered even when the server no longer waits for the answer.
ServeFrame(c) ==
  LET k == cl[c].link
      e == ctlLink[k].wire.e
  IN  /\ k # 0 /\ ctlLink[k].wire.is = "request"
      /\ cl' = [cl EXCEPT ![c] = Obey(@, e)]
      /\ ctlLink' = [ctlLink EXCEPT ![k].wire = Answer(e, IF e.cmd = "stats" THEN cl[c].checked ELSE 0)]
      /\ UNCHANGED <<ctlSet, reg, known, saved, left, ctlHist>>

\* The loop over the frames ends: a receive timeout, a lost connection, a request
\* to reconnect (control_channel_request_reconnect) or a stop.
GiveUp(c) ==
  /\ cl[c].link # 0
  /\ ctlLink' = [ctlLink EXCEPT ![cl[c].link] = ClientEnds(@)]
  /\ cl' = [cl EXCEPT ![c].link = 0]
  /\ UNCHANGED <<ctlSet, reg, known, saved, left, ctlHist>>

\* The forks stop and start again with the staged dosage; their statistics are
\* cleared (app_runtime.c, fork_statistics).
ForksRestarted(c) ==
  /\ cl[c].applying
  /\ cl' = [cl EXCEPT ![c].applying = FALSE, ![c].dosage = cl[c].staged, ![c].checked = 0]
  /\ UNCHANGED <<ctlSet, reg, ctlLink, known, saved, left, ctlHist>>

\* A pruner fork reports one more possibility checked.
Work(c) ==
  /\ left.work > 0 /\ cl[c].req = "run" /\ Mode[c] = "prune"
  /\ left' = [left EXCEPT !.work = @ - 1]
  /\ cl' = [cl EXCEPT ![c].checked = @ + 1]
  /\ UNCHANGED <<ctlSet, reg, ctlLink, known, saved, ctlHist>>

\* The client is told to stop: it refuses the orders and connects no more.
StopClient(c) ==
  /\ left.stops > 0 /\ cl[c].req # "stop"
  /\ left' = [left EXCEPT !.stops = @ - 1]
  /\ cl' = [cl EXCEPT ![c].req = "stop"]
  /\ UNCHANGED <<ctlSet, reg, ctlLink, known, saved, ctlHist>>

-----------------------------------------------------------------------------
(* The server's thread of connection k: manage_instruction for the hello,   *)
(* then run_control_session.                                               *)
SetPc(k, pc) == ctlLink' = [ctlLink EXCEPT ![k].pc = pc]
Queue(k) == reg.slot[ctlLink[k].slot].queue

\* The clients whose last order the desired state does not cover; see the
\* properties DesiredPauseReached and RoleReached.
AmissAtHello(amiss, c, k, missed) ==
  IF cl[c].link # k THEN amiss ELSE IF missed THEN amiss \cup {c} ELSE amiss \ {c}
Hello(k) ==
  LET c == ctlLink[k].client
  IN  /\ ctlLink[k].pc = "hello"
      /\ \/ /\ InUse(reg) = CtlSlot
            /\ ctlLink' = [ctlLink EXCEPT ![k] = ServerEnds(@)]
            /\ UNCHANGED <<reg, ctlHist>>
         \/ \E i \in FirstFree(reg) :
              /\ reg' = control_registry_register(reg, i, c)
              /\ ctlLink' = [ctlLink EXCEPT ![k].pc = "known", ![k].slot = i]
              /\ ctlHist' = [ctlHist EXCEPT
                   !.named[session_no(reg, i)] = IF @ = NoClient THEN c ELSE @,
                   !.pauseAmiss = AmissAtHello(@, c, k, ~ reg.pause /\ cl[c].req = "admin"),
                   !.roleAmiss = AmissAtHello(@, c, k, FALSE)]
      /\ UNCHANGED <<ctlSet, cl, known, saved, left>>

\* Sessions of this client besides k: the register of machines knows only one.
Others(k) == {j \in Link \ {k} : ctlLink[j].client = ctlLink[k].client
                               /\ ctlLink[j].pc \in {"known", "idle", "wait", "closing"}}
KnowConnect(k) ==
  LET c == ctlLink[k].client
      m == MachineOf(c)
  IN  /\ ctlLink[k].pc = "known"
      /\ known' = known_clients_on_connect(known, m, c)
      /\ ctlHist' = [ctlHist EXCEPT !.unshown =
                    IF Others(k) # {} \/ Session(known', m, c) = {} THEN @ \cup {c} ELSE @ \ {c}]
      /\ SetPc(k, "idle")
      /\ UNCHANGED <<ctlSet, reg, cl, saved, left>>

\* control_session_step with something to send: the command leaves the queue
\* before it is sent, and is lost with a connection that is closed.
Dequeue(k) ==
  /\ ctlLink[k].pc = "idle" /\ Queue(k) # <<>>
  /\ reg' = [reg EXCEPT !.slot[ctlLink[k].slot].queue = Tail(@)]
  /\ ctlLink' = [ctlLink EXCEPT ![k].pc = IF ctlLink[k].cOpen THEN "wait" ELSE "closing",
                          ![k].wire = IF ctlLink[k].cOpen THEN CtlRequest(Head(Queue(k))) ELSE NoFrame]
  /\ UNCHANGED <<ctlSet, cl, known, saved, left, ctlHist>>

\* Nothing to send: control_registry_auto_stats_due, or a ping.
AutoStats(k) ==
  /\ ctlLink[k].pc = "idle" /\ Queue(k) = <<>> /\ left.polls > 0 /\ ctlLink[k].cOpen
  /\ left' = [left EXCEPT !.polls = @ - 1]
  /\ ctlLink' = [ctlLink EXCEPT ![k].pc = "wait", ![k].wire = CtlRequest(CtlEntry("stats", 0, NoClient))]
  /\ UNCHANGED <<ctlSet, reg, cl, known, saved, ctlHist>>

PingFails(k) ==
  /\ ctlLink[k].pc = "idle" /\ Queue(k) = <<>> /\ ~ ctlLink[k].cOpen
  /\ SetPc(k, "closing")
  /\ UNCHANGED <<ctlSet, reg, cl, known, saved, left, ctlHist>>

\* The answer; the figures of a CTRL_STATS go to the register of machines.
Reply(k) ==
  LET c == ctlLink[k].client
  IN  /\ ctlLink[k].pc = "wait" /\ ctlLink[k].wire.is = "answer"
      /\ known' = IF ctlLink[k].wire.e.cmd = "stats"
                  THEN known_clients_on_stats(known, MachineOf(c), c, ctlLink[k].wire.v) ELSE known
      /\ ctlLink' = [ctlLink EXCEPT ![k].pc = "idle", ![k].wire = NoFrame]
      /\ UNCHANGED <<ctlSet, reg, cl, saved, left, ctlHist>>

\* No answer in time, or the connection is lost: the session ends.
NoReply(k) ==
  /\ ctlLink[k].pc = "wait"
  /\ SetPc(k, "closing")
  /\ UNCHANGED <<ctlSet, reg, cl, known, saved, left, ctlHist>>

\* run_control_session after its loop.
KnowDisconnect(k) ==
  LET c == ctlLink[k].client
  IN  /\ ctlLink[k].pc = "closing"
      /\ known' = known_clients_on_disconnect(known, MachineOf(c), c)
      /\ SetPc(k, "leaving")
      /\ UNCHANGED <<ctlSet, reg, cl, saved, left, ctlHist>>
Leave(k) ==
  /\ ctlLink[k].pc = "leaving"
  /\ reg' = control_registry_unregister(reg, ctlLink[k].slot)
  /\ ctlLink' = [ctlLink EXCEPT ![k] = ServerEnds(@)]
  /\ UNCHANGED <<ctlSet, cl, known, saved, left, ctlHist>>

-----------------------------------------------------------------------------
(* The operator (console, HTTP), the automatic policy, the file of machines. *)
CurrentSlot(c) == IF cl[c].link = 0 THEN 0 ELSE ctlLink[cl[c].link].slot
Served(r) == {c \in CtlClient : CurrentSlot(c) \in InUse(r)}
Refused(r, n) == {c \in Served(r) : Len(r.slot[CurrentSlot(c)].queue) + n > QueueCap}
Order(kind) == kind \in ctlSet.kinds /\ left.orders > 0 /\ left' = [left EXCEPT !.orders = @ - 1]
ByOperator == UNCHANGED <<ctlSet, ctlLink, cl, known, saved>>

\* pause, resume, clientsStats, clientsCmd without --to.
ToAll(cmd) ==
  /\ Order("all")
  /\ reg' = control_registry_broadcast_command(reg, cmd)
  /\ ctlHist' = IF cmd = "stats" THEN ctlHist
             ELSE [ctlHist EXCEPT !.pauseAmiss = (@ \ Served(reg)) \cup Refused(reg, 1)]
  /\ ByOperator

\* clientsCmd --to: who the operator means is who had the number when it was
\* given, whatever the session that has it now.
Meant(t, r) == CASE t.kind = "no" -> ctlHist.named[t.v] [] t.kind = "uid" -> t.v
                 [] t.kind = "label" -> r.slot[Min(Matches(r, t))].client
SendTo(t, cmd) ==
  /\ Order("to") /\ Matches(reg, t) # {}
  /\ reg' = control_registry_send_command_to(reg, t, CtlEntry(cmd, 0, Meant(t, reg)))
  /\ ctlHist' = [ctlHist EXCEPT !.pauseAmiss = @ \cup {reg.slot[i].client : i \in Matches(reg, t)}]
  /\ ByOperator

\* Who was told the new dosage, and who shares a machine with one who was.
AmissAfter(S) ==
  LET told == {c \in Served(reg) : CurrentSlot(c) \in S} \ Refused(reg, 2)
      machines == {MachineOf(reg.slot[i].client) : i \in S}
  IN  [ctlHist EXCEPT !.roleAmiss = (@ \ told) \cup {c \in Served(reg) \ told : MachineOf(c) \in machines}]

\* clientsRoles: every session, or the one the target matches.
Roles(t, n) ==
  LET S == IF t.kind = "all" THEN InUse(reg) ELSE Matches(reg, t)
  IN  /\ Order("roles")
      /\ t.kind = "all" \/ Cardinality(S) = 1
      /\ reg' = control_registry_apply_role_dosage(reg, S, n)
      /\ ctlHist' = AmissAfter(S)
      /\ ByOperator

\* check_server_step with --auto-roles: one notch up or down, for every session.
AutoRoles(need) ==
  LET d == compute_desired_role_mix(need, count_role_forks(reg, "search"), count_role_forks(reg, "prune"))
      n == Max({0, Min({MaxDosage, reg.dosage + d})})
  IN  /\ Order("auto") /\ n # reg.dosage
      /\ reg' = [control_registry_apply_role_dosage(reg, InUse(reg), n) EXCEPT !.dosage = n]
      /\ ctlHist' = AmissAfter(InUse(reg))
      /\ ByOperator

\* known_clients_registry_save: the machines in the order of the table, whatever it is.
RecordOf(m) ==
  LET e == known.entry[m] IN [m |-> m, mode |-> e.mode, total |-> e.total, last_seen |-> e.last_seen]
SaveKnown ==
  /\ left.saves > 0
  /\ left' = [left EXCEPT !.saves = @ - 1]
  /\ \E order \in SetToSeqs(Used(known)) : saved' = [j \in DOMAIN order |-> RecordOf(order[j])]
  /\ UNCHANGED <<ctlSet, reg, ctlLink, cl, known, ctlHist>>

\* The server process dies and starts again with empty tables; a connection
\* whose server end is gone looks like one whose answer never comes.
ServerRestart ==
  /\ left.restarts > 0
  /\ left' = [left EXCEPT !.restarts = @ - 1, !.restores = 1]
  /\ reg' = registry_init /\ known' = known_clients_init(known.now)
  /\ ctlLink' = [k \in Link |-> IF ctlLink[k].pc = "none" THEN NoLink ELSE ServerEnds(ctlLink[k])]
  /\ ctlHist' = [ctlHist EXCEPT !.named = [n \in Link |-> NoClient]]
  /\ UNCHANGED <<ctlSet, cl, saved>>

\* The restore command of the new process: known_clients_registry_load, while
\* clients may already be connected.
RestoreKnown ==
  /\ left.restores > 0
  /\ left' = [left EXCEPT !.restores = 0]
  /\ known' = FoldLeft(apply_persisted_record, known, saved)
  /\ UNCHANGED <<ctlSet, reg, ctlLink, cl, saved, ctlHist>>

CtlClientStep(c) == CtlConnect(c) \/ ServeFrame(c) \/ GiveUp(c) \/ ForksRestarted(c) \/ Work(c) \/ StopClient(c)
ServerStep(k) == \/ Hello(k) \/ KnowConnect(k) \/ Dequeue(k) \/ AutoStats(k) \/ PingFails(k)
                 \/ Reply(k) \/ NoReply(k) \/ KnowDisconnect(k) \/ Leave(k)
OperatorStep ==
  \/ \E cmd \in {"pause", "resume", "stats"} : ToAll(cmd)
  \/ \E t \in Targets, cmd \in {"pause", "resume"} : SendTo(t, cmd)
  \/ \E t \in Targets \cup {[kind |-> "all"]}, n \in 0 .. MaxDosage : Roles(t, n)
  \/ \E need \in {"starved", "ram", "unchecked", "checked", "none"} : AutoRoles(need)
  \/ SaveKnown \/ ServerRestart \/ RestoreKnown

CtlInit ==
  /\ ctlSet \in CtlSettings
  /\ reg = registry_init /\ known = known_clients_init(1) /\ saved = <<>>
  /\ ctlLink = [k \in Link |-> NoLink]
  /\ cl = [c \in CtlClient |-> Down]
  /\ left = ctlSet.left
  /\ ctlHist = [named |-> [n \in Link |-> NoClient], pauseAmiss |-> {}, roleAmiss |-> {}, unshown |-> {}]
CtlNext == (\E c \in CtlClient : CtlClientStep(c)) \/ (\E k \in Link : ServerStep(k)) \/ OperatorStep
CtlSpec == CtlInit /\ [][CtlNext]_ctlVars
\* The server's threads run; their receives and sends end by their timeouts.
CtlFairSpec == CtlSpec /\ \A k \in Link : WF_ctlVars(ServerStep(k))

-----------------------------------------------------------------------------
(* Properties *)

\* Types.  Every slot in use belongs to one thread, that knows it: a slot is
\* given to one session and comes back once.
CtlTypeOK ==
  /\ \A i \in CtlSlot : Len(reg.slot[i].queue) <= QueueCap /\ reg.slot[i].client \in CtlClient \cup {NoClient}
  /\ \A k \in Link : ctlLink[k].pc \in {"none", "hello", "known", "idle", "wait", "closing", "leaving", "gone"}
  /\ \A c \in CtlClient : cl[c].link \in 0 .. MaxLinks /\ cl[c].req \in {"run", "admin", "stop"}
  /\ \A i \in InUse(reg) : Cardinality({k \in Link : ctlLink[k].slot = i}) = 1
  /\ \A k \in Link : ctlLink[k].slot # 0 => reg.slot[ctlLink[k].slot].client = ctlLink[k].client

\* A command for one client is never in the queue or on the connection of
\* another: session numbers are not given twice and a slot taken again starts
\* with an empty queue (control_registry_register, control_registry_send_command_to).
CommandsReachAddressee ==
  /\ \A i \in CtlSlot : \A e \in Range(reg.slot[i].queue) : e.to \in {NoClient, reg.slot[i].client}
  /\ \A k \in Link : ctlLink[k].wire.e.to \in {NoClient, ctlLink[k].client}

\* The counts shown for a machine are those of its sessions, whatever the order
\* of connections and disconnections of its clients (known_clients_registry.h:
\* nb_active_search + nb_active_prune == nb_active_sessions).
KnownCountsExact ==
  \A m \in Machine :
    LET e == known.entry[m]
        of(mode) == Cardinality({s \in e.sess : Mode[s.client] = mode})
    IN  e.active = Cardinality(e.sess) /\ e.search = of("search") /\ e.prune = of("prune")

\* A machine a client of which is served is shown, and as connected, for as long
\* as the session lasts: no later connection takes its entry.  Not promised to a
\* client with two sessions at once, nor when the tables were full at its
\* connection (known_clients_registry_on_connect, allocate_machine_slot).
ConnectedShown ==
  \A k \in Link :
    ctlLink[k].pc \in {"idle", "wait"} /\ ctlLink[k].client \notin ctlHist.unshown
      => Session(known, MachineOf(ctlLink[k].client), ctlLink[k].client) # {}

\* The register of the machines shows what is connected: the counts of a machine
\* are those of its sessions (KnownCountsExact), and a machine with a session is
\* shown (ConnectedShown), in a state of its type (CtlTypeOK).
RegisterExact == CtlTypeOK /\ KnownCountsExact /\ ConnectedShown

\* Nothing is on its way to the client of the session.
Settled(c) ==
  /\ CurrentSlot(c) # 0 /\ cl[c].req # "stop" /\ ~ cl[c].applying
  /\ ctlLink[cl[c].link].pc \in {"known", "idle"} /\ reg.slot[CurrentSlot(c)].queue = <<>>

\* A client that has served all that was posted to it is in the state of pause
\* the operator asked of the fleet, whenever it connected and whatever
\* connection was lost with the order on it.  Not promised: after an order for
\* this client alone, after one its full queue refused, and to a client that
\* connects while paused when the fleet is not.
DesiredPauseReached ==
  \A c \in CtlClient \ ctlHist.pauseAmiss : Settled(c) => (cl[c].req = "admin" <=> reg.pause)

\* The same of the dosage remembered for its machine.  Not promised to a client
\* whose queue refused it, nor to one that was not told because the order was
\* for another session of the machine, an old one of its own included.
RoleReached ==
  \A c \in CtlClient \ ctlHist.roleAmiss :
    Settled(c) /\ reg.roles[MachineOf(c)] # NoRole => cl[c].dosage = reg.roles[MachineOf(c)]

\* A client that has served what was posted to it is as the operator wants it, in
\* its state of pause (DesiredPauseReached) and in its dosage (RoleReached).
DesiredStateReached == DesiredPauseReached /\ RoleReached

\* The slot of a client that closed its end is freed: a thread of the server
\* does not stay with it (run_control_session).
ClosedIsServed == \E k \in Link : ctlLink[k].pc \notin {"none", "gone"} /\ ~ ctlLink[k].cOpen
SlotsFreed == ClosedIsServed ~> ~ ClosedIsServed
=============================================================================
