-------------------------- MODULE ForkOrchestrator --------------------------
(***************************************************************************)
(* The life of the worker processes of a client (fork_orchestrator.c).     *)
(* Commands (start, stopForks, configApply, a key press during the         *)
(* countdown) apply a transition at once, under g_orch_mutex; the driver,   *)
(* fork_orchestrator_run, takes a snapshot of the state every tick and      *)
(* forks, stops or rebuilds afterwards, without the mutex.                  *)
(*                                                                         *)
(* Time is counted in units of five seconds, the step of the stop           *)
(* escalation; ages are saturated at two units (ten seconds).               *)
(***************************************************************************)
EXTENDS Integers

CONSTANTS
    N,            \* NB_THREADS
    AutoStart,    \* config_loaded_at_boot
    OrchRegulated,    \* the rate regulator of a fork may undo its stop (RequestFlag)
    MaxCommands   \* bound: commands, and forks dead at birth, of one behaviour

ASSUME OrchAssumption ==
    /\ N \in Nat \ {0} /\ MaxCommands \in Nat
    /\ AutoStart \in BOOLEAN /\ OrchRegulated \in BOOLEAN

Fork == 1..N
Age == 0..2       \* under 5 s, 5 s or more, 10 s or more
Never == -1       \* fork_last_activity[c] = 0

VARIABLES
    orch,      \* g_orch_state
    pending,   \* g_orch_pending_spawn
    restart,   \* g_restart_after_stop
    elapsed,   \* the countdown's deadline has passed
    dpc,       \* where fork_orchestrator_run is
    cur,       \* slot the spawn loop is at
    known,     \* known[c]: childrens_pid[c] > 0
    child,     \* child[c]: the process last forked for slot c
    idle,      \* idle[c]: age of fork_last_activity[c]
    since,     \* age of escalation_start
    acted,     \* last_action[c]
    parked,    \* forks_parked
    ever,      \* ever_running
    exitReq,   \* request = REQUEST_STOP in the parent
    stopped,   \* a stop sequence has run since the last fork (history)
    lost,      \* slots whose pid was overwritten while its process lived (history)
    staleStart,\* a restart was refused when a start was already accepted (history)
    commands   \* commands so far

orchVars == <<orch, pending, restart>>
procVars == <<known, child, idle, lost>>
stopVars == <<since, acted>>
loopVars == <<parked, ever, stopped>>
envVars == <<elapsed, exitReq, staleStart, commands>>
vars == <<orchVars, procVars, stopVars, loopVars, envVars, dpc, cur>>

OrchTypeOK ==
    /\ orch \in {"WAITING_CONFIG", "COUNTDOWN", "CONFIGURING", "RUNNING", "STOPPING",
                 "APPLYING"}
    /\ dpc \in {"wait", "spawn", "record", "countdown", "running", "stop", "kill",
                "apply", "check", "end"}
    /\ cur \in 1..(N + 1)
    /\ pending \in BOOLEAN /\ restart \in BOOLEAN /\ elapsed \in BOOLEAN
    /\ parked \in BOOLEAN /\ ever \in BOOLEAN
    /\ exitReq \in BOOLEAN /\ stopped \in BOOLEAN /\ staleStart \in BOOLEAN
    /\ known \in [Fork -> BOOLEAN]
    /\ child \in [Fork -> {"none", "working", "stopping", "silent", "dead"}]
    /\ idle \in [Fork -> Age \cup {Never}]
    /\ since \in Age /\ acted \in [Fork -> Age]
    /\ lost \subseteq Fork
    /\ commands \in Nat

Alive(c) == child[c] \in {"working", "stopping", "silent"}

\* fork_orchestrator_init_state, and the variables of fork_orchestrator_run.
Init ==
    /\ orch = IF AutoStart THEN "COUNTDOWN" ELSE "WAITING_CONFIG"
    /\ pending = FALSE /\ restart = FALSE /\ elapsed = FALSE
    /\ dpc = "wait" /\ cur = 1
    /\ known = [c \in Fork |-> FALSE]
    /\ child = [c \in Fork |-> "none"]
    /\ idle = [c \in Fork |-> Never]
    /\ since = 0 /\ acted = [c \in Fork |-> 0]
    /\ parked = FALSE /\ ever = FALSE
    /\ exitReq = FALSE /\ staleStart = FALSE /\ stopped = FALSE
    /\ lost = {} /\ commands = 0

-----------------------------------------------------------------------------
(* Events: orchestrator_step under g_orch_mutex.                           *)

Command == commands < MaxCommands /\ commands' = commands + 1

\* Mutant: a start is accepted while the forks run.
PostStartAgain ==
    IF orch = "STOPPING"
    THEN UNCHANGED orchVars
    ELSE orch' = "RUNNING" /\ pending' = TRUE /\ UNCHANGED restart

\* EV_START: refused in RUNNING and STOPPING.
PostStart ==
    IF orch \in {"RUNNING", "STOPPING"}
    THEN UNCHANGED orchVars
    ELSE orch' = "RUNNING" /\ pending' = TRUE /\ UNCHANGED restart

\* A key press or `config <key> <value>` (EV_CONFIG_BEGUN).
ConfigBegun ==
    /\ Command
    /\ orch \in {"WAITING_CONFIG", "COUNTDOWN"}
    /\ orch' = "CONFIGURING"
    /\ UNCHANGED <<pending, restart, procVars, stopVars, loopVars, elapsed, exitReq,
                   staleStart, dpc, cur>>

Start ==
    /\ Command
    /\ PostStart
    /\ UNCHANGED <<procVars, stopVars, loopVars, elapsed, exitReq, staleStart, dpc,
                   cur>>

\* stopForks (EV_STOP_FORKS), or configApply that needs a restart (EV_RESTART).
StopForks ==
    /\ Command
    /\ orch = "RUNNING"
    /\ orch' = "STOPPING"
    /\ restart' \in BOOLEAN
    /\ UNCHANGED <<pending, procVars, stopVars, loopVars, elapsed, exitReq, staleStart,
                   dpc, cur>>

\* SIGINT or SIGTERM reaches process c.
Signalled(c) == IF child[c] = "working" THEN "stopping" ELSE child[c]

\* signal_end_handler in the parent: every recorded fork is signalled.
ExitSignal ==
    /\ Command
    /\ ~exitReq /\ exitReq' = TRUE
    /\ child' = [c \in Fork |-> IF known[c] THEN Signalled(c) ELSE child[c]]
    /\ UNCHANGED <<orchVars, known, idle, lost, stopVars, loopVars, elapsed,
                   staleStart, dpc, cur>>

-----------------------------------------------------------------------------
(* The forks, and time.                                                    *)

\* A fork sends IPC_MSG_STATS every second while it works, and while its last
\* exchanges with the server go on.
Reports(c) == known[c] /\ child[c] \in {"working", "stopping"}

Report(c) ==
    /\ Reports(c)
    /\ idle' = [idle EXCEPT ![c] = 0]
    /\ UNCHANGED <<orchVars, known, child, lost, stopVars, loopVars, envVars, dpc, cur>>

\* fork_checker of a fork that stops ends: nothing more is sent.
FallsSilent(c) ==
    /\ child[c] = "stopping"
    /\ child' = [child EXCEPT ![c] = "silent"]
    /\ UNCHANGED <<orchVars, known, idle, lost, stopVars, loopVars, envVars,
                   dpc, cur>>

\* control_step of the fork writes over the stop.
StopUndone(c) ==
    /\ OrchRegulated /\ child[c] = "stopping"
    /\ child' = [child EXCEPT ![c] = "working"]
    /\ UNCHANGED <<orchVars, known, idle, lost, stopVars, loopVars, envVars,
                   dpc, cur>>

\* The process ends: its stop is complete, its search space is exhausted, a crash.
ForkEnds(c) ==
    /\ Alive(c)
    /\ child' = [child EXCEPT ![c] = "dead"]
    /\ UNCHANGED <<orchVars, known, idle, lost, stopVars, loopVars, envVars,
                   dpc, cur>>

Older(a) == IF a \in {Never, 2} THEN a ELSE a + 1

\* Five seconds pass.
Tick ==
    /\ elapsed' = TRUE
    /\ since' = Older(since)
    /\ idle' = [c \in Fork |-> IF Reports(c) THEN 0 ELSE Older(idle[c])]
    /\ UNCHANGED <<orchVars, known, child, lost, acted, loopVars, exitReq,
                   staleStart, commands, dpc, cur>>

-----------------------------------------------------------------------------
(* The driver, fork_orchestrator_run.                                      *)

\* What a turn of the driver does in each state.
SnapshotTurn ==
    CASE orch = "COUNTDOWN" -> "countdown"
      [] orch = "RUNNING"   -> "running"
      [] orch = "STOPPING"  -> "stop"
      [] OTHER              -> "check"

\* Mutant: the pending spawn is not consumed.
WakeKeepsPending ==
    /\ dpc = "wait"
    /\ dpc' = IF pending THEN "spawn" ELSE SnapshotTurn
    /\ cur' = 1
    /\ UNCHANGED <<orchVars, procVars, stopVars, loopVars, envVars>>

\* A tick, or a pending spawn: do_spawn and the snapshot are taken together.
Wake ==
    /\ dpc = "wait"
    /\ pending' = FALSE
    /\ dpc' = IF pending THEN "spawn" ELSE SnapshotTurn
    /\ cur' = 1
    /\ UNCHANGED <<orch, restart, procVars, stopVars, loopVars, envVars>>

\* orchestrator_spawn_forks, slot cur: the fork ...
SpawnFork ==
    /\ dpc = "spawn" /\ cur <= N /\ ~exitReq
    /\ dpc' = "record"
    /\ child' = [child EXCEPT ![cur] = "working"]
    /\ lost' = IF Alive(cur) THEN lost \cup {cur} ELSE lost
    /\ stopped' = FALSE
    /\ UNCHANGED <<orchVars, known, idle, stopVars, parked, ever, envVars, cur>>

\* ... and childrens_pid[cur] = child_pid, after the quiescence is released.
RecordFork ==
    /\ dpc = "record"
    /\ dpc' = "spawn" /\ cur' = cur + 1
    /\ known' = [known EXCEPT ![cur] = TRUE]
    /\ UNCHANGED <<orchVars, child, idle, lost, stopVars, loopVars, envVars>>

\* A child found dead at once, by an error, is forked again; such births are counted
\* with the commands, the code having no bound for them.
RecordDead ==
    /\ Command
    /\ dpc = "record" /\ child[cur] = "dead"
    /\ dpc' = "spawn"
    /\ known' = [known EXCEPT ![cur] = TRUE]
    /\ UNCHANGED <<orchVars, child, idle, lost, stopVars, loopVars, elapsed, exitReq,
                   staleStart, cur>>

\* No quiescence, or fork() fails; the tenth failure may end the batch.
SpawnFails ==
    /\ dpc = "spawn" /\ cur <= N /\ ~exitReq
    /\ cur' \in {cur + 1} \cup (IF cur >= 10 THEN {N + 1} ELSE {})
    /\ known' = [known EXCEPT ![cur] = FALSE]
    /\ lost' = IF Alive(cur) THEN lost \cup {cur} ELSE lost
    /\ UNCHANGED <<orchVars, child, idle, stopVars, loopVars, envVars, dpc>>

\* End of the batch; without any process the operator gets the hand back.
SpawnDone ==
    /\ dpc = "spawn" /\ (cur > N \/ exitReq)
    /\ dpc' = "check"
    /\ IF \E c \in Fork : known[c]
       THEN ever' = TRUE /\ parked' = FALSE /\ UNCHANGED orch
       ELSE orch' = "WAITING_CONFIG" /\ parked' = TRUE /\ UNCHANGED ever
    /\ UNCHANGED <<pending, restart, procVars, stopVars, stopped, envVars, cur>>

\* COUNTDOWN in the snapshot: EV_START once the deadline has passed.
CountdownTurn ==
    /\ dpc = "countdown"
    /\ dpc' = "check"
    /\ IF elapsed THEN PostStart ELSE UNCHANGED orchVars
    /\ UNCHANGED <<procVars, stopVars, loopVars, envVars, cur>>

\* RUNNING in the snapshot: reap_dead_child_slots.
RunningTurn ==
    /\ dpc = "running"
    /\ dpc' = "check"
    /\ known' = [c \in Fork |-> known[c] /\ Alive(c)]
    /\ UNCHANGED <<orchVars, child, idle, lost, stopVars, loopVars, envVars, cur>>

\* STOPPING in the snapshot: orchestrator_do_stop_forks sends SIGINT ...
StopBegins ==
    /\ dpc = "stop"
    /\ dpc' = "kill"
    /\ child' = [c \in Fork |-> IF known[c] THEN Signalled(c) ELSE child[c]]
    /\ since' = 0
    /\ acted' = [c \in Fork |-> 0]
    /\ stopped' = TRUE
    /\ UNCHANGED <<orchVars, known, idle, lost, parked, ever, envVars, cur>>

\* child_idle_ms: an age of 1 is SIGTERM to stop_escalation_next, 2 is SIGKILL.
ChildIdle(c) == IF idle[c] = Never THEN since ELSE idle[c]

\* ... escalates for each process of its own ...
Escalate(c) ==
    /\ dpc = "kill" /\ known[c] /\ Alive(c)
    /\ ChildIdle(c) # acted[c]
    /\ acted' = [acted EXCEPT ![c] = ChildIdle(c)]
    /\ child' = [child EXCEPT ![c] = CASE ChildIdle(c) = 2 -> "dead"
                                       [] ChildIdle(c) = 1 -> Signalled(c)
                                       [] OTHER -> @]
    /\ UNCHANGED <<orchVars, known, idle, lost, since, loopVars, envVars, dpc, cur>>

\* ... and empties the slots of those that are gone (waitpid_target_is_reaped).
ReapStopped(c) ==
    /\ dpc = "kill" /\ known[c] /\ ~Alive(c)
    /\ known' = [known EXCEPT ![c] = FALSE]
    /\ UNCHANGED <<orchVars, child, idle, lost, stopVars, loopVars, envVars,
                   dpc, cur>>

\* Mutant: forks_parked is not set.
StopDoneUnparked ==
    /\ dpc = "kill" /\ \A c \in Fork : ~known[c]
    /\ IF restart THEN orch' = "APPLYING" /\ dpc' = "apply"
                  ELSE orch' = "WAITING_CONFIG" /\ dpc' = "check"
    /\ UNCHANGED <<pending, restart, procVars, stopVars, parked, ever, stopped, envVars,
                   cur>>

\* Every slot is empty.
StopDone ==
    /\ dpc = "kill" /\ \A c \in Fork : ~known[c]
    /\ IF restart THEN orch' = "APPLYING" /\ dpc' = "apply"
                  ELSE orch' = "WAITING_CONFIG" /\ dpc' = "check"
    /\ parked' = TRUE
    /\ UNCHANGED <<pending, restart, procVars, stopVars, ever, stopped, envVars, cur>>

\* orchestrator_apply_restart_config succeeds; a change of nb_forks makes new
\* arrays (init_childs).
ApplyDone ==
    /\ dpc = "apply"
    /\ dpc' = "check"
    /\ PostStart
    /\ idle' = [c \in Fork |-> Never] \/ UNCHANGED idle
    /\ UNCHANGED <<known, child, lost, stopVars, loopVars, envVars, cur>>

\* It fails, no quiescence being reached: back to WAITING_CONFIG.
ApplyRefused ==
    /\ dpc = "apply"
    /\ dpc' = "check"
    /\ orch' = "WAITING_CONFIG"
    /\ staleStart' = (staleStart \/ orch # "APPLYING")
    /\ UNCHANGED <<pending, restart, procVars, stopVars, loopVars, elapsed, exitReq,
                   commands, cur>>

\* End of a turn: no fork is left, and it was not a stop by the operator.
CheckEnd ==
    /\ dpc = "check"
    /\ dpc' = IF (\A c \in Fork : ~known[c]) /\ (exitReq \/ (ever /\ ~parked))
              THEN "end" ELSE "wait"
    /\ UNCHANGED <<orchVars, procVars, stopVars, loopVars, envVars, cur>>

-----------------------------------------------------------------------------
Operator == ConfigBegun \/ Start \/ StopForks \/ ExitSignal

ForkStep(c) == Report(c) \/ FallsSilent(c) \/ StopUndone(c) \/ ForkEnds(c)

Driver ==
    \/ Wake
    \/ SpawnFork \/ RecordFork \/ RecordDead \/ SpawnFails \/ SpawnDone
    \/ CountdownTurn \/ RunningTurn
    \/ StopBegins \/ (\E c \in Fork : Escalate(c) \/ ReapStopped(c)) \/ StopDone
    \/ ApplyDone \/ ApplyRefused
    \/ CheckEnd

Next == Operator \/ (\E c \in Fork : ForkStep(c)) \/ Tick \/ Driver

Spec == Init /\ [][Next]_vars

\* The driver thread is scheduled, time passes, and the last exchanges of a fork
\* that stops are bounded by tcp_timeout, after which it is silent.
FairSpec ==
    /\ Spec /\ WF_vars(Driver) /\ WF_vars(Tick)
    /\ \A c \in Fork : WF_vars(FallsSilent(c)) /\ WF_vars(ReapStopped(c))

-----------------------------------------------------------------------------
(* Properties.                                                             *)

\* In WAITING_CONFIG, COUNTDOWN and CONFIGURING no fork exists (there stopForks is
\* refused and no slot is reaped), unless a restart is refused after a start was
\* accepted during its application.
NoForkWhileWaiting ==
    ~staleStart /\ orch \in {"WAITING_CONFIG", "COUNTDOWN", "CONFIGURING"} =>
        \A c \in Fork : ~Alive(c)

\* The pid of a living fork is never overwritten: each one stays within reach of
\* stopForks, of the exit signal and of the reaping.  Same exception.
NoForkLost == ~staleStart => lost = {}

\* The parent process survives a stop by the operator: it ends because it was
\* asked to, or because its forks have ended by themselves.
ParentOutlivesStop == dpc = "end" /\ stopped => exitReq

\* stopForks and configApply end the forks and leave STOPPING (or the parent ends
\* first, an exit being requested or its forks having ended by themselves), unless
\* the regulator of some fork undoes its stop for ever: a fork that reports is not
\* escalated.
LeftStopping == orch # "STOPPING" \/ dpc = "end"
StopIsUndone == orch = "STOPPING" /\ \E c \in Fork : child[c] = "working"
StopForksEnds == (orch = "STOPPING" ~> LeftStopping) \/ []<>StopIsUndone

\* Comment of the drain of child deaths (fork_orchestrator.c:1100): in WAITING_CONFIG,
\* COUNTDOWN and CONFIGURING no fork should exist.
NoForkOutsideRunning ==
    orch \in {"WAITING_CONFIG", "COUNTDOWN", "CONFIGURING"} => \A c \in Fork : ~Alive(c)
=============================================================================
