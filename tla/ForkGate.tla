------------------------------ MODULE ForkGate ------------------------------
(***************************************************************************)
(* The cooperative quiescence of the parent process (fork_gate.c).  The    *)
(* orchestrator thread may fork, or rebuild shared arrays, only while every *)
(* other thread is parked at a checkpoint or declared blocked in a call     *)
(* that holds no lock: a child inherits every lock another thread holds,    *)
(* and nobody in the child will release it.                                 *)
(*                                                                         *)
(* Each operation of fork_gate.c that takes g_mutex is one step; the fast   *)
(* path of the checkpoint reads the flag without it.                        *)
(***************************************************************************)
EXTENDS Naturals

CONSTANTS
    Participant,  \* the threads: checker, server_tcp, control channel, console
    Blocker,      \* those that call fork_gate_mark_blocked (console, control)
    Typist,       \* those that work while marked blocked: the raw console,
                  \* which handles every key before its line is complete
    Lock,         \* the locks of the process: the logger's output_mutex, others
    LogLock,      \* output_mutex
    MaxQuiesce    \* bound: quiescence requests one behaviour may contain

ASSUME GateAssumption ==
    /\ Blocker \subseteq Participant
    /\ Typist \subseteq Blocker
    /\ LogLock \in Lock
    /\ MaxQuiesce \in Nat

VARIABLES
    requested,  \* g_quiesce_requested
    state,      \* state[t]: the slot of t in g_slots ("out": not in use)
    pc,         \* pc[t]: where thread t is
    holds,      \* holds[t]: the locks t holds
    opc,        \* where the orchestrator thread is
    ioLocked,   \* the orchestrator holds output_mutex
    inherited,  \* locks some child was born with and cannot release, and whose (history)
    requests    \* quiescence requests so far

allGateVars == <<requested, state, pc, holds, opc, ioLocked, inherited, requests>>

GateTypeOK ==
    /\ requested \in BOOLEAN
    /\ state \in [Participant -> {"out", "running", "parked", "blocked"}]
    /\ pc \in [Participant -> {"out", "top", "gate", "parked", "work", "mark", "blocked"}]
    /\ holds \in [Participant -> SUBSET Lock]
    /\ opc \in {"idle", "waiting", "quiesced", "forked"}
    /\ ioLocked \in BOOLEAN
    /\ inherited \subseteq [thread : Participant, lock : Lock]
    /\ requests \in Nat

GateInit ==
    /\ requested = FALSE
    /\ state = [t \in Participant |-> "out"]
    /\ pc = [t \in Participant |-> "out"]
    /\ holds = [t \in Participant |-> {}]
    /\ opc = "idle"
    /\ ioLocked = FALSE
    /\ inherited = {}
    /\ requests = 0

-----------------------------------------------------------------------------
(* A participant.  pc = "top": about to call fork_gate_checkpoint.         *)

gateVars == <<requested, opc, ioLocked, inherited, requests>>

\* fork_gate_register (before it, and after unregistering, a thread is taken to
\* hold no lock); the console goes straight to its blocking read.
Register(t) ==
    /\ pc[t] = "out"
    /\ state' = [state EXCEPT ![t] = "running"]
    /\ \E next \in {"top"} \cup (IF t \in Blocker THEN {"mark"} ELSE {}) :
          pc' = [pc EXCEPT ![t] = next]
    /\ UNCHANGED <<holds, gateVars>>

\* fork_gate_checkpoint, the fast path: nothing is requested.
CheckpointFast(t) ==
    /\ pc[t] = "top" /\ ~requested
    /\ pc' = [pc EXCEPT ![t] = "work"]
    /\ UNCHANGED <<state, holds, gateVars>>

\* The flag was seen; the thread is about to take g_mutex.
CheckpointSlow(t) ==
    /\ pc[t] = "top" /\ requested
    /\ pc' = [pc EXCEPT ![t] = "gate"]
    /\ UNCHANGED <<state, holds, gateVars>>

\* Mutant: the flag is not read again under g_mutex.
ParkOnce(t) ==
    /\ pc[t] = "gate"
    /\ pc' = [pc EXCEPT ![t] = "work"]
    /\ UNCHANGED <<state, holds, gateVars>>

\* Under g_mutex: the request may have been lifted in between.
Park(t) ==
    /\ pc[t] = "gate"
    /\ IF requested
       THEN /\ state' = [state EXCEPT ![t] = "parked"]
            /\ pc' = [pc EXCEPT ![t] = "parked"]
       ELSE /\ pc' = [pc EXCEPT ![t] = "work"]
            /\ UNCHANGED state
    /\ UNCHANGED <<holds, gateVars>>

\* pthread_cond_wait returns and the request is found lifted.
GateWake(t) ==
    /\ pc[t] = "parked" /\ ~requested
    /\ state' = [state EXCEPT ![t] = "running"]
    /\ pc' = [pc EXCEPT ![t] = "work"]
    /\ UNCHANGED <<holds, gateVars>>

\* A thread at work takes and releases locks; a typist does so in its call too.
Busy(t) == pc[t] = "work" \/ (pc[t] = "blocked" /\ t \in Typist)

TakeLock(t, l) ==
    /\ Busy(t)
    /\ \A u \in Participant : l \notin holds[u]
    /\ ~(l = LogLock /\ ioLocked)
    /\ holds' = [holds EXCEPT ![t] = @ \cup {l}]
    /\ UNCHANGED <<state, pc, gateVars>>

DropLock(t, l) ==
    /\ Busy(t) /\ l \in holds[t]
    /\ holds' = [holds EXCEPT ![t] = @ \ {l}]
    /\ UNCHANGED <<state, pc, gateVars>>

\* End of a turn of the thread's loop, holding nothing.
WorkDone(t) ==
    /\ pc[t] = "work" /\ holds[t] = {}
    /\ \E next \in {"top"} \cup (IF t \in Blocker THEN {"mark"} ELSE {}) :
          pc' = [pc EXCEPT ![t] = next]
    /\ UNCHANGED <<state, holds, gateVars>>

\* fork_gate_mark_blocked(slot, 1), then the blocking call.
MarkBlocked(t) ==
    /\ pc[t] = "mark"
    /\ state' = [state EXCEPT ![t] = "blocked"]
    /\ pc' = [pc EXCEPT ![t] = "blocked"]
    /\ UNCHANGED <<holds, gateVars>>

\* fork_gate_mark_blocked(slot, 0), then the checkpoint.
Unmark(t) ==
    /\ pc[t] = "blocked" /\ holds[t] = {}
    /\ state' = [state EXCEPT ![t] = "running"]
    /\ pc' = [pc EXCEPT ![t] = "top"]
    /\ UNCHANGED <<holds, gateVars>>

\* fork_gate_unregister, the thread ends.
Unregister(t) ==
    /\ pc[t] = "work" /\ holds[t] = {}
    /\ state' = [state EXCEPT ![t] = "out"]
    /\ pc' = [pc EXCEPT ![t] = "out"]
    /\ UNCHANGED <<holds, gateVars>>

-----------------------------------------------------------------------------
(* The orchestrator thread.                                                *)

\* all_participants_quiescent_locked
AllQuiescent == \A t \in Participant : state[t] # "running"

\* fork_gate_request_quiesce raises the flag and waits.
RequestQuiesce ==
    /\ opc = "idle" /\ requests < MaxQuiesce
    /\ requests' = requests + 1
    /\ requested' = TRUE /\ opc' = "waiting"
    /\ UNCHANGED <<state, pc, holds, ioLocked, inherited>>

Quiesced ==
    /\ opc = "waiting" /\ AllQuiescent
    /\ opc' = "quiesced"
    /\ UNCHANGED <<requested, state, pc, holds, ioLocked, inherited, requests>>

\* FORK_GATE_TIMEOUT: the request is lifted, no fork.
QuiesceTimeout ==
    /\ opc = "waiting" /\ ~AllQuiescent
    /\ requested' = FALSE /\ opc' = "idle"
    /\ UNCHANGED <<state, pc, holds, ioLocked, inherited, requests>>

\* fork_gate_acquire_io_locks
AcquireIo ==
    /\ opc = "quiesced" /\ ~ioLocked
    /\ \A t \in Participant : LogLock \notin holds[t]
    /\ ioLocked' = TRUE
    /\ UNCHANGED <<requested, state, pc, holds, opc, inherited, requests>>

Held == {i \in [thread : Participant, lock : Lock] : i.lock \in holds[i.thread]}
\* Mutant: the fork does not take the output lock first.
GateForkUnlocked ==
    /\ opc = "quiesced"
    /\ inherited' = inherited \cup Held
    /\ ioLocked' = FALSE
    /\ opc' = "forked"
    /\ UNCHANGED <<requested, state, pc, holds, requests>>
\* fork(), and fork_gate_release_io_locks in the parent and in the child.
GateFork ==
    /\ opc = "quiesced" /\ ioLocked
    /\ inherited' = inherited \cup Held
    /\ ioLocked' = FALSE
    /\ opc' = "forked"
    /\ UNCHANGED <<requested, state, pc, holds, requests>>

\* fork_gate_release_quiesce: after a fork, or after
\* orchestrator_apply_restart_config, which takes no I/O lock.
ReleaseQuiesce ==
    /\ opc = "forked" \/ (opc = "quiesced" /\ ~ioLocked)
    /\ requested' = FALSE /\ opc' = "idle"
    /\ UNCHANGED <<state, pc, holds, ioLocked, inherited, requests>>

-----------------------------------------------------------------------------
ParticipantStep(t) ==
    \/ Register(t) \/ CheckpointFast(t) \/ CheckpointSlow(t) \/ Park(t) \/ GateWake(t)
    \/ \E l \in Lock : TakeLock(t, l) \/ DropLock(t, l)
    \/ WorkDone(t) \/ MarkBlocked(t) \/ Unmark(t) \/ Unregister(t)

OrchestratorStep ==
    \/ RequestQuiesce \/ Quiesced \/ QuiesceTimeout
    \/ AcquireIo \/ GateFork \/ ReleaseQuiesce

GateNext == (\E t \in Participant : ParticipantStep(t)) \/ OrchestratorStep

GateSpec == GateInit /\ [][GateNext]_allGateVars

\* The orchestrator thread is scheduled (its wait is bounded by the timeout),
\* and so is a thread the condition variable has woken.
Fairness ==
    /\ WF_allGateVars(Quiesced) /\ WF_allGateVars(QuiesceTimeout) /\ SF_allGateVars(AcquireIo)
    /\ WF_allGateVars(GateFork) /\ WF_allGateVars(ReleaseQuiesce)
    /\ \A t \in Participant : WF_allGateVars(Park(t)) /\ WF_allGateVars(GateWake(t))
    /\ \A t \in Participant : \A l \in Lock : SF_allGateVars(DropLock(t, l))

GateFairSpec == GateSpec /\ Fairness

-----------------------------------------------------------------------------
(* Properties.                                                             *)

\* From the moment quiescence is reached until it is released no participant
\* is in its loop: what orchestrator_apply_restart_config frees and rebuilds has
\* no reader.  A thread may register, or return from its blocking call, in the
\* meantime.
QuietWindow ==
    opc \in {"quiesced", "forked"} => \A t \in Participant : pc[t] # "work"

\* A typist may be in the middle of a write when the others are parked: the
\* orchestrator takes output_mutex from it, or waits for it, before it forks, so
\* that a child can always write; and what a child is born with unable to release
\* is a lock of a typist, never of a thread that was parked.
InheritsOnlyFromTypist ==
    \A i \in inherited : i.thread \in Typist /\ i.lock # LogLock

\* fork_gate.h: a thread that is parked or blocked holds no lock, so a child
\* is never born with a lock nobody will release.
ChildInheritsNoLock == inherited = {}

\* The threads that park are released, all of them, whether the fork succeeds,
\* fails, or is given up at the timeout.
NoneParked == \A t \in Participant : pc[t] # "gate"
ParkedIsReleased == ~ NoneParked ~> NoneParked
=============================================================================
