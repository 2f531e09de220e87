---------------------------- MODULE RequestFlag ----------------------------
(***************************************************************************)
(* The global `request` of a worker process, which tells its threads to    *)
(* go on, pause or stop.  It is a volatile int without a lock, written by   *)
(* three parties: the stop signal handler, the rate regulator               *)
(* (control_step) and the `pause`/`resume` commands relayed by the parent.  *)
(* The last two read it, decide, and write it back in separate steps.       *)
(***************************************************************************)
EXTENDS Naturals

CONSTANTS
    Regulated,    \* max_search_by_sec > 0: the regulator pauses the search
    Administered, \* pause and resume commands arrive
    MaxSignals    \* bound: stop signals one behaviour may contain

ASSUME FlagAssumption ==
    Regulated \in BOOLEAN /\ Administered \in BOOLEAN /\ MaxSignals \in Nat

VARIABLES
    request,      \* the flag
    regSaw,       \* what control_step compared and is about to act on, or "none"
    cmd,          \* the command being executed and what it read
    signals       \* stop signals received (history)

flagVars == <<request, regSaw, cmd, signals>>

Value == {"continue", "pause", "adminPause", "stop"}
NoCmd == [op |-> "none", saw |-> "continue"]

FlagTypeOK ==
    /\ request \in Value
    /\ regSaw \in {"none", "continue", "pause"}
    /\ cmd \in [op : {"none", "pause", "resume"}, saw : Value]
    /\ signals \in Nat

FlagInit ==
    /\ request = "continue"
    /\ regSaw = "none"
    /\ cmd = NoCmd
    /\ signals = 0

stopSent == signals > 0

\* signal_end_handler, in a worker process.
StopSignal ==
    /\ signals < MaxSignals
    /\ signals' = signals + 1
    /\ request' = "stop"
    /\ UNCHANGED <<regSaw, cmd>>

\* Mutant: the regulator acts on whatever it reads.
RegulatorReadsAny ==
    /\ Regulated /\ regSaw = "none"
    /\ regSaw' = request
    /\ UNCHANGED <<request, cmd, signals>>

\* control_step finds one of its comparisons true; control_thread has left its
\* loop once it has seen the stop.
RegulatorReads ==
    /\ Regulated /\ regSaw = "none"
    /\ request \in {"continue", "pause"}
    /\ regSaw' = request
    /\ UNCHANGED <<request, cmd, signals>>

\* ... and assigns: the search is too fast, or slow enough, or idle again.
RegulatorWrites ==
    /\ regSaw # "none"
    /\ request' = IF regSaw = "pause" THEN "continue" ELSE "pause"
    /\ regSaw' = "none"
    /\ UNCHANGED <<cmd, signals>>

\* admin_pause_transition
AdminTransition(op, current) ==
    CASE op = "pause"  /\ current \in {"continue", "pause"} -> "adminPause"
      [] op = "resume" /\ current = "adminPause"            -> "continue"
      [] OTHER                                              -> current

\* pause_interpreter, resume_interpreter: previous = request ...
CommandReads ==
    /\ Administered /\ cmd = NoCmd
    /\ \E op \in {"pause", "resume"} : cmd' = [op |-> op, saw |-> request]
    /\ UNCHANGED <<request, regSaw, signals>>

\* ... request = updated.
CommandWrites ==
    /\ cmd # NoCmd
    /\ request' = AdminTransition(cmd.op, cmd.saw)
    /\ cmd' = NoCmd
    /\ UNCHANGED <<regSaw, signals>>

FlagNext ==
    \/ StopSignal
    \/ RegulatorReads \/ RegulatorWrites
    \/ CommandReads \/ CommandWrites
=============================================================================
