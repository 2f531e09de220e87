---------------------------- MODULE ClientProofs ----------------------------
(***************************************************************************)
(* The processes of a client: the two threads of a worker, the gate its    *)
(* threads go through when the process forks, and the orchestrator of the  *)
(* forks.  One section for each, none uses another.                        *)
(***************************************************************************)
EXTENDS WorkerFeed, ForkGate, ForkOrchestrator, TLAPS

-----------------------------------------------------------------------------
(***************************************************************************)
(* For any set of boards, any batch size, and whatever the network, the     *)
(* regulator and the operator do: as long as no stop has been requested, a  *)
(* worker never acknowledges a board before its result is stored.           *)
(*                                                                         *)
(* The argument is the hand-over of `works`: the feed thread is between its *)
(* test of works and the publication of a batch only while works is false,  *)
(* and then the search thread waits with nothing in its hands.  So when the *)
(* feed thread acknowledges, everything in the file is stored.              *)
(***************************************************************************)

\* The boards that need not be tracked by the server.
Kept == stock \cup stored \cup local \cup dropped
            \cup (IF recycled THEN got \cup aposs \cup result ELSE {})

\* No stop: neither thread is on its way out.
Running ==
    /\ request # "stop" /\ cmd.saw # "stop"
    /\ fpc \notin {"final", "done"}
    /\ spc \notin {"requeue", "ack", "done"}

\* The hand-over of a batch through works and aposs.
HandOver ==
    /\ fpc \in {"ack", "get", "record", "publish"} => ~works
    /\ ~works => spc = "wait" /\ aposs = {}
    /\ fpc \in {"top", "ack", "get"} => got = {}
    /\ spc # "work" => result = {}
    /\ spc \in {"wait", "reset"} => seen = {}
    /\ spc \in {"check", "free"} => aposs \subseteq seen
    /\ spc = "reset" => aposs = {}

\* A board taken up is in the thread's hands or its result is stored; a board
\* to be acknowledged is in somebody's hands or its result is stored.
Results ==
    /\ Board \subseteq Kept \cup tracked
    /\ aposs \cap seen \subseteq result \cup stored \cup local \cup dropped
    /\ file \subseteq Kept \cup got \cup aposs \cup result

WInv == WorkerTypeOK /\ (~stopSent => Running /\ HandOver /\ Results)

LEMMA InitWInv == FeedInit => WInv
<1> SUFFICES ASSUME FeedInit PROVE WInv
  OBVIOUS
<1>1. WorkerTypeOK
  BY Zenon DEF FeedInit, FlagInit, WorkerTypeOK, FlagTypeOK, Value, NoCmd
<1>2. Running
  BY DEF FeedInit, FlagInit, Running, NoCmd
<1>3. HandOver /\ Results
  BY DEF FeedInit, HandOver, Results, Kept
<1> QED BY <1>1, <1>2, <1>3 DEF WInv

LEMMA TypeStep == WorkerTypeOK /\ [FeedNext]_processVars => WorkerTypeOK'
<1> SUFFICES ASSUME WorkerTypeOK, [FeedNext]_processVars
             PROVE  WorkerTypeOK'
  OBVIOUS
<1> USE DEF WorkerTypeOK, FlagTypeOK, Value, NoCmd, flagVars, workVars, feedVars,
            searchVars, serverVars
<1>1. CASE FeedNeeded
  BY <1>1 DEF FeedNeeded
<1>2. CASE FeedAck
  BY <1>2 DEF FeedAck, SendAnalysed
<1>3. CASE FeedGet
  <2>1. /\ FlagTypeOK' /\ fpc' \in {"publish", "record", "top"}
        /\ UNCHANGED <<spc, works, seen, result, stored, aposs, file, dropped>>
    BY <1>3 DEF FeedGet
  <2>2. /\ got' \subseteq Board /\ local' \subseteq Board
        /\ stock' \subseteq Board /\ tracked' \subseteq Board
        /\ recycled' \in BOOLEAN
    BY <1>3 DEF FeedGet
  <2> QED BY <2>1, <2>2
<1>4. CASE FeedRecord
  BY <1>4 DEF FeedRecord
<1>5. CASE FeedPublish
  BY <1>5 DEF FeedPublish
<1>6. CASE FeedStops
  BY <1>6 DEF FeedStops
<1>7. CASE FeedFinalAck
  BY <1>7 DEF FeedFinalAck, SendAnalysed
<1>8. CASE SearchWakes
  BY <1>8 DEF SearchWakes
<1>9. CASE SearchTakes
  BY <1>9 DEF SearchTakes
<1>10. CASE SearchCloses
  BY <1>10 DEF SearchCloses
<1>11. CASE SearchFlushes
  BY <1>11 DEF SearchFlushes, Add
<1>12. CASE SearchChecks
  BY <1>12 DEF SearchChecks
<1>13. CASE SearchRequeues
  BY <1>13 DEF SearchRequeues, Add
<1>14. CASE SearchFinalAck
  BY <1>14 DEF SearchFinalAck, SendAnalysed
<1>15. CASE SearchFrees
  BY <1>15 DEF SearchFrees
<1>16. CASE SearchResets
  BY ZenonT(40), <1>16 DEF SearchResets
<1>17. CASE StopSignal /\ UNCHANGED workVars
  BY <1>17 DEF StopSignal
<1>18. CASE RegulatorReads /\ UNCHANGED workVars
  BY <1>18 DEF RegulatorReads
<1>19. CASE RegulatorWrites /\ UNCHANGED workVars
  BY <1>19 DEF RegulatorWrites
<1>20. CASE CommandReads /\ UNCHANGED workVars
  BY <1>20 DEF CommandReads
<1>21. CASE CommandWrites /\ UNCHANGED workVars
  BY <1>21 DEF CommandWrites, AdminTransition
<1>22. CASE UNCHANGED processVars
  BY <1>22 DEF processVars
<1> QED
  BY <1>1, <1>2, <1>3, <1>4, <1>5, <1>6, <1>7, <1>8, <1>9, <1>10, <1>11, <1>12, <1>13, <1>14, <1>15, <1>16, <1>17, <1>18, <1>19, <1>20, <1>21, <1>22 DEF FeedNext, FeedStep, SearchStep, FlagNext

LEMMA RunningStep == WInv /\ [FeedNext]_processVars => WInv'
<1> SUFFICES ASSUME WInv, [FeedNext]_processVars
             PROVE  WInv'
  OBVIOUS
<1>t. WorkerTypeOK /\ WorkerTypeOK'
  BY TypeStep DEF WInv
<1> SUFFICES ASSUME ~stopSent'
             PROVE  (Running /\ HandOver /\ Results)'
  BY <1>t DEF WInv
<1>s. ~stopSent
  <2>1. CASE FeedStep
    BY <2>1 DEF FeedStep, FeedNeeded, FeedAck, FeedGet, FeedRecord, FeedPublish, FeedStops,
                FeedFinalAck, flagVars, stopSent
  <2>2. CASE SearchStep
    BY <2>2 DEF SearchStep, SearchWakes, SearchTakes, SearchCloses, SearchFlushes,
                SearchChecks, SearchRequeues, SearchFinalAck, SearchFrees, SearchResets,
                flagVars, stopSent
  <2>3. CASE FlagNext
    BY <1>t, <2>3 DEF WorkerTypeOK, FlagTypeOK, FlagNext, StopSignal, RegulatorReads,
                      RegulatorWrites, CommandReads, CommandWrites, stopSent
  <2> QED
    BY <2>1, <2>2, <2>3 DEF FeedNext, processVars, flagVars, stopSent
<1>i. Running /\ HandOver /\ Results
  BY <1>s DEF WInv
<1> USE <1>t, <1>s, <1>i
<1> USE DEF WorkerTypeOK, FlagTypeOK, Value, NoCmd, flagVars, workVars, feedVars,
            searchVars, serverVars, stopSent, Running, HandOver, Results, Kept
<1>1. CASE FeedNeeded
  BY <1>1 DEF FeedNeeded
<1>2. CASE FeedAck
  BY <1>2 DEF FeedAck, SendAnalysed
<1>3. CASE FeedGet
  BY <1>3 DEF FeedGet
<1>4. CASE FeedRecord
  BY <1>4 DEF FeedRecord
<1>5. CASE FeedPublish
  BY <1>5 DEF FeedPublish
<1>6. CASE FeedStops
  BY <1>6 DEF FeedStops
<1>7. CASE FeedFinalAck
  BY <1>7 DEF FeedFinalAck, SendAnalysed
<1>8. CASE SearchWakes
  BY <1>8 DEF SearchWakes
<1>9. CASE SearchTakes
  BY <1>9 DEF SearchTakes
<1>10. CASE SearchCloses
  BY <1>10 DEF SearchCloses
<1>11. CASE SearchFlushes
  BY <1>11 DEF SearchFlushes, Add
<1>12. CASE SearchChecks
  BY <1>12 DEF SearchChecks
<1>13. CASE SearchRequeues
  BY <1>13 DEF SearchRequeues, Add
<1>14. CASE SearchFinalAck
  BY <1>14 DEF SearchFinalAck, SendAnalysed
<1>15. CASE SearchFrees
  BY <1>15 DEF SearchFrees
<1>16. CASE SearchResets
  BY <1>16 DEF SearchResets
<1>17. CASE StopSignal /\ UNCHANGED workVars
  BY <1>17 DEF StopSignal
<1>18. CASE RegulatorReads /\ UNCHANGED workVars
  BY <1>18 DEF RegulatorReads
<1>19. CASE RegulatorWrites /\ UNCHANGED workVars
  BY <1>19 DEF RegulatorWrites
<1>20. CASE CommandReads /\ UNCHANGED workVars
  BY <1>20 DEF CommandReads
<1>21. CASE CommandWrites /\ UNCHANGED workVars
  BY <1>21 DEF CommandWrites, AdminTransition
<1>22. CASE UNCHANGED processVars
  BY <1>22 DEF processVars
<1> QED
  BY <1>1, <1>2, <1>3, <1>4, <1>5, <1>6, <1>7, <1>8, <1>9, <1>10, <1>11, <1>12, <1>13, <1>14, <1>15, <1>16, <1>17, <1>18, <1>19, <1>20, <1>21, <1>22 DEF FeedNext, FeedStep, SearchStep, FlagNext

THEOREM WorkerInvariance == FeedSpec => []WInv
  BY InitWInv, RunningStep, PTL DEF FeedSpec

\* The feed thread and the search thread keep every variable in its type.
THEOREM WorkerTypeCorrect == FeedSpec => []WorkerTypeOK
<1>1. WInv => WorkerTypeOK
  BY DEF WInv
<1> QED BY WorkerInvariance, <1>1, PTL

\* feed_one_thread and autoprune_step: while the process has not been asked to
\* stop, the server never stops tracking a board whose result is not stored.
THEOREM AckAfterResult == FeedSpec => []ResultBeforeAckWhileRunning
<1>1. WInv => ResultBeforeAckWhileRunning
  BY DEF WInv, ResultBeforeAckWhileRunning, ResultBeforeAck, Safe, Results, Kept
<1> QED BY WorkerInvariance, <1>1, PTL

\* ... and it never publishes a batch over the one being worked on.
THEOREM OneBatchAtATime == FeedSpec => []OneBatch
<1>1. WInv => OneBatch
  BY DEF WInv, OneBatch, HandOver
<1> QED BY WorkerInvariance, <1>1, PTL

-----------------------------------------------------------------------------
(***************************************************************************)
(* The fork gate is safe for any set of threads: in the window between      *)
(* fork_gate_request_quiesce and fork_gate_release_quiesce no participant   *)
(* is in its loop, and a child inherits nothing from a thread that was      *)
(* parked, nor output_mutex from anybody: only what a typist holds.         *)
(*                                                                         *)
(* The invariant says that a thread in its loop has a "running" slot (so    *)
(* quiescence cannot be declared while it works), that the flag is up for   *)
(* the whole window (so nobody passes the checkpoint), that locks are held  *)
(* only by threads at work or by a typist in its call, and that nobody has  *)
(* output_mutex while the orchestrator does.                                *)
(***************************************************************************)

FlagOK == (requested <=> opc # "idle") /\ (ioLocked => opc = "quiesced")

SlotOK == \A t \in Participant :
             pc[t] \in {"top", "gate", "work", "mark"} => state[t] = "running"

LockOK == \A t \in Participant : holds[t] # {} => Busy(t)

InheritOK == InheritsOnlyFromTypist /\ (ioLocked => \A t \in Participant : LogLock \notin holds[t])

GInv == GateTypeOK /\ FlagOK /\ SlotOK /\ QuietWindow /\ LockOK /\ InheritOK

LEMMA InitGInv == GateInit => GInv
<1> SUFFICES ASSUME GateInit PROVE GInv
  OBVIOUS
<1>1. GateTypeOK
  BY Zenon DEF GateInit, GateTypeOK
<1>2. SlotOK /\ LockOK
  BY DEF GateInit, SlotOK, LockOK
<1>3. FlagOK /\ QuietWindow /\ InheritOK
  BY DEF GateInit, FlagOK, QuietWindow, InheritOK, InheritsOnlyFromTypist
<1> QED
  BY <1>1, <1>2, <1>3 DEF GInv

LEMMA ParticipantGInv ==
  ASSUME GInv, NEW t \in Participant, ParticipantStep(t)
  PROVE  GInv'
<1> USE GateAssumption DEF GInv, GateTypeOK, FlagOK, SlotOK, QuietWindow, LockOK, InheritOK,
            Busy, gateVars, InheritsOnlyFromTypist
<1>1. CASE Register(t)
  BY <1>1 DEF Register
<1>2. CASE CheckpointFast(t)
  BY <1>2 DEF CheckpointFast
<1>3. CASE CheckpointSlow(t)
  BY <1>3 DEF CheckpointSlow
<1>4. CASE Park(t)
  BY <1>4 DEF Park
<1>5. CASE GateWake(t)
  BY <1>5 DEF GateWake
<1>6. CASE WorkDone(t)
  BY <1>6 DEF WorkDone
<1>7. CASE MarkBlocked(t)
  BY <1>7 DEF MarkBlocked
<1>8. CASE Unmark(t)
  BY <1>8 DEF Unmark
<1>9. CASE Unregister(t)
  BY <1>9 DEF Unregister
<1>10. ASSUME NEW l \in Lock, TakeLock(t, l) PROVE GInv'
  BY <1>10 DEF TakeLock
<1>11. ASSUME NEW l \in Lock, DropLock(t, l) PROVE GInv'
  BY <1>11 DEF DropLock
<1> QED
  BY <1>1, <1>2, <1>3, <1>4, <1>5, <1>6, <1>7, <1>8, <1>9, <1>10, <1>11 DEF ParticipantStep

LEMMA OrchestratorGInv ==
  ASSUME GInv, OrchestratorStep
  PROVE  GInv'
<1> USE GateAssumption DEF GInv, GateTypeOK, FlagOK, SlotOK, QuietWindow, LockOK, InheritOK,
            Busy, InheritsOnlyFromTypist
<1>1. CASE RequestQuiesce
  BY <1>1 DEF RequestQuiesce
<1>2. CASE Quiesced
  BY <1>2 DEF Quiesced, AllQuiescent
<1>3. CASE QuiesceTimeout
  BY <1>3 DEF QuiesceTimeout, AllQuiescent
<1>4. CASE AcquireIo
  BY <1>4 DEF AcquireIo
<1>5. CASE GateFork
  <2>1. Held \subseteq [thread : Participant, lock : Lock]
    BY DEF Held
  <2>2. ASSUME NEW i \in Held PROVE i.thread \in Typist /\ i.lock # LogLock
    <3>1. i.thread \in Participant /\ i.lock \in holds[i.thread]
      BY DEF Held
    <3>2. Busy(i.thread) /\ pc[i.thread] # "work"
      BY <1>5, <3>1 DEF GateFork
    <3> QED BY <1>5, <3>1, <3>2 DEF GateFork
  <2>3. InheritOK'
    BY <1>5, <2>2 DEF GateFork
  <2> QED BY <1>5, <2>1, <2>3 DEF GateFork
<1>6. CASE ReleaseQuiesce
  BY <1>6 DEF ReleaseQuiesce
<1> QED
  BY <1>1, <1>2, <1>3, <1>4, <1>5, <1>6 DEF OrchestratorStep

THEOREM GateInvariance == GateSpec => []GInv
<1>1. GInv /\ [GateNext]_allGateVars => GInv'
  <2> SUFFICES ASSUME GInv, [GateNext]_allGateVars PROVE GInv'
    OBVIOUS
  <2>1. CASE UNCHANGED allGateVars
    BY <2>1 DEF allGateVars, GInv, GateTypeOK, FlagOK, SlotOK, QuietWindow, LockOK, InheritOK, Busy,
                InheritsOnlyFromTypist
  <2> QED BY <2>1, ParticipantGInv, OrchestratorGInv DEF GateNext
<1> QED BY InitGInv, <1>1, PTL DEF GateSpec

\* orchestrator_spawn_forks and orchestrator_apply_restart_config act while no
\* registered thread is in its loop, whatever the number of threads.
THEOREM WindowIsQuiet == GateSpec => []QuietWindow
<1>1. GInv => QuietWindow
  BY DEF GInv
<1> QED BY GateInvariance, <1>1, PTL

\* orchestrator_spawn_forks takes output_mutex before it forks: what a child is
\* born with unable to release is never a lock of a thread that was parked, and
\* never the lock it logs with, however many consoles type meanwhile.
THEOREM InheritedIsTypists == GateSpec => []InheritsOnlyFromTypist
<1>1. GInv => InheritsOnlyFromTypist
  BY DEF GInv, InheritOK
<1> QED BY GateInvariance, <1>1, PTL

-----------------------------------------------------------------------------
(***************************************************************************)
(* The fork orchestrator is safe for any number of slots: commands that     *)
(* interleave with the driver never leave a fork in a state where nobody    *)
(* stops it, never make the driver overwrite a living pid, and never end    *)
(* the parent after a stop by the operator.                                 *)
(*                                                                         *)
(* The driver acts on a snapshot that the commands may have made stale.     *)
(* The invariant says what stays true of each place of the driver whatever  *)
(* the commands do meanwhile: a spawn is pending only when nothing lives,   *)
(* only the driver leaves RUNNING or STOPPING for another state, and a      *)
(* living fork is in its slot or about to be recorded.                      *)
(***************************************************************************)

Live == {"RUNNING", "STOPPING"}

\* After a stop sequence, and until the next fork, the slots are empty and the
\* forks parked.
ParkOK ==
    /\ stopped /\ dpc # "kill" => parked /\ \A c \in Fork : ~known[c]
    /\ dpc = "record" => ~stopped /\ cur \in Fork

PhaseOK ==
    /\ pending => /\ orch \in Live
                  /\ dpc \notin {"spawn", "record", "running", "stop", "kill"}
                  /\ \A c \in Fork : ~Alive(c)
    /\ dpc \in {"spawn", "record", "running"} => orch \in Live
    /\ dpc \in {"stop", "kill"} => orch = "STOPPING"

AliveOK ==
    \A c \in Fork :
        /\ Alive(c) => orch \in Live /\ (known[c] \/ (dpc = "record" /\ c = cur))
        /\ dpc = "spawn" /\ c >= cur => ~Alive(c)
        /\ dpc = "record" /\ c > cur => ~Alive(c)

OInv ==
    /\ OrchTypeOK
    /\ ParkOK
    /\ ParentOutlivesStop
    /\ ~staleStart => PhaseOK /\ AliveOK /\ lost = {}

LEMMA InitOInv == Init => OInv
<1> SUFFICES ASSUME Init PROVE OInv
  OBVIOUS
<1> USE OrchAssumption DEF Init, Fork, Age, Never
<1>1. OrchTypeOK
  <2>1. orch \in {"COUNTDOWN", "WAITING_CONFIG"}
    BY Zenon
  <2>2. /\ known \in [Fork -> BOOLEAN]
        /\ child \in [Fork -> {"none", "working", "stopping", "silent", "dead"}]
        /\ idle \in [Fork -> Age \cup {Never}] /\ acted \in [Fork -> Age]
    OBVIOUS
  <2>3. /\ pending \in BOOLEAN /\ restart \in BOOLEAN /\ elapsed \in BOOLEAN
        /\ parked \in BOOLEAN /\ ever \in BOOLEAN
        /\ exitReq \in BOOLEAN /\ stopped \in BOOLEAN /\ staleStart \in BOOLEAN
    BY Zenon
  <2>4. cur \in 1..(N + 1) /\ since \in Age /\ lost \subseteq Fork /\ commands \in Nat
    OBVIOUS
  <2>5. dpc = "wait"
    OBVIOUS
  <2> QED
    BY <2>1, <2>2, <2>3, <2>4, <2>5, Zenon DEF OrchTypeOK
<1>2. ParkOK /\ ParentOutlivesStop
  BY DEF ParkOK, ParentOutlivesStop
<1>3. PhaseOK /\ AliveOK /\ lost = {}
  BY DEF PhaseOK, AliveOK, Alive
<1> QED
  BY <1>1, <1>2, <1>3 DEF OInv

\* What the commands do.
LEMMA OperatorOInv == ASSUME OInv, Operator PROVE OInv'
<1> USE OrchAssumption DEF Fork, Age, Never, OInv, OrchTypeOK, ParkOK, ParentOutlivesStop,
        PhaseOK, AliveOK, Alive, Live, orchVars, procVars, stopVars, loopVars, Command
<1>1. CASE ConfigBegun
  BY <1>1 DEF ConfigBegun
<1>2. CASE Start
  <2>1. CASE orch \in Live
    BY <1>2, <2>1 DEF Start, PostStart
  <2>2. CASE orch \notin Live
    <3>1. orch' = "RUNNING" /\ pending' = TRUE /\ UNCHANGED restart
      BY <1>2, <2>2 DEF Start, PostStart
    <3>2. ~staleStart => dpc \notin {"spawn", "record", "running", "stop", "kill"}
      BY <2>2
    <3> QED
      BY <1>2, <2>2, <3>1, <3>2 DEF Start
  <2> QED
    BY <2>1, <2>2
<1>3. CASE StopForks
  BY <1>3 DEF StopForks
<1>4. CASE ExitSignal
  BY <1>4 DEF ExitSignal, Signalled
<1> QED
  BY <1>1, <1>2, <1>3, <1>4 DEF Operator

\* What the forks and the clock do: nothing comes to life.
LEMMA ForkOInv == ASSUME OInv, (\E c \in Fork : ForkStep(c)) \/ Tick PROVE OInv'
<1> USE OrchAssumption DEF Fork, Age, Never, OInv, OrchTypeOK, ParkOK, ParentOutlivesStop,
        PhaseOK, AliveOK, Alive, Live, orchVars, procVars, stopVars, loopVars, envVars
<1>1. ASSUME NEW c \in Fork, Report(c) PROVE OInv'
  BY <1>1 DEF Report
<1>2. ASSUME NEW c \in Fork, FallsSilent(c) PROVE OInv'
  BY <1>2 DEF FallsSilent
<1>3. ASSUME NEW c \in Fork, StopUndone(c) PROVE OInv'
  BY <1>3 DEF StopUndone
<1>4. ASSUME NEW c \in Fork, ForkEnds(c) PROVE OInv'
  BY <1>4 DEF ForkEnds
<1>5. CASE Tick
  BY <1>5 DEF Tick, Older
<1> QED
  BY <1>1, <1>2, <1>3, <1>4, <1>5 DEF ForkStep

\* What the driver does.
LEMMA DriverOInv == ASSUME OInv, Driver PROVE OInv'
<1> USE OrchAssumption DEF Fork, Age, Never, OInv, OrchTypeOK, ParkOK, ParentOutlivesStop,
        PhaseOK, AliveOK, Alive, Live, orchVars, procVars, stopVars, loopVars, envVars
<1>1. CASE Wake
  <2>1. SnapshotTurn \in {"countdown", "running", "stop", "check"}
    BY DEF SnapshotTurn
  <2>2. /\ SnapshotTurn = "running" => orch = "RUNNING"
        /\ SnapshotTurn = "stop" => orch = "STOPPING"
    BY DEF SnapshotTurn
  <2>3. /\ pending => dpc' = "spawn"
        /\ ~pending => dpc' = SnapshotTurn
        /\ pending' = FALSE /\ cur' = 1
        /\ UNCHANGED <<orch, restart, procVars, stopVars, loopVars, envVars>>
    BY <1>1, Zenon DEF Wake
  <2>4. OrchTypeOK'
    <3>1. dpc' \in {"spawn", "countdown", "running", "stop", "check"}
      BY <2>1, <2>3
    <3>2. cur' \in 1..(N + 1)
      BY <2>3
    <3>3. pending' \in BOOLEAN
      BY <2>3, Zenon
    <3> QED
      BY <2>3, <3>1, <3>2, <3>3
  <2>5. ParkOK' /\ ParentOutlivesStop'
    BY <1>1, <2>1, <2>3 DEF Wake
  <2>6. ~staleStart' => PhaseOK' /\ AliveOK' /\ lost' = {}
    BY <1>1, <2>1, <2>2, <2>3 DEF Wake
  <2> QED
    BY <2>4, <2>5, <2>6
<1>2. CASE SpawnFork
  <2>0. cur \in Fork
    BY <1>2 DEF SpawnFork
  <2>1. OrchTypeOK'
    <3>1. child' \in [Fork -> {"none", "working", "stopping", "silent", "dead"}]
      BY <1>2 DEF SpawnFork
    <3>2. lost' \subseteq Fork
      BY <1>2, <2>0, Zenon DEF SpawnFork
    <3> QED
      BY <1>2, <3>1, <3>2 DEF SpawnFork
  <2>2. ParkOK' /\ ParentOutlivesStop'
    BY <1>2, <2>0 DEF SpawnFork
  <2>3. ~staleStart => ~Alive(cur)
    BY <1>2 DEF SpawnFork
  <2>4. ~staleStart' => PhaseOK' /\ lost' = {}
    BY <1>2, <2>3 DEF SpawnFork
  <2>5. ~staleStart' => AliveOK'
    BY <1>2, <2>3 DEF SpawnFork
  <2> QED
    BY <2>1, <2>2, <2>4, <2>5
<1>3. CASE RecordFork
  BY <1>3 DEF RecordFork
<1>15. CASE RecordDead
  BY <1>15 DEF RecordDead, Command
<1>4. CASE SpawnFails
  BY <1>4 DEF SpawnFails
<1>5. CASE SpawnDone
  BY ZenonT(40), <1>5 DEF SpawnDone
<1>6. CASE CountdownTurn
  BY ZenonT(60), <1>6 DEF CountdownTurn, PostStart
<1>7. CASE RunningTurn
  BY <1>7 DEF RunningTurn
<1>8. CASE StopBegins
  BY <1>8 DEF StopBegins, Signalled
<1>9. ASSUME NEW c \in Fork, Escalate(c) PROVE OInv'
  BY <1>9 DEF Escalate, ChildIdle, Signalled
<1>10. ASSUME NEW c \in Fork, ReapStopped(c) PROVE OInv'
  BY <1>10 DEF ReapStopped
<1>11. CASE StopDone
  BY <1>11 DEF StopDone
<1>12. CASE ApplyDone
  BY ZenonT(60), <1>12 DEF ApplyDone, PostStart
<1>13. CASE ApplyRefused
  BY <1>13 DEF ApplyRefused
<1>14. CASE CheckEnd
  BY <1>14 DEF CheckEnd
<1> QED
  BY <1>1, <1>2, <1>3, <1>4, <1>5, <1>6, <1>7, <1>8, <1>9, <1>10, <1>11, <1>12, <1>13,
     <1>14, <1>15 DEF Driver

LEMMA StutterOInv == ASSUME OInv, UNCHANGED vars PROVE OInv'
  BY DEF vars, OInv, OrchTypeOK, ParkOK, ParentOutlivesStop, PhaseOK, AliveOK, Alive,
         orchVars, procVars, stopVars, loopVars, envVars

LEMMA OInvAlways == Spec => []OInv
<1>1. ASSUME OInv, [Next]_vars PROVE OInv'
  BY <1>1, OperatorOInv, ForkOInv, DriverOInv, StutterOInv DEF Next
<1> QED
  BY <1>1, InitOInv, PTL DEF Spec

\* For any number of forks and of commands, no fork lives in WAITING_CONFIG,
\* COUNTDOWN or CONFIGURING, where nothing would stop it, as long as no restart is
\* refused after a start was accepted (fork_orchestrator_run).
THEOREM WaitingHasNoFork == Spec => []NoForkWhileWaiting
<1>1. OInv => NoForkWhileWaiting
  BY DEF OInv, AliveOK, NoForkWhileWaiting, Live
<1> QED
  BY <1>1, OInvAlways, PTL

\* For any number of forks and of commands, the driver never writes over the pid of
\* a living fork (orchestrator_spawn_forks), with the same exception.
THEOREM ForksStayReachable == Spec => []NoForkLost
<1>1. OInv => NoForkLost
  BY DEF OInv, NoForkLost
<1> QED
  BY <1>1, OInvAlways, PTL

\* For any number of forks and of commands, a stop by the operator does not end the
\* parent (the end condition of fork_orchestrator_run's loop).
THEOREM StopKeepsParent == Spec => []ParentOutlivesStop
<1>1. OInv => ParentOutlivesStop
  BY DEF OInv
<1> QED
  BY <1>1, OInvAlways, PTL
=============================================================================
