------------------------------ MODULE MCClient ------------------------------
(* The processes of a client: the two threads of one fork (run, stop), and   *)
(* the orchestrator of the parent (orch).  A behaviour is about one of them.  *)
EXTENDS WorkerFeed, ForkOrchestrator

\* "run": no stop signal.  "stop": a stop signal, and a server that answers.
VARIABLE part

ServerAnswers ==
    /\ UNCHANGED <<local, dropped>>
    /\ fpc = "get" /\ fpc' = "top" => stock = {}
    /\ fpc \in {"ack", "final"} /\ fpc' # fpc => file' = {}
    /\ spc = "ack" /\ spc' # spc => file' = {} \/ (fpc = "record" /\ UNCHANGED <<file, tracked>>)

\* A step A of one of the three, the others being left alone.
InFeed(A) ==
    /\ part \in {"run", "stop"} /\ A
    /\ part = "run" => signals' = 0
    /\ part = "stop" => ServerAnswers
    /\ UNCHANGED <<part, vars>>
InOrch(A) == part = "orch" /\ A /\ UNCHANGED <<part, processVars>>

MCInit == part \in {"run", "stop", "orch"} /\ FeedInit /\ Init
MCNext == InFeed(FeedNext) \/ InOrch(Next)
MCSpec == MCInit /\ [][MCNext]_<<part, processVars, vars>>

\* The fairness of FeedFairSpec and FairSpec.
MCFairness ==
    /\ WF_processVars(InFeed(FeedStep)) /\ WF_processVars(InFeed(SearchStep))
    /\ WF_vars(InOrch(Driver)) /\ WF_vars(InOrch(Tick))
    /\ \A c \in Fork : WF_vars(InOrch(FallsSilent(c))) /\ WF_vars(InOrch(ReapStopped(c)))
MCFairSpec == MCSpec /\ MCFairness

\* StopEnds and StopForksEnds, each in the behaviours about its part: a stop ends
\* the two threads of a worker, and the forks of an orchestrator or the parent.
Waits ==
    \/ part = "stop" /\ StopHeard
    \/ part = "orch" /\ orch = "STOPPING"
Settled ==
    \/ part = "stop" /\ BothEnded
    \/ part = "orch" /\ LeftStopping
WaitsEnd == (Waits ~> Settled) \/ []<>(part = "orch" /\ StopIsUndone)
=============================================================================
