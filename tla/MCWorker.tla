------------------------------ MODULE MCWorker ------------------------------
(* The search of one worker, on a puzzle of nine pieces and two inner         *)
(* colours with 16 solutions, and the fork gate its process goes through.     *)
(* A behaviour is about one of them.                                          *)
EXTENDS Search, ForkGate

VARIABLE part   \* "search" or "gate"

MCFaces ==
  << <<1, 1, 0, 1>>, <<2, 1, 1, 0>>, <<0, 2, 2, 2>>, <<0, 0, 1, 2>>, <<0, 2, 2, 0>>,
     <<0, 1, 2, 0>>, <<2, 2, 1, 0>>, <<2, 1, 2, 1>>, <<1, 0, 0, 1>> >>

\* Two chunks: the packets of the upper levels, then those of the lower ones.
MCChunkOf(b) == IF possibility_placed_count(b) > 3 THEN 1 ELSE 2

EmptyBoard == [c \in Cells |-> Empty]
\* A corner only; two sides of a corner, which is found from both;
\* five pieces, too deep for a short proof; one cell left.
MCRoots ==
  {[EmptyBoard EXCEPT ![<<0, 0>>] = <<4, 3>>],
   [EmptyBoard EXCEPT ![<<0, 1>>] = <<3, 3>>, ![<<1, 2>>] = <<2, 3>>],
   [EmptyBoard EXCEPT ![<<0, 0>>] = <<4, 3>>, ![<<1, 1>>] = <<8, 1>>, ![<<0, 1>>] = <<3, 3>>,
                      ![<<0, 2>>] = <<5, 3>>, ![<<1, 0>>] = <<1, 2>>],
   [EmptyBoard EXCEPT ![<<0, 0>>] = <<4, 3>>, ![<<1, 1>>] = <<8, 1>>, ![<<0, 1>>] = <<3, 3>>,
                      ![<<0, 2>>] = <<5, 3>>, ![<<1, 0>>] = <<1, 2>>, ![<<1, 2>>] = <<2, 3>>,
                      ![<<2, 0>>] = <<9, 3>>, ![<<2, 1>>] = <<7, 2>>]}

Worker == [delegate |-> TRUE, singleton |-> FALSE, stopOnSolution |-> FALSE,
           abandonDepth |-> 0, budget |-> 0]
MCOptions ==
  {Worker,
   [Worker EXCEPT !.singleton = TRUE, !.abandonDepth = 4],
   [Worker EXCEPT !.stopOnSolution = TRUE],
   [Worker EXCEPT !.delegate = FALSE, !.budget = 6],
   [Worker EXCEPT !.delegate = FALSE, !.budget = 7, !.singleton = TRUE]}

\* A step A of one of the two, the other being left alone.
InSearch(A) == part = "search" /\ A /\ UNCHANGED <<part, allGateVars>>
InGate(A) == part = "gate" /\ A /\ UNCHANGED <<part, engineVars>>

MCInit ==
  /\ part \in {"search", "gate"} /\ SearchInit /\ GateInit
  \* from the corner alone, the largest search: the plain worker, and one check
  /\ IF Cardinality(Used(root)) = 1
     THEN checks = MaxChecks - 1 /\ (opt.delegate => opt = Worker)
     ELSE checks = 0
  /\ part = "gate" => Cardinality(Used(root)) = 8 /\ opt = Worker
MCNext == InSearch(SearchNext) \/ InGate(GateNext)
MCFairSpec ==
  /\ MCInit /\ [][MCNext]_<<part, engineVars, allGateVars>>
  /\ WF_engineVars(InSearch(EngineStep))
  /\ WF_allGateVars(InGate(Quiesced)) /\ WF_allGateVars(InGate(QuiesceTimeout))
  /\ SF_allGateVars(InGate(AcquireIo)) /\ WF_allGateVars(InGate(GateFork)) /\ WF_allGateVars(InGate(ReleaseQuiesce))
  /\ \A t \in Participant : WF_allGateVars(InGate(Park(t))) /\ WF_allGateVars(InGate(GateWake(t)))
  /\ \A t \in Participant : \A l \in Lock : SF_allGateVars(InGate(DropLock(t, l)))

-----------------------------------------------------------------------------
\* ParkedIsReleased and SearchEnds, each in the behaviours about its part: a fork
\* releases the threads it has parked, and an exploration that is not paused for
\* ever, again and again, reaches a verdict.
Waits ==
  \/ part = "gate" /\ ~ NoneParked
  \/ part = "search" /\ engPc \notin Results
Settled ==
  \/ part = "gate" /\ NoneParked
  \/ part = "search" /\ engPc \in Results
ThreadsProceed == (Waits ~> Settled) \/ []<>(part = "search" /\ engRequest = "pause")
=============================================================================
