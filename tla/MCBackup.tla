------------------------------ MODULE MCBackup ------------------------------
(* The files of a server: the consistent backup of the pools (backup), and    *)
(* the sort of a backup (sort).  A behaviour is about one of them.            *)
EXTENDS StockBackup, BackupSort

VARIABLE part   \* "backup" or "sort"

\* Every sequence of four records of these, and longer ones; the faults.
SomeRecs == {Rec(0, 0, 0), Rec(1, 0, 0), Rec(1, 1, 1), Rec(2, 0, 1)}
LongInput == <<Rec(2, 0, 1), Rec(1, 0, 0), Rec(0, 1, 0), Rec(2, 0, 0), Rec(1, 1, 0), Rec(0, 0, 0), Rec(1, 0, 1), Rec(1, 0, 0)>>
SortOf(q, fault, start) == [input |-> q, fault |-> fault, start |-> start]
MCSortJobs ==
  {SortOf(q, "none", {}) : q \in [1 .. 4 -> SomeRecs] \cup {<<>>, LongInput, Reverse(LongInput)}}
  \cup {SortOf(q, f, {}) : q \in {LongInput, SubSeq(LongInput, 1, 2)}, f \in {"torn", "write", "run", "part", "join", "rename"}}
  \cup {SortOf(Append(q, BadRec), "none", {}) : q \in {LongInput, <<>>}}
  \cup {SortOf(LongInput, "none", {f}) : f \in {OutName, SidecarName}}

-----------------------------------------------------------------------------
\* A step A of one of the two, the other being left alone.
InBackup(A) == part = "backup" /\ A /\ UNCHANGED <<part, sortVars>>
InSort(A) == part = "sort" /\ A /\ UNCHANGED <<part, vars>>

MCInit ==
  /\ part \in {"backup", "sort"} /\ Init
  /\ SortInit /\ (part # "sort" => sortJob = CHOOSE j \in SortJobs : j.input = <<>>)
\* A sort ends; a backup that stops is a deadlock.
SortEnded == part = "sort" /\ UNCHANGED <<part, vars, sortVars>>
MCNext == InBackup(Next) \/ InSort(SortNext) \/ SortEnded
MCSpec == MCInit /\ [][MCNext]_<<part, vars, sortVars>>
\* The fairness of StockBackup.
MCFairSpec ==
  /\ MCSpec
  /\ WF_vars(InBackup(BackupGoesOn))
  /\ WF_vars(InBackup(EvictPush \/ EvictFails)) /\ SF_vars(InBackup(TierUnlock)) /\ SF_vars(InBackup(StepEnds))

-----------------------------------------------------------------------------
\* The output of a sort is its input in order (SortedOutput), and a sort with nothing
\* wrong in its way succeeds (CleanSortSucceeds).
SortRight == part = "sort" => SortedOutput /\ CleanSortSucceeds
=============================================================================
