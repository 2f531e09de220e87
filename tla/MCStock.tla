------------------------------ MODULE MCStock -------------------------------
(* What works on the stock: its expansion (expand), the commands that check   *)
(* and sort it (audit), the import of a backup (import), the threads that     *)
(* read one compressed (reader), and the files of the disk tier with their    *)
(* snapshot (segments).                                                       *)
(* A behaviour is about one of them.                                          *)
EXTENDS Expansion, MCAudit, StockImport, SortInput, MCSegments

CONSTANTS u1, u2
VARIABLE part   \* "expand", "audit", "import", "reader" or "segments"

-----------------------------------------------------------------------------
(* The expansion. *)
\* r and q are deep enough; s has two children, one of which has a refuted child.
MCNodes == {"r", "q", "s", "a", "b", "c", "f"}
MCChildren == [n \in MCNodes |-> CASE n = "s" -> {"a", "b"} [] n = "a" -> {"c", "f"} [] OTHER -> {}]
MCLevel == [n \in MCNodes |-> CASE n = "s" -> 1 [] n \in {"a", "b"} -> 2 [] OTHER -> 3]
MCProved == {"f"}

InTier == [pool |-> {"r"}, tier |-> stock_tier_link(NoTier, {"s"}), disk |-> NoDisk]
OnDisk == [pool |-> {"s"}, tier |-> NoTier, disk |-> spill_append_frame(NoDisk, {"r"})]
FullOnDisk == [pool |-> {"s", "q"}, tier |-> NoTier, disk |-> spill_append_frame(NoDisk, {"r"})]
Setting(start, tier, disk, clients, spiller, stops, maxStock, flts) ==
  [start |-> start, tier |-> tier, disk |-> disk, clients |-> clients, spiller |-> spiller,
   stops |-> stops, maxStock |-> maxStock, faults |-> flts]
MCSettings ==
  {Setting(FullOnDisk, FALSE, TRUE, FALSE, FALSE, FALSE, 2, {}),
   Setting(InTier, FALSE, FALSE, TRUE, FALSE, TRUE, 9, {}),
   Setting(InTier, FALSE, FALSE, FALSE, FALSE, TRUE, 9, {"drain"}),
   Setting(OnDisk, TRUE, TRUE, FALSE, FALSE, FALSE, 9, {"read"}),
   Setting(InTier, TRUE, TRUE, FALSE, FALSE, TRUE, 4, {})}
  \cup {Setting(start, TRUE, TRUE, FALSE, TRUE, FALSE, 2, {}) : start \in {InTier, OnDisk}}
  \cup {Setting(start, TRUE, FALSE, FALSE, FALSE, TRUE, 2, {}) : start \in {InTier, OnDisk}}
  \cup {Setting(start, FALSE, TRUE, FALSE, TRUE, FALSE, 2, {}) : start \in {InTier, OnDisk}}
  \cup {Setting(start, FALSE, TRUE, FALSE, FALSE, TRUE, 2, {"busy"}) : start \in {InTier, OnDisk}}

-----------------------------------------------------------------------------
(* The import. *)
Bk(recs, pack) ==
  [readable |-> TRUE, recs |-> recs, kind |-> pack, snap |-> {20}, mismatch |-> FALSE, analysedOk |-> TRUE, analysed |-> {31, 32}]
MCBackups ==
  {Bk(<<0, 2, 4, 6, 8, 9, 11>>, "complete"), [Bk(<<0, 1, 2, 3>>, "snapshot") EXCEPT !.mismatch = TRUE],
   [Bk(<<0>>, "none") EXCEPT !.analysedOk = FALSE], [Bk(<<0>>, "complete") EXCEPT !.readable = FALSE]}
MCImpSettings ==
  {[soft |-> 4, spill |-> TRUE, workers |-> 2, fails |-> 0], [soft |-> 9, spill |-> TRUE, workers |-> 2, fails |-> 0], [soft |-> 6, spill |-> TRUE, workers |-> 2, fails |-> 1],
   [soft |-> 6, spill |-> FALSE, workers |-> 2, fails |-> 0], [soft |-> 4, spill |-> FALSE, workers |-> 1, fails |-> 1],
   [soft |-> 2, spill |-> TRUE, workers |-> 1, fails |-> 0], [soft |-> 6, spill |-> TRUE, workers |-> 0, fails |-> 1]}
MCOld == [lists |-> {40}, disk |-> {41}, analysed |-> {42}]

-----------------------------------------------------------------------------
(* The reader. *)
MCInputs ==
  {<<>>, <<"frame", "frame", "frame", "frame">>, <<"chunk", "chunk", "frame", "frame">>,
   <<"frame", "chunk", "frame", "chunk", "frame">>, <<"frame", "badframe", "frame">>, <<"frame", "chunk", "broken">>}

-----------------------------------------------------------------------------
\* A step A of one of the five, the others being left alone.
InExpand(A) == part = "expand" /\ A /\ UNCHANGED <<part, audVars, impVars, pinVars, segVars>>
InAudit(A) == part = "audit" /\ A /\ UNCHANGED <<part, expVars, impVars, pinVars, segVars>>
InImport(A) == part = "import" /\ A /\ UNCHANGED <<part, expVars, audVars, pinVars, segVars>>
InReader(A) == part = "reader" /\ A /\ UNCHANGED <<part, expVars, audVars, impVars, segVars>>
InSegments(A) == part = "segments" /\ A /\ UNCHANGED <<part, expVars, audVars, impVars, pinVars>>

MCInit ==
  /\ part \in {"expand", "audit", "import", "reader", "segments"}
  /\ ExpInit /\ (part # "expand" => set = CHOOSE s \in Settings : TRUE)
  /\ AudInit /\ (part # "audit" => dup.pc = "start" /\ lists = CHOOSE s \in Stocks : TRUE)
  /\ ImpInit /\ (part # "import" => srv.set = CHOOSE s \in ImpSettings : TRUE)
  /\ PinInit /\ (part # "reader" => pinIn = <<>>)
  /\ SegInit /\ (part # "segments" => ram["c"] = {} /\ sp.restarts = 1)
MCNext ==
  \/ InExpand(ExpNext)
  \/ InAudit(AudNext)
  \/ InImport(ImpNext)
  \/ InReader(PinNext)
  \/ InSegments(SegNext)

\* The fairness of ExpFairness, AudFairness, and of the threads of the import and of
\* the reader.  The first thread of each part is the one that drives it.
Thread(k) ==
  \/ \/ k = 1 /\ InExpand(DriverStep)
     \/ k = 2 /\ InExpand(SpillAppends)
     \/ \E t \in Threads : t = k - 2 /\ InExpand(ThreadStep(t))
  \/ \/ k = 1 /\ InAudit(DupStep \/ OriStep \/ sort_one_file)
     \/ \E t \in AudThread : t = k - 2 /\ InAudit(check_duplicate_thread(t))
     \/ \E t \in OriThread : t = k - 2 /\ InAudit(OriginLooks(t) \/ OriginMarks(t))
  \/ \/ k = 1 /\ InImport(ReaderStep)
     \/ \E w \in ImpWorker : w = k - 1 /\ InImport(WorkerStep(w))
  \/ \/ k = 1 /\ InReader(Dispatcher)
     \/ k = 2 /\ InReader(Reader)
     \/ k = 3 /\ InReader(UnpackerStep(u1))
     \/ k = 4 /\ InReader(UnpackerStep(u2))
allVars == <<part, expVars, audVars, impVars, pinVars, segVars>>
MCSpec == MCInit /\ [][MCNext]_allVars
MCFairSpec == MCSpec /\ \A k \in 1 .. 4 : WF_allVars(Thread(k))

-----------------------------------------------------------------------------
\* No board is lost by an expansion (NothingLost), none is in two places (OneCopy), and
\* the stock has its type (ExpTypeOK).
EachBoardOnce == part = "expand" => ExpTypeOK /\ NothingLost /\ OneCopy

\* A pass develops what was there before it (PassIsOneLevel), and an expansion that
\* ends by itself leaves nothing shallow (LevelReached).
LevelByLevel == part = "expand" => PassIsOneLevel /\ LevelReached

\* An import that ends has put everything somewhere (ImportWhole), in the order of the
\* file (StackOrder).
ImportRight == part = "import" => ImportWhole /\ StackOrder

\* Each record of the stock is in one place (StockInOnePlace) and the counters of the
\* disk tell what is on it (CountsHeld).
DiskTrue == part = "segments" => StockInOnePlace /\ CountsHeld

\* What a snapshot keeps is what it was taken of, whatever happens to the live disk
\* (SnapshotKept), and a restore reports a mismatch when, and only when, a segment was
\* lost or cut short (RestoreToldRight).
SnapshotStays == [](part = "segments" => SnapshotKept) /\ RestoreToldRight

\* ExpansionReturns, AuditEnds, ImportEnds and InputEnds, each in the behaviours about
\* its part: no thread waits for the others for ever.
Begun ==
  \/ part = "expand" /\ (set.disk \/ stop)
  \/ part = "audit"
  \/ part = "import" /\ imp.pc = "check"
  \/ part = "reader"
Over ==
  \/ part = "expand" /\ driver.pc = "done"
  \/ part = "audit" /\ \A pc \in {dup.pc, ori.pc, srt.pc} : pc \in {"idle", "end"}
  \/ part = "import" /\ ImportOver
  \/ part = "reader" /\ rdr.pc = "freed"
CommandsEnd == Begun ~> Over
=============================================================================
