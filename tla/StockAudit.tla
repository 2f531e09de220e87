------------------------------ MODULE StockAudit ------------------------------
(***************************************************************************)
(* The commands that examine or reorder the lists of the stock: the search *)
(* for duplicates (check_duplicate), the search for roots and its purge    *)
(* (check_origin), the sort of one list (sort_one_file_ascending and       *)
(* _descending) and the record of how a list is sorted (sort_state).       *)
(*                                                                         *)
(* A possibility is [id, cells]: the cells with their piece.  The lists of *)
(* both pools are one sequence of 2 * NbFiles files, the pool that is not  *)
(* checked first.  The first two commands hold every lock of the stock, so *)
(* only their own threads run beside them.                                 *)
(***************************************************************************)
EXTENDS Integers, SequencesExt, FiniteSetsExt

CONSTANTS
  Stocks,         \* the contents of the lists when a command starts
  AudLists,        \* nb_file_possibility
  DupThreads,     \* nbDuplicateThread
  OriginThreads,  \* NB_ORIGIN_THREAD
  Creations,      \* what pthread_create may give: {TRUE} or BOOLEAN
  MaxLevel,       \* ETERN_PARTS
  InsertLevels,   \* levels inserted beside the periodic sort
  MaxLength,      \* longest list that is sorted
  MaxInserts      \* insertions beside the periodic sort

AudFile == 0 .. (2 * AudLists - 1)
AudThread == 0 .. (DupThreads - 1)
OriThread == 0 .. (OriginThreads - 1)
ASSUME AudAssumption ==
  /\ {AudLists, DupThreads, OriginThreads, MaxLevel} \subseteq Nat \ {0} /\ MaxLength \in Nat /\ MaxInserts \in Nat
  /\ Creations \subseteq BOOLEAN /\ InsertLevels \subseteq 0 .. MaxLevel
  /\ \A s \in Stocks : /\ DOMAIN s = AudFile
                      /\ \A f \in AudFile : s[f] \in Seq(ToSet(s[f])) /\ \A p \in ToSet(s[f]) : IsFiniteSet(p.cells)

VARIABLES
  lists,    \* the lists: AudFile -> Seq of possibilities
  dup,      \* check_duplicate: the partition, and [cur, limit, analysed, errors, finish] of each thread
  ori,      \* check_origin: entries, their flags, the counts and the threads
  srt,      \* sort_one_file_*: list, first of each level, cursor
  segs      \* sort_state of each list, with what the list holds, for the periodic sort
audVars == <<lists, dup, ori, srt, segs>>

Alloc(p) == Cardinality(p.cells)
Same(p, q) == p.cells = q.cells
\* is_origin_of: strictly fewer pieces, each at the same place in the other.
is_origin_of(p, q) == Alloc(p) < Alloc(q) /\ p.cells \subseteq q.cells
NotAsked == [pc |-> "idle"]

-----------------------------------------------------------------------------
(* check_duplicate *)
\* duplicate_pool_skip_empty: the first list from f that is not empty.
duplicate_pool_skip_empty(f) ==
  LET full == {g \in AudFile : g >= f /\ lists[g] # <<>>}
  IN  IF full = {} THEN 2 * AudLists ELSE Min(full)
At(f, pos) == [f |-> f, pos |-> pos]
\* currElement # NULL
HasElement(c) == c.f \in AudFile /\ c.pos < Len(lists[c.f])
ElementOf(c) == lists[c.f][c.pos + 1]
\* What the possibility at c is compared with: the rest of its list, and every list after.
ComparedWith(c) ==
  SubSeq(lists[c.f], c.pos + 2, Len(lists[c.f]))
  \o FlattenSeq([i \in 1 .. (2 * AudLists - 1 - c.f) |-> lists[c.f + i]])
IsError(p, q) == Same(p, q) \/ is_origin_of(p, q)

DataSize == FoldSet(LAMBDA f, n : n + Len(lists[f]), 0, AudFile)
count_combinations(n) == IF n = 0 THEN 0 ELSE (n * (n - 1)) \div 2
ByThread == count_combinations(DataSize) \div DupThreads
NotStarted == [cur |-> At(0, 0), limit |-> 0, analysed |-> 0, errors |-> 0, finish |-> TRUE]

DuplicateStarts ==
  /\ dup.pc = "start"
  /\ dup' = [pc |-> "spawn", t |-> 0, cur |-> At(duplicate_pool_skip_empty(0), 0), allocated |-> 0, share |-> 0,
             remains |-> DataSize, result |-> 0,
             threads |-> [t \in AudThread |-> [NotStarted EXCEPT !.finish = FALSE]]]
  /\ UNCHANGED <<lists, ori, srt, segs>>
MoreToGive == dup.t < DupThreads /\ dup.cur.f \in AudFile /\ dup.allocated < count_combinations(DataSize)
\* A thread gets the place reached so far and a number of comparisons; the last one
\* gets all that is left.  A thread that cannot be created counts as finished.
SpawnDuplicate ==
  /\ dup.pc = "spawn" /\ MoreToGive
  /\ LET last == dup.t = DupThreads - 1
         limit == IF last THEN count_combinations(DataSize) - dup.allocated ELSE ByThread
     IN  \E created \in Creations :
           dup' = [dup EXCEPT !.threads[dup.t] = [NotStarted EXCEPT !.cur = dup.cur, !.limit = limit, !.finish = ~ created],
                              !.pc = IF last THEN "spawn" ELSE "advance", !.share = dup.remains - 1,
                              !.t = IF last THEN @ + 1 ELSE @]
  /\ UNCHANGED <<lists, ori, srt, segs>>
\* The start of the next thread is searched from there.
AdvanceStart ==
  /\ dup.pc = "advance"
  /\ dup' = IF dup.share < ByThread /\ HasElement(dup.cur)
            THEN [dup EXCEPT !.remains = @ - 1, !.share = @ + dup.remains - 1,
                             !.cur = IF @.pos + 1 > Len(lists[@.f]) THEN At(duplicate_pool_skip_empty(@.f + 1), 0)
                                     ELSE At(@.f, @.pos + 1)]
            ELSE [dup EXCEPT !.allocated = @ + dup.share, !.t = @ + 1, !.pc = "spawn"]
  /\ UNCHANGED <<lists, ori, srt, segs>>
SpawnEnds ==
  /\ dup.pc = "spawn" /\ ~ MoreToGive
  /\ dup' = [dup EXCEPT !.pc = "join"]
  /\ UNCHANGED <<lists, ori, srt, segs>>

\* check_duplicate_thread: one possibility against all that follow it.
NextOf(c) == IF c.pos + 1 >= Len(lists[c.f]) THEN At(duplicate_pool_skip_empty(c.f + 1), 0) ELSE At(c.f, c.pos + 1)
check_duplicate_thread(t) ==
  LET th == dup.threads[t]
      others == ComparedWith(th.cur)
  IN  /\ dup.pc \in {"spawn", "advance", "join"} /\ ~ th.finish /\ (t < dup.t \/ (t = dup.t /\ dup.pc = "advance"))
      /\ dup' = IF HasElement(th.cur) /\ th.analysed <= th.limit
                THEN [dup EXCEPT !.threads[t] =
                        [@ EXCEPT !.cur = NextOf(@), !.analysed = @ + Len(others),
                                  !.errors = @ + Len(SelectSeq(others, LAMBDA q : IsError(ElementOf(th.cur), q)))]]
                ELSE [dup EXCEPT !.threads[t].finish = TRUE]
      /\ UNCHANGED <<lists, ori, srt, segs>>

\* Mutant: every index is waited for, the threads never started too.
WaitsForAll == AudThread
\* Only the threads that were started are waited for.
Awaited == {t \in AudThread : t < dup.t}
JoinDuplicate ==
  /\ dup.pc = "join" /\ \A t \in Awaited : dup.threads[t].finish
  /\ dup' = [dup EXCEPT !.pc = "end", !.result = IF \E t \in Awaited : dup.threads[t].errors > 0 THEN -1 ELSE 0]
  /\ UNCHANGED <<lists, ori, srt, segs>>

-----------------------------------------------------------------------------
(* check_origin *)
Collected == UNION {ToSet(lists[f]) : f \in AudFile}
\* qsort: any order in which the number of pieces does not decrease.
SortedEntries == {s \in SetToSeqs(Collected) : \A i \in 1 .. (Len(s) - 1) : Alloc(s[i]) <= Alloc(s[i + 1])}
Nobody == [pc |-> "end", i |-> 0, j |-> 0]
CollectOrigins(purge) ==
  /\ ori.pc = "start"
  /\ \E s \in SortedEntries :
       ori' = [pc |-> "scan", entries |-> s, purge |-> purge, found |-> 0, result |-> 0,
               dups |-> {}, descs |-> {}, before |-> Collected,
               threads |-> [t \in OriThread |->
                 IF t < Len(s) THEN [pc |-> "look", i |-> t + 1, j |-> t + 2] ELSE Nobody]]
  /\ UNCHANGED <<lists, dup, srt, segs>>

\* Mutant: the first that has as many pieces.
LowerBound(a) == Min({i \in DOMAIN ori.entries : Alloc(ori.entries[i]) >= a} \cup {Len(ori.entries) + 1})
\* The first entry that has more pieces.
origin_upper_bound(a) == Min({i \in DOMAIN ori.entries : Alloc(ori.entries[i]) > a} \cup {Len(ori.entries) + 1})
RootOf(t) == ori.entries[ori.threads[t].i]
EqualBand(t) == ori.threads[t].j < origin_upper_bound(Alloc(RootOf(t)))
Flags(t) == IF EqualBand(t) THEN ori.dups ELSE ori.descs
Related(t) ==
  LET e == ori.entries[ori.threads[t].j]
  IN  IF EqualBand(t) THEN Same(RootOf(t), e) ELSE is_origin_of(RootOf(t), e)
NextRoot(th) == LET i == th.i + OriginThreads IN IF i > Len(ori.entries) THEN Nobody ELSE [pc |-> "look", i |-> i, j |-> i + 1]

\* One entry after the root: already flagged, not related, or to be flagged.
OriginLooks(t) ==
  LET th == ori.threads[t]
  IN  /\ ori.pc = "scan" /\ th.pc = "look"
      /\ ori' = [ori EXCEPT !.threads[t] = CASE th.j > Len(ori.entries) -> NextRoot(th)
                                             [] th.j <= Len(ori.entries) /\ th.j \notin Flags(t) /\ Related(t) ->
                                                  [th EXCEPT !.pc = "mark"]
                                             [] OTHER -> [th EXCEPT !.j = @ + 1]]
      /\ UNCHANGED <<lists, dup, srt, segs>>
\* The exchange gives the discovery to one thread only.
FirstToFlag(t) == ori.threads[t].j \notin Flags(t)
OriginMarks(t) ==
  LET th == ori.threads[t]
  IN  /\ ori.pc = "scan" /\ th.pc = "mark"
      /\ ori' = [ori EXCEPT !.dups = IF EqualBand(t) THEN @ \cup {th.j} ELSE @,
                            !.descs = IF EqualBand(t) THEN @ ELSE @ \cup {th.j},
                            !.found = IF FirstToFlag(t) THEN @ + 1 ELSE @,
                            !.threads[t] = [th EXCEPT !.pc = "look", !.j = @ + 1]]
      /\ UNCHANGED <<lists, dup, srt, segs>>
\* file_remove_element of each of gone: what is left of a list, in its order.
WithoutAll(s, gone) == FoldLeft(LAMBDA u, p : IF p \in gone THEN u ELSE Append(u, p), <<>>, s)
\* The threads are joined, and the purge removes what was flagged.
OriginEnds ==
  LET gone == {ori.entries[i] : i \in ori.dups \cup ori.descs}
  IN  /\ ori.pc = "scan" /\ \A t \in OriThread : ori.threads[t].pc = "end"
      /\ lists' = IF ori.purge THEN [f \in AudFile |-> WithoutAll(lists[f], gone)] ELSE lists
      /\ ori' = [ori EXCEPT !.pc = "end", !.result = IF ori.found > 0 THEN -1 ELSE 0]
      /\ UNCHANGED <<dup, srt, segs>>

-----------------------------------------------------------------------------
(* sort_one_file_ascending, sort_one_file_descending: one pass over the list, *)
(* an element out of order being moved before the first of the next level.    *)
AudLevel == 0 .. MaxLevel
LevelOf(e) == srt.level[e]
\* The elements of the list are 1 .. Len(levels), in their first order.
SortStarts(levels, desc) ==
  [pc |-> IF levels = <<>> THEN "end" ELSE "sort", desc |-> desc, level |-> levels,
   list |-> [i \in 1 .. Len(levels) |-> i], lair |-> [l \in AudLevel |-> 0], at |-> 1]
IndexIn(s, e) == CHOOSE i \in DOMAIN s : s[i] = e
\* The levels that come after level l and are known.
TargetLevels(lair, l) == {b \in AudLevel : lair[b] # 0 /\ IF srt.desc THEN b < l /\ b > 0 ELSE b > l}
SegMoved(lair, e) ==   \* e, where the walk is, moved
  LET rest == RemoveAt(srt.list, srt.at)
      known == TargetLevels(lair, LevelOf(e))
      target == lair[IF srt.desc THEN Max(known) ELSE Min(known)]
  IN  IF known = {} THEN Append(rest, e) ELSE InsertAt(rest, IndexIn(rest, target), e)
FirstOf(lair, e) == [lair EXCEPT ![LevelOf(e)] = IF @ = 0 THEN e ELSE @]
\* The walk goes on from the element before the next one, which has a new neighbour.
ResumeAt(list, n) == IF list[1] = n THEN 1 ELSE IndexIn(list, n) - 1
sort_one_file ==
  LET e == srt.list[srt.at]
      last == srt.at = Len(srt.list)
      n == srt.list[srt.at + 1]
      lair == IF last THEN FirstOf(srt.lair, e) ELSE FirstOf(FirstOf(srt.lair, e), n)
      misplaced == IF srt.desc THEN LevelOf(e) < LevelOf(n) ELSE LevelOf(e) > LevelOf(n)
      moved == SegMoved(lair, e)
  IN  /\ srt.pc = "sort"
      /\ srt' = CASE last -> [srt EXCEPT !.pc = "end", !.lair = lair]
                  [] ~ last /\ misplaced -> [srt EXCEPT !.lair = lair, !.list = moved,
                                             !.at = ResumeAt(moved, n)]
                  [] OTHER -> [srt EXCEPT !.lair = lair, !.at = @ + 1]
      /\ UNCHANGED <<lists, dup, ori, segs>>

-----------------------------------------------------------------------------
(* sort_state: how the periodic sort knows that a list needs no sort.  A list *)
(* is the sequence of the levels of its possibilities; list f and list        *)
(* NbFiles + f are the two pools of one file.                                 *)
Ascending(s) == \A i \in 1 .. (Len(s) - 1) : s[i] <= s[i + 1]
InOrder(s, dir) == IF dir = "asc" THEN Ascending(s) ELSE Ascending(Reverse(s))
\* Level l put in an ordered list, after those it may follow.
MayFollow(l, q, i, dir) == IF dir = "asc" THEN q[i] <= l ELSE q[i] >= l
PutInOrder(q, l, dir) ==
  LET after == {0} \cup {i \in DOMAIN q : MayFollow(l, q, i, dir)}
  IN  InsertAt(q, Max(after) + 1, l)
\* What sort_one_file_* makes of a list.
LevelsSorted(s, dir) == FoldLeft(LAMBDA q, l : PutInOrder(q, l, dir), <<>>, s)
\* Mutant: an insertion leaves sort_state as it is.
StateKept(state) == state
AfterInsert(state) == "unknown"
\* put_to_pool, datamanager_pool_refill, put_back_to_stock.
SegInsert(f) ==
  /\ segs.pc = "run" /\ segs.inserts < MaxInserts /\ segs.lock[f] = "free"
  /\ \E l \in InsertLevels : segs' = [segs EXCEPT !.list[f] = Append(@, l), !.state[f] = AfterInsert(@), !.bypass[f] = FALSE,
                                           !.inserts = @ + 1]
  /\ UNCHANGED <<lists, dup, ori, srt>>
\* scroll_from_pool: the tail is served.
SegServe(f) ==
  /\ segs.pc = "run" /\ segs.list[f] # <<>> /\ segs.lock[f] = "free"
  /\ segs' = [segs EXCEPT !.list[f] = Front(@)]
  /\ UNCHANGED <<lists, dup, ori, srt>>
\* sort_files_bounded: sort_state is read without the lock, and a list that stays
\* locked is left for the next pass.
SegLooks(f) ==
  /\ segs.pc = "run" /\ segs.at = f
  /\ \/ /\ segs.state[f] # segs.dir /\ segs.lock[f] = "free"
        /\ segs' = [segs EXCEPT !.lock[f] = "sort", !.at = 2 * AudLists]
     \/ segs' = [segs EXCEPT !.at = (@ + 1) % (2 * AudLists)]
  /\ UNCHANGED <<lists, dup, ori, srt>>
SegSorts(f) ==
  /\ segs.pc = "run" /\ segs.lock[f] = "sort"
  /\ segs' = [segs EXCEPT !.list[f] = LevelsSorted(@, segs.dir), !.state[f] = segs.dir, !.bypass[f] = FALSE, !.lock[f] = "free",
                          !.at = (f + 1) % (2 * AudLists)]
  /\ UNCHANGED <<lists, dup, ori, srt>>
NoLockHeld == \A f \in AudFile : segs.lock[f] = "free"
\* sort_ascending_files, sort_descending_files: sort_state is left as it is.
SegSortFiles(dir) ==
  /\ segs.pc = "run" /\ NoLockHeld
  /\ segs' = [segs EXCEPT !.list = [f \in AudFile |-> LevelsSorted(segs.list[f], dir)],
                          !.bypass = [f \in AudFile |-> TRUE]]
  /\ UNCHANGED <<lists, dup, ori, srt>>
\* sort_ascending, sort_descending: the lists of each pool are first regrouped in its
\* list 0, each from its tail.
Regrouped(pool) ==
  FoldLeft(LAMBDA q, i : q \o Reverse(segs.list[pool + i]), segs.list[pool], [i \in 1 .. (AudLists - 1) |-> i])
SegSortAll(dir) ==
  /\ segs.pc = "run" /\ NoLockHeld
  /\ segs' = [segs EXCEPT
       !.list = [f \in AudFile |-> IF f \in {0, AudLists} THEN LevelsSorted(Regrouped(f), dir) ELSE <<>>],
       !.state = [f \in AudFile |-> IF f \in {0, AudLists} /\ Len(Regrouped(f)) # Len(segs.list[f]) THEN "unknown" ELSE @[f]],
       !.bypass = [f \in AudFile |-> f \in {0, AudLists}]]
  /\ UNCHANGED <<lists, dup, ori, srt>>
\* reset_checked_pool: the checked list of a file is linked after the other one.
SegResetChecked ==
  /\ segs.pc = "run" /\ NoLockHeld
  /\ segs' = [segs EXCEPT
       !.list = [f \in AudFile |-> IF f < AudLists THEN segs.list[f] \o segs.list[f + AudLists] ELSE <<>>],
       !.bypass = [f \in AudFile |-> IF f < AudLists /\ segs.list[f + AudLists] # <<>> THEN TRUE ELSE @[f]]]
  /\ UNCHANGED <<lists, dup, ori, srt>>

-----------------------------------------------------------------------------
AudInit ==
  /\ lists \in Stocks
  /\ \/ dup = [pc |-> "start"] /\ ori = NotAsked /\ srt = NotAsked /\ segs = NotAsked
     \/ dup = NotAsked /\ ori = [pc |-> "start"] /\ srt = NotAsked /\ segs = NotAsked
     \/ /\ dup = NotAsked /\ ori = NotAsked /\ segs = NotAsked /\ lists = CHOOSE s \in Stocks : TRUE
        /\ \E n \in 0 .. MaxLength : \E levels \in [1 .. n -> AudLevel], desc \in BOOLEAN : srt = SortStarts(levels, desc)
     \/ /\ dup = NotAsked /\ ori = NotAsked /\ srt = NotAsked /\ lists = CHOOSE s \in Stocks : TRUE
        /\ \E dir \in {"asc", "desc"} :
             segs = [pc |-> "run", dir |-> dir, at |-> 0, inserts |-> 0, lock |-> [f \in AudFile |-> "free"],
                     list |-> [f \in AudFile |-> <<>>], state |-> [f \in AudFile |-> "unknown"],
                     bypass |-> [f \in AudFile |-> FALSE]]
DupStep == DuplicateStarts \/ SpawnDuplicate \/ AdvanceStart \/ SpawnEnds \/ JoinDuplicate
OriStep == (\E purge \in BOOLEAN : CollectOrigins(purge)) \/ OriginEnds
SegStep ==
  \/ \E f \in AudFile : SegInsert(f) \/ SegServe(f) \/ SegLooks(f) \/ SegSorts(f)
  \/ \E dir \in {"asc", "desc"} : SegSortFiles(dir) \/ SegSortAll(dir)
  \/ SegResetChecked
AudNext ==
  \/ DupStep \/ (\E t \in AudThread : check_duplicate_thread(t))
  \/ OriStep \/ (\E t \in OriThread : OriginLooks(t) \/ OriginMarks(t))
  \/ sort_one_file
  \/ SegStep
AudSpec == AudInit /\ [][AudNext]_audVars
\* The console thread and the threads it starts are scheduled by the system.
AudFairness ==
  /\ WF_audVars(DupStep) /\ WF_audVars(OriStep) /\ WF_audVars(sort_one_file)
  /\ \A t \in AudThread : WF_audVars(check_duplicate_thread(t))
  /\ \A t \in OriThread : WF_audVars(OriginLooks(t) \/ OriginMarks(t))
AudFairSpec == AudSpec /\ AudFairness

-----------------------------------------------------------------------------
\* docs/console.md, datamanager.h: checkDuplicate compares every pair of the two pools
\* and returns -1 when there is at least one duplicate or one root of a later one.
EveryPair == FlattenSeq([i \in 1 .. (2 * AudLists) |-> lists[i - 1]])
DuplicatesFound ==
  dup.pc = "end" =>
    (dup.result = -1 <=> \E j \in 1 .. Len(EveryPair) : \E i \in 1 .. (j - 1) : IsError(EveryPair[i], EveryPair[j]))

\* check_origin with purge, its threads flagging entries in any order: everything that
\* is removed has its root, or one copy of it, among what is kept, and what is kept
\* holds neither a copy nor a root of another: no branch of the search is lost and a
\* second purge finds nothing.
RootsKept ==
  (ori.pc = "end" /\ ori.purge) =>
    /\ Collected \subseteq ori.before
    /\ \A p \in ori.before \ Collected : \E q \in Collected : Same(q, p) \/ is_origin_of(q, p)
    /\ \A p, q \in Collected : p # q => ~ Same(p, q) /\ ~ is_origin_of(p, q)

\* The number reported is the number of flags, though two threads may find the same
\* entry: check_origin_thread counts with an atomic exchange.
FindsCountedOnce == ori.pc \in {"scan", "end"} => ori.found = Cardinality(ori.dups) + Cardinality(ori.descs)

\* What checkOrigin promises, whatever its threads do.
OriginsRight == RootsKept /\ FindsCountedOnce

\* sort_one_file_*: the moves while the list is walked leave it in order and lose nothing.
ListSorted ==
  srt.pc = "end" =>
    /\ ToSet(srt.list) = 1 .. Len(srt.level) /\ Len(srt.list) = Len(srt.level)
    /\ InOrder([i \in 1 .. Len(srt.list) |-> srt.level[srt.list[i]]], IF srt.desc THEN "desc" ELSE "asc")

\* sort_state is believed by the periodic sort: a list said to be in order is, unless a
\* command reordered it without a word to sort_state (sortAsc, sortDesc, their variants
\* by file, and resetChecked).
SortStateTrue ==
  segs.pc = "run" => \A f \in AudFile : (segs.state[f] # "unknown" /\ ~ segs.bypass[f]) => InOrder(segs.list[f], segs.state[f])

\* What the sorts of the lists promise.
SortRemembered == ListSorted /\ SortStateTrue

\* check_duplicate, check_origin and the sort of a list return, whatever the number of
\* threads they could start.
AuditEnds == <>(dup.pc \in {"idle", "end"}) /\ <>(ori.pc \in {"idle", "end"}) /\ <>(srt.pc \in {"idle", "end"})
=============================================================================
