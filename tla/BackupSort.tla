----------------------------- MODULE BackupSort -----------------------------
(***************************************************************************)
(* eternityII sortback (backup_sort.c): the external sort of a backup.     *)
(* Two buffers: one is filled from the input while the other is sorted by  *)
(* several threads and written as a run of blocks with an index.  The runs *)
(* are then merged by ranges of keys, each range by one thread into a part *)
(* file, and the parts are joined into the output, renamed at the end.     *)
(* SortInput is the reader of a compressed input.                          *)
(***************************************************************************)
EXTENDS Integers, SequencesExt, FiniteSetsExt

CONSTANTS
  SortJobs,       \* [input, fault, start]: what to sort, the step that may fail, the files there
  SortThreads,    \* number of sorting threads
  RefCap,         \* records a buffer holds
  SliceMin,       \* records below which a thread is not worth it: 4096
  SamplesPer,     \* PER, samples of a slice
  BlockRecs,      \* records of a block of a run (RUN_BLOCK_RAW)
  RangesPer       \* RANGES_PER_THREAD

\* A record: the part of its key that an index entry keeps (KEY_PFX), the rest of
\* the key, and the header, that the canonical form resets and that orders last.
Rec(t, s, h) == <<t, s, h>>
BadRec == <<-1, 0, 0>>
\* Names of files: the output, the sidecar of its overflow, the work files.
OutName == <<"out", 0>>
SidecarName == <<"sidecar", 0>>
TmpName == <<"tmp", 0>>
ASSUME SortAssumption ==
  /\ {SortThreads, RefCap, SliceMin, SamplesPer, BlockRecs, RangesPer} \subseteq Nat \ {0}
  /\ \A j \in SortJobs : j.start \subseteq {OutName, SidecarName}

VARIABLES
  sortJob,   \* the settings
  sm,        \* the main thread: [pc, pos, cur, more, rc, runs]; rc "direct": all fitted in a buffer
  buf,       \* buf[0], buf[1]: batch_t
  rjob,      \* [pc, b, run, rc]: the thread that sorts a buffer and writes a run
  mrg,       \* [bounds, next, failed, records, part]: merge_ctl_t and the part files
  mth,       \* mth[t] = [pc, r, ok]: merge_worker_main
  sortDisk       \* [files, run, tmp, out]: names present, and contents
sortVars == <<sortJob, sm, buf, rjob, mrg, mth, sortDisk>>

-----------------------------------------------------------------------------
(* The sort of one buffer. *)
tkey(r) == r[1]
backup_sort_record_cmp(a, b) ==   \* a before b
  a[1] < b[1] \/ (a[1] = b[1] /\ (a[2] < b[2] \/ (a[2] = b[2] /\ a[3] < b[3])))
packet_codec_canonicalize(r) == [r EXCEPT ![3] = 0]
Sorted(q) == SortSeq(q, backup_sort_record_cmp)
Keys(q) == [i \in DOMAIN q |-> tkey(q[i])]

\* The heap over the heads of sorted sequences: the least one, until all are empty.
MergeStep(st, j) ==
  LET live == {i \in DOMAIN st.rest : st.rest[i] # <<>>}
      m == CHOOSE i \in live : \A k \in live : ~ backup_sort_record_cmp(Head(st.rest[k]), Head(st.rest[i]))
  IN  [rest |-> [st.rest EXCEPT ![m] = Tail(@)], out |-> Append(st.out, Head(st.rest[m]))]
KMerge(seqs) ==
  LET n == FoldLeft(LAMBDA acc, q : acc + Len(q), 0, seqs)
  IN  FoldLeft(MergeStep, [rest |-> seqs, out |-> <<>>], [j \in 1 .. n |-> j]).out

lower_bound(q, key) == Cardinality({i \in DOMAIN q : backup_sort_record_cmp(q[i], key)})
Slices(q) ==
  LET n == Len(q)
      k == Min({SortThreads, (n \div SliceMin) + 1})
      per == n \div k
  IN  [t \in 1 .. k |-> Sorted(SubSeq(q, (t - 1) * per + 1, IF t = k THEN n ELSE t * per))]

Sample(slices) ==
  Sorted(FlattenSeq([t \in DOMAIN slices |->
    [i \in 1 .. (IF slices[t] = <<>> THEN 0 ELSE SamplesPer) |->
       slices[t][(((i - 1) * Len(slices[t])) \div SamplesPer) + 1]]]))
\* Where range j + 1 begins in slice t: at the j-th of the bounds taken from the sample.
CutEven(slices, sample, j, t) == (j * Len(slices[t])) \div Len(slices)   \* mutant: every slice cut in equal parts
Cut(slices, sample, j, t) == lower_bound(slices[t], sample[((j * Len(sample)) \div Len(slices)) + 1])
merge_slices_parallel(slices) ==
  LET k == Len(slices)
      sample == Sample(slices)
      cut == [j \in 0 .. k |-> [t \in 1 .. k |->
               IF j = 0 THEN 0 ELSE IF j = k THEN Len(slices[t])
               ELSE Max({Cut(slices, sample, i, t) : i \in 1 .. j})]]
  IN  IF sample = <<>> THEN <<>>
      ELSE FlattenSeq([j \in 1 .. k |->
             KMerge([t \in 1 .. k |-> SubSeq(slices[t], cut[j - 1][t] + 1, cut[j][t])])])
batch_sort(q) == merge_slices_parallel(Slices([i \in DOMAIN q |-> packet_codec_canonicalize(q[i])]))

-----------------------------------------------------------------------------
(* Runs, their index, and the merge of a range of keys. *)
Blocks(run) == (Len(run) + BlockRecs - 1) \div BlockRecs
idx_key(run, i) == tkey(run[(i - 1) * BlockRecs + 1])   \* the first key of block i
BlocksBelow(run, lo) == Cardinality({i \in 1 .. Blocks(run) : idx_key(run, i) < lo})
run_seek(run, lo) == Max({0, BlocksBelow(run, lo) - 1})

choose_bounds(runs, want) ==
  LET total == FoldLeft(LAMBDA acc, q : acc + Blocks(q), 0, runs)
      step == IF total > want * 64 THEN total \div (want * 64) ELSE 1
      keys == FlattenSeq([i \in DOMAIN runs |->
                [j \in 1 .. ((Blocks(runs[i]) + step - 1) \div step) |-> idx_key(runs[i], (j - 1) * step + 1)]])
      s == SortSeq(keys, <)
      add(acc, j) == LET c == s[((j * Len(s)) \div want) + 1]
                     IN  IF acc = <<>> \/ acc[Len(acc)] < c THEN Append(acc, c) ELSE acc
  IN  IF s = <<>> THEN <<>> ELSE FoldLeft(add, <<>>, [j \in 1 .. (want - 1) |-> j])

\* Range r: from bounds[r - 1] on, before bounds[r].
FromBound(run, lo) ==
  LET rest == SubSeq(run, run_seek(run, lo) * BlockRecs + 1, Len(run))
      below == {i \in DOMAIN rest : \A j \in 1 .. i : tkey(rest[j]) < lo}
  IN  SubSeq(rest, Cardinality(below) + 1, Len(rest))
merge_range(runs, bounds, r) ==
  LET all == KMerge([i \in DOMAIN runs |-> IF r = 1 THEN runs[i] ELSE FromBound(runs[i], bounds[r - 1])])
      before == {i \in DOMAIN all : \A j \in 1 .. i : tkey(all[j]) < bounds[r]}
  IN  IF r > Len(bounds) THEN all ELSE SubSeq(all, 1, Cardinality(before))
Ranges == 1 .. (Len(mrg.bounds) + 1)

-----------------------------------------------------------------------------
(* backup_sort: the main thread and the thread of the run. *)
Fails(step) == sortJob.fault = step   \* the step may fail
GoTo(pc) == sm' = [sm EXCEPT !.pc = pc]
EndWith(code) == sm' = [sm EXCEPT !.pc = "close", !.rc = code]
AddRecord(names) == sortDisk.files \cup names

\* The output is never overwritten; a backup whose overflow is elsewhere is refused.
OpenInput ==
  /\ sm.pc = "open"
  /\ sm' = IF OutName \in sortDisk.files THEN [sm EXCEPT !.pc = "done", !.rc = "exists"]
           ELSE IF SidecarName \in sortDisk.files THEN [sm EXCEPT !.pc = "done", !.rc = "incomplete"]
           ELSE [sm EXCEPT !.pc = "fill"]
  /\ UNCHANGED <<sortJob, buf, rjob, mrg, mth, sortDisk>>

\* batch_fill; a file that ends inside a record is an error when its end is met.
BatchFill ==
  LET last == Min({sm.pos + RefCap, Len(sortJob.input)})
      n == last - sm.pos
      more == n = RefCap
  IN  /\ sm.pc = "fill"
      /\ buf' = [buf EXCEPT ![sm.cur] = SubSeq(sortJob.input, sm.pos + 1, last)]
      /\ IF ~ more /\ Fails("torn") THEN EndWith("input")
         ELSE sm' = [sm EXCEPT !.pos = last, !.more = more,
                !.pc = IF ~ more /\ sm.runs = 0 /\ rjob.pc = "none" THEN "direct" ELSE "join"]
      /\ UNCHANGED <<sortJob, rjob, mrg, mth, sortDisk>>

\* All of it fits: sorted and written at once.
Direct ==
  /\ sm.pc = "direct"
  /\ \/ /\ BadRec \notin Range(buf[sm.cur])
        /\ sortDisk' = [sortDisk EXCEPT !.files = AddRecord({TmpName}), !.tmp = batch_sort(buf[sm.cur])]
        /\ sm' = [sm EXCEPT !.pc = "close", !.rc = "direct"]
     \/ BadRec \in Range(buf[sm.cur]) /\ EndWith("input") /\ UNCHANGED sortDisk
     \/ Fails("write") /\ sortDisk' = [sortDisk EXCEPT !.files = AddRecord({TmpName})] /\ EndWith("io")
  /\ UNCHANGED <<sortJob, buf, rjob, mrg, mth>>

\* pthread_join of the run under way, before the next one is started.
JoinRun ==
  /\ sm.pc = "join" /\ rjob.pc \in {"none", "end"}
  /\ IF rjob.pc = "end" /\ rjob.rc # "ok" THEN EndWith(rjob.rc) ELSE GoTo("spawn")
  /\ rjob' = [rjob EXCEPT !.pc = "none"]
  /\ UNCHANGED <<sortJob, buf, mrg, mth, sortDisk>>

AfterSpawn == IF sm.more THEN "fill" ELSE "close"
NewRun ==
  \/ /\ buf[sm.cur] = <<>> /\ GoTo(AfterSpawn) /\ UNCHANGED <<rjob, sortDisk>>
  \/ /\ buf[sm.cur] # <<>>
     /\ sortDisk' = [sortDisk EXCEPT !.files = AddRecord({<<"run", sm.runs + 1>>}), !.run = Append(@, <<>>)]
     /\ rjob' = [pc |-> "sort", b |-> sm.cur, run |-> sm.runs + 1, rc |-> "ok"]
     /\ sm' = [sm EXCEPT !.pc = AfterSpawn, !.runs = @ + 1, !.cur = 1 - @]
  \/ /\ buf[sm.cur] # <<>> /\ Fails("run")
     /\ sortDisk' = [sortDisk EXCEPT !.files = AddRecord({<<"run", sm.runs + 1>>}), !.run = Append(@, <<>>)]
     /\ sm' = [sm EXCEPT !.pc = "close", !.rc = "io", !.runs = @ + 1] /\ UNCHANGED rjob
SpawnRun == sm.pc = "spawn" /\ NewRun /\ UNCHANGED <<sortJob, buf, mrg, mth>>

\* run_job_main: the buffer is read while the main thread fills the other.
RunSorts ==
  /\ rjob.pc = "sort"
  /\ IF BadRec \in Range(buf[rjob.b]) THEN rjob' = [rjob EXCEPT !.pc = "end", !.rc = "input"] /\ UNCHANGED sortDisk
     ELSE /\ rjob' = [rjob EXCEPT !.pc = "write"]
          /\ sortDisk' = [sortDisk EXCEPT !.run[rjob.run] = batch_sort(buf[rjob.b])]
  /\ UNCHANGED <<sortJob, sm, buf, mrg, mth>>
RunWritten ==
  /\ rjob.pc = "write"
  /\ \E rc \in {"ok"} \cup (IF Fails("write") THEN {"io"} ELSE {}) : rjob' = [rjob EXCEPT !.pc = "end", !.rc = rc]
  /\ UNCHANGED <<sortJob, sm, buf, mrg, mth, sortDisk>>

\* The last join, in_close, and the start of the merge with its bounds.
CloseInput ==
  LET rc == IF rjob.pc = "end" /\ rjob.rc # "ok" /\ sm.rc = "ok" THEN rjob.rc ELSE sm.rc
  IN  /\ sm.pc = "close" /\ rjob.pc \in {"none", "end"}
      /\ rjob' = [rjob EXCEPT !.pc = "none"]
      /\ sm' = [sm EXCEPT !.rc = rc, !.pc = IF rc = "ok" THEN "merge" ELSE "clean"]
      /\ mrg' = IF rc # "ok" THEN mrg
                ELSE [mrg EXCEPT !.bounds = choose_bounds(sortDisk.run, SortThreads * RangesPer)]
      /\ mth' = IF rc # "ok" THEN mth ELSE [t \in DOMAIN mth |-> [mth[t] EXCEPT !.pc = "claim"]]
      /\ UNCHANGED <<sortJob, buf, sortDisk>>

\* merge_worker_main: a range is claimed under the mutex; a thread that failed
\* says so at its next claim.
Claim(t) ==
  LET failed == mrg.failed \/ ~ mth[t].ok
  IN  /\ mth[t].pc = "claim"
      /\ mrg' = [mrg EXCEPT !.failed = failed, !.next = @ + 1]
      /\ mth' = [mth EXCEPT ![t].pc = IF failed \/ mrg.next \notin Ranges THEN "end" ELSE "range", ![t].r = mrg.next]
      /\ UNCHANGED <<sortJob, sm, buf, rjob, sortDisk>>
MergeRange(t) ==
  LET r == mth[t].r
      part == merge_range(sortDisk.run, mrg.bounds, r)
  IN  /\ mth[t].pc = "range"
      /\ \E ok \in {TRUE} \cup (IF Fails("part") THEN {FALSE} ELSE {}) :
           mth' = [mth EXCEPT ![t].pc = "claim", ![t].ok = ok]
      /\ mrg' = [mrg EXCEPT !.part[r] = part, !.records = @ + Len(part)]
      /\ sortDisk' = [sortDisk EXCEPT !.files = AddRecord({<<"part", r>>})]
      /\ UNCHANGED <<sortJob, sm, buf, rjob>>

\* merge_runs after the threads: the runs are removed, the count is compared,
\* the parts are joined in the order of the ranges and removed.
RunNames == {<<"run", i>> : i \in 1 .. sm.runs}
PartNamesIfOk(ok) == IF ok THEN {<<"part", r>> : r \in Ranges} ELSE {}   \* mutant: kept after a failure
PartsRemoved(ok) == {<<"part", r>> : r \in Ranges}
JoinParts ==
  /\ sm.pc = "merge" /\ \A t \in DOMAIN mth : mth[t].pc = "end"
  /\ \E wrote \in {TRUE} \cup (IF Fails("join") THEN {FALSE} ELSE {}) :
       LET counted == ~ mrg.failed /\ mrg.records = sm.pos
           ok == counted /\ wrote
           whole == FlattenSeq([r \in Ranges |-> mrg.part[r]])
       IN  /\ sortDisk' = [sortDisk EXCEPT !.files = ((@ \ RunNames) \ PartsRemoved(ok)) \cup (IF counted THEN {TmpName} ELSE {}),
                                   !.tmp = IF ok THEN whole ELSE <<>>]
           /\ sm' = [sm EXCEPT !.pc = "clean", !.rc = IF ok THEN "ok" ELSE "io"]
  /\ UNCHANGED <<sortJob, buf, rjob, mrg, mth>>

\* runs_unlink, the rename, and the temporary file removed after a failure.
SortFinish ==
  /\ sm.pc = "clean"
  /\ \E moved \in {TRUE} \cup (IF Fails("rename") THEN {FALSE} ELSE {}) :
       LET good == sm.rc \in {"ok", "direct"} /\ moved
       IN  /\ sortDisk' = [sortDisk EXCEPT !.files = ((@ \ RunNames) \ {TmpName}) \cup (IF good THEN {OutName} ELSE {}),
                                   !.out = IF good THEN sortDisk.tmp ELSE @]
           /\ sm' = [sm EXCEPT !.pc = "done", !.rc = IF good THEN "ok" ELSE IF @ \in {"ok", "direct"} THEN "io" ELSE @]
  /\ UNCHANGED <<sortJob, buf, rjob, mrg, mth>>

SortInit ==
  /\ sortJob \in SortJobs
  /\ sm = [pc |-> "open", pos |-> 0, cur |-> 0, more |-> TRUE, rc |-> "ok", runs |-> 0]
  /\ buf = [b \in {0, 1} |-> <<>>]
  /\ rjob = [pc |-> "none", b |-> 0, run |-> 0, rc |-> "ok"]
  /\ mrg = [bounds |-> <<>>, next |-> 1, failed |-> FALSE, records |-> 0,
            part |-> [r \in 1 .. (SortThreads * RangesPer) |-> <<>>]]
  /\ mth = [t \in 1 .. SortThreads |-> [pc |-> "off", r |-> 0, ok |-> TRUE]]
  /\ sortDisk = [files |-> sortJob.start, run |-> <<>>, tmp |-> <<>>, out |-> <<>>]
SortMain == OpenInput \/ BatchFill \/ Direct \/ JoinRun \/ SpawnRun \/ CloseInput \/ JoinParts \/ SortFinish
SortNext == SortMain \/ RunSorts \/ RunWritten \/ (\E t \in 1 .. SortThreads : Claim(t) \/ MergeRange(t))
SortSpec == SortInit /\ [][SortNext]_sortVars

-----------------------------------------------------------------------------
(* Properties *)
Canonical(q) == [i \in DOMAIN q |-> packet_codec_canonicalize(q[i])]

\* The output holds exactly the records of the input, canonical and in order,
\* whatever the number of threads, the buffers, the blocks and the ranges
\* (backup_sort.h: the same multiset, the result does not depend on the threads).
SortedOutput ==
  sm.pc = "done" /\ sm.rc = "ok" => sortDisk.out = Sorted(Canonical(sortJob.input))

\* A sort that ends leaves the output and no work file; one that fails leaves
\* what was there before it (backup_sort.h: no partial output, no work file).
SortLeavesNoTrace ==
  sm.pc = "done" => sortDisk.files = sortJob.start \cup (IF sm.rc = "ok" THEN {OutName} ELSE {})

\* A readable input is sorted when no step fails: the ranges share the records
\* of the runs without a hole or an overlap, and the count agrees.
CleanSortSucceeds ==
  sm.pc = "done" /\ sortJob.fault = "none" /\ sortJob.start = {} /\ BadRec \notin Range(sortJob.input)
    => sm.rc = "ok"
=============================================================================
