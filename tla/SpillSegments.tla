--------------------------- MODULE SpillSegments ---------------------------
(***************************************************************************)
(* The part of the stock that is on disk (stock_spill.c): a stack of       *)
(* segment files for each list, written and reloaded at its top; the       *)
(* snapshot an autobackup takes of it, which shares the files that are     *)
(* full with the live stack (hard links); the reset of the checked stacks, *)
(* segment by segment from the bottom while the stock is served; a restart *)
(* and the restore of the snapshot, perhaps with fewer lists.              *)
(*                                                                         *)
(* A file (an inode) is its names and a sequence of frames; a frame is a    *)
(* sequence of records, and the size of a file its number of frames.       *)
(***************************************************************************)
EXTENDS Integers, SequencesExt, FiniteSetsExt

CONSTANTS
  Recs,        \* possibilities: 1 .. n
  NbFiles,     \* --stock-files, one of 1 .. NbFiles
  FramesPer,  \* spill_segment_records
  MaxSeq,      \* bound: segments of a stack
  Budgets,     \* bound: how many <<snapshots, reloads, restarts or restores>>
  Lists,       \* bound: the stacks that are written
  Races        \* which of RaceKinds may happen; see the end of this module

RaceKinds == {"clobber", "reload", "window", "crash"}
SegPool == {"u", "c"}
SegStack == SegPool \X (0 .. (NbFiles - 1))
ASSUME SegAssumption ==
  /\ {NbFiles, FramesPer, MaxSeq} \subseteq Nat \ {0} /\ Budgets \subseteq Nat \X Nat \X Nat
  /\ Lists \subseteq SegStack
  /\ Recs \subseteq Nat \ {0} /\ Races \subseteq RaceKinds

VARIABLES
  fs,       \* the files: [names, frames], the names of both directories
  desc,     \* g_spill_unchecked, g_spill_checked
  ram,      \* ram[p]: the records in the lists of pool p
  rl,       \* the reload under way (stock_spill_reload)
  rst,      \* the segment being reset (spill_reset_checked_file_progressive)
  man,      \* the manifest of the snapshot, and the backup that goes with it
  nb,       \* nb_file_possibility
  sp        \* [pc, result, lost, and the three counts]: backup, restart and restore
segVars == <<fs, desc, ram, rl, rst, man, nb, sp>>

NoStack == [first |-> 0, last |-> 0, tail |-> 0, records |-> 0, packets |-> 0]
NoReload == [pc |-> "none", k |-> <<"u", 0>>, from |-> 0, recs |-> <<>>]
NoReset == [pc |-> "none", f |-> 0, seq |-> 0, frames |-> <<>>, moved |-> FALSE]
NoManifest == [there |-> FALSE, entry |-> [k \in SegStack |-> [segs |-> 0, packets |-> 0, tail |-> 0]],
               ram |-> [p \in SegPool |-> {}], stock |-> [k \in SegStack |-> <<>>]]

RecordsOf(frames) == FlattenSeq(frames)

-----------------------------------------------------------------------------
(* Files.  s = [files, desc]: the file system and the descriptors. *)
SegLive(k, q) == <<"live", k, q>>
SegSnap(k, q) == <<"snap", k, q>>
Exists(s, n) == \E f \in s.files : n \in f.names
FileAt(s, n) == CHOOSE f \in s.files : n \in f.names
Data(s, n) == IF Exists(s, n) THEN FileAt(s, n).frames ELSE <<>>
Shared(s, n) == Exists(s, n) /\ FileAt(s, n).names # {n}
Create(s, n, frames) == [s EXCEPT !.files = @ \cup {[names |-> {n}, frames |-> frames]}]
SetData(s, n, frames) ==
  [s EXCEPT !.files = (@ \ {FileAt(s, n)}) \cup {[FileAt(s, n) EXCEPT !.frames = frames]}]
Link(s, n, new) ==
  IF ~ Exists(s, n) THEN s
  ELSE [s EXCEPT !.files = (@ \ {FileAt(s, n)}) \cup {[FileAt(s, n) EXCEPT !.names = @ \cup {new}]}]
\* unlink: a file goes with its last name.
Unlink(s, n) ==
  IF ~ Exists(s, n) THEN s
  ELSE [s EXCEPT !.files = (@ \ {FileAt(s, n)})
          \cup (IF Shared(s, n) THEN {[FileAt(s, n) EXCEPT !.names = @ \ {n}]} ELSE {})]

\* Mutant: a file that is linked is cut in place.
TrimInPlace(s, n, tail) ==
  IF Len(Data(s, n)) <= tail THEN s ELSE SetData(s, n, SubSeq(Data(s, n), 1, tail))
\* The file is cut to the logical top before an addition; a file the snapshot
\* shares is copied to a file of its own.
spill_trim_segment_to_tail(s, n, tail) ==
  LET cut == SubSeq(Data(s, n), 1, tail)
  IN  IF Len(Data(s, n)) <= tail THEN s
      ELSE IF ~ Shared(s, n) THEN SetData(s, n, cut)
      ELSE Create(Unlink(s, n), n, cut)

\* The segment below becomes the top: its size is believed.
spill_load_top(s, k) ==
  LET frames == Data(s, SegLive(k, s.desc[k].last))
  IN  [s EXCEPT !.desc[k].tail = Len(frames), !.desc[k].records = Len(RecordsOf(frames))]
spill_drop_top(s, k) ==
  LET d == s.desc[k]
      t == [Unlink(s, SegLive(k, d.last)) EXCEPT !.desc[k].last = @ - 1]
  IN  IF d.last = d.first THEN [t EXCEPT !.desc[k] = [NoStack EXCEPT !.packets = d.packets]]
      ELSE spill_load_top(t, k)
DropEmptyTops(s, k) == IF s.desc[k].last # 0 /\ s.desc[k].tail = 0 THEN spill_drop_top(s, k) ELSE s

Rolls(s, k, n) == s.desc[k].records > 0 /\ s.desc[k].records + n > FramesPer
spill_prepare_top(s, k, n) ==
  LET d == s.desc[k]
  IN  IF d.last = 0 THEN [s EXCEPT !.desc[k] = [NoStack EXCEPT !.first = 1, !.last = 1, !.packets = d.packets]]
      ELSE IF ~ Rolls(s, k, n) THEN s
      ELSE [spill_trim_segment_to_tail(s, SegLive(k, d.last), d.tail)
              EXCEPT !.desc[k].last = @ + 1, !.desc[k].tail = 0, !.desc[k].records = 0]

\* One frame added at the top.
append_frame(s, k, frame) ==
  LET a == spill_prepare_top(s, k, Len(frame))
      n == SegLive(k, a.desc[k].last)
      b == spill_trim_segment_to_tail(a, n, a.desc[k].tail)
      c == IF ~ Exists(b, n) THEN Create(b, n, <<frame>>) ELSE SetData(b, n, Append(Data(b, n), frame))
  IN  [c EXCEPT !.desc[k].tail = @ + 1, !.desc[k].records = @ + Len(frame), !.desc[k].packets = @ + Len(frame)]

\* stock_spill_write_block: the records in frames that fill the top, then new ones.
SegRoom(s, k) ==
  LET r == FramesPer - s.desc[k].records IN IF s.desc[k].last = 0 \/ r <= 0 THEN FramesPer ELSE r
WritePart(st, j) ==
  LET n == Min({SegRoom(st.s, st.k), Len(st.rest)})
  IN  IF n = 0 THEN st
      ELSE [st EXCEPT !.s = append_frame(st.s, st.k, SubSeq(st.rest, 1, n)),
                      !.rest = SubSeq(st.rest, n + 1, Len(st.rest))]
stock_spill_write_block(s, k, recs) ==
  FoldLeft(WritePart, [s |-> s, k |-> k, rest |-> recs], [j \in 1 .. Len(recs) |-> j]).s

State == [files |-> fs, desc |-> desc]
SetState(s) == fs' = s.files /\ desc' = s.desc
Fits(s) == \A k \in SegStack : s.desc[k].last <= MaxSeq

\* What the stack of list k holds, bottom first.
SegFrames(s, k, q) ==
  LET all == Data(s, SegLive(k, q)) IN IF q < s.desc[k].last THEN all ELSE SubSeq(all, 1, Min({s.desc[k].tail, Len(all)}))
Held(s, k) ==
  IF s.desc[k].last = 0 THEN <<>>
  ELSE FlattenSeq([j \in 1 .. (s.desc[k].last - s.desc[k].first + 1) |->
         RecordsOf(SegFrames(s, k, s.desc[k].first + j - 1))])
Stack == {k \in SegStack : k[2] < nb}

-----------------------------------------------------------------------------
(* Additions and reloads at the top. *)
Smallest(set, n) == SubSeq(SetToSortSeq(set, <), 1, Min({n, Cardinality(set)}))
\* The frames of one addition: one of one or two records, or two of one.
Batches(set) ==
  LET one == Smallest(set, 1)
      two == Smallest(set, 2)
  IN  IF set = {} THEN {} ELSE {<<one>>, <<two>>, [j \in 1 .. Len(two) |-> <<two[j]>>]}

\* A frame written in a file the snapshot shares, and of the same size.
SharedTop(s, k) ==
  LET n == SegLive(k, s.desc[k].last)
  IN  s.desc[k].last # 0 /\ Shared(s, n) /\ Len(Data(s, n)) = s.desc[k].tail
WritesShared(s, k, frame) == SharedTop(s, k) /\ ~ Rolls(s, k, Len(frame))
ReloadOn(k) == rl.pc # "none" /\ rl.k = k
RaceAllowed(k, frame) ==
  (ReloadOn(k) => "reload" \in Races) /\ (WritesShared(State, k, frame) => "clobber" \in Races)

\* tier_to_disk (spill_append_frames_locked): the frames are acquired when their
\* segment is synchronised.
AppendFrames(k) ==
  \E b \in Batches(ram[k[1]]) :
    LET s == FoldLeft(LAMBDA acc, f : append_frame(acc, k, f), State, b)
    IN  /\ k \in Stack \cap Lists /\ sp.pc = "served" /\ Fits(s)
        /\ RaceAllowed(k, b[1])
        /\ SetState(s)
        /\ ram' = [ram EXCEPT ![k[1]] = @ \ ToSet(RecordsOf(b))]
        /\ UNCHANGED <<rl, rst, man, nb, sp>>

\* A write or a synchronisation that fails: a frame of a new segment goes with its
\* file, another stays in the file beyond the logical top.
AppendFails(k) ==
  \E b \in Batches(ram[k[1]]) :
    LET s == append_frame(State, k, b[1])
        undone == IF s.desc[k].last # desc[k].last THEN Unlink(s, SegLive(k, s.desc[k].last)) ELSE s
    IN  /\ k \in Stack \cap Lists /\ sp.pc = "served" /\ Len(b) = 1 /\ Fits(s) /\ desc[k].last # 0
        /\ RaceAllowed(k, b[1])
        /\ SetState([undone EXCEPT !.desc = desc])
        /\ UNCHANGED <<ram, rl, rst, man, nb, sp>>

\* stock_spill_evict without the RAM tier.
Evict(k) ==
  \E n \in 1 .. 2 :
    LET recs == Smallest(ram[k[1]], n)
        s == stock_spill_write_block(State, k, recs)
    IN  /\ k \in Stack \cap Lists /\ sp.pc = "served" /\ Len(recs) = n /\ Fits(s)
        /\ RaceAllowed(k, SubSeq(recs, 1, Min({n, SegRoom(State, k)})))
        /\ SetState(s)
        /\ ram' = [ram EXCEPT ![k[1]] = @ \ ToSet(recs)]
        /\ UNCHANGED <<rl, rst, man, nb, sp>>

\* Nothing the maintenance window keeps out of a snapshot, of what was begun before it.
OutsideSnapshot == sp.pc = "served" \/ (sp.pc = "manifest" /\ "window" \in Races)

\* stock_spill_reload: frames are read from the top, under the mutex ...
SegReloadRead(k) ==
  LET s == DropEmptyTops(State, k)
      frames == SegFrames(s, k, s.desc[k].last)
  IN  /\ k \in Stack /\ OutsideSnapshot /\ rl.pc = "none" /\ desc[k].packets > 0
      /\ sp.reloads > 0
      /\ s.desc[k].last # 0 /\ frames # <<>>
      /\ \E from \in 0 .. (Len(frames) - 1) :
           rl' = [pc |-> "read", k |-> k, from |-> from, recs |-> RecordsOf(SubSeq(frames, from + 1, Len(frames)))]
      /\ SetState(s)
      /\ rst' = IF s.desc[k] # desc[k] /\ rst.f = k[2] /\ k[1] = "c" THEN [rst EXCEPT !.moved = TRUE] ELSE rst
      /\ sp' = [sp EXCEPT !.reloads = @ - 1]
      /\ UNCHANGED <<ram, man, nb>>

\* ... put in the lists (datamanager_pool_refill, under the lock of the list) ...
SegReloadRefill ==
  /\ rl.pc = "read" /\ sp.pc = "served"
  /\ ram' = [ram EXCEPT ![rl.k[1]] = @ \cup ToSet(rl.recs)]
  /\ rl' = [rl EXCEPT !.pc = "refilled"]
  /\ UNCHANGED <<fs, desc, rst, man, nb, sp>>

\* ... and the top comes down to where they began.
SegReloadCommit ==
  LET k == rl.k
      d == desc[k]
      low == [State EXCEPT !.desc[k] = [d EXCEPT !.tail = rl.from, !.records = Max({@ - Len(rl.recs), 0}),
                                                 !.packets = @ - Len(rl.recs)]]
  IN  /\ rl.pc = "refilled" /\ OutsideSnapshot
      /\ SetState(IF rl.from = 0 /\ d.last # 0 THEN spill_drop_top(low, k) ELSE low)
      /\ rst' = IF rl.from = 0 /\ rst.f = k[2] /\ k[1] = "c" THEN [rst EXCEPT !.moved = TRUE] ELSE rst
      /\ rl' = NoReload
      /\ UNCHANGED <<ram, man, nb, sp>>

-----------------------------------------------------------------------------
(* resetChecked: segments of a checked stack become tops of the unchecked one. *)
\* spill_reset_commit_locked: the rewritten frames on top of the other stack, then
\* the source removed.
spill_reset_commit(s, f, frames) ==
  LET u == <<"u", f>>
      c == <<"c", f>>
      a == DropEmptyTops(s, u)
      d == a.desc[u]
      b == IF d.last = 0 THEN a ELSE spill_trim_segment_to_tail(a, SegLive(u, d.last), d.tail)
      n == Len(RecordsOf(frames))
      to == [first |-> IF d.last = 0 THEN 1 ELSE d.first, last |-> d.last + 1, tail |-> Len(frames), records |-> n,
             packets |-> d.packets + n]
      e == IF frames = <<>> THEN s ELSE [Create(b, SegLive(u, d.last + 1), frames) EXCEPT !.desc[u] = to]
      old == e.desc[c]
  IN  [Unlink(e, SegLive(c, old.first)) EXCEPT
         !.desc[c] = IF old.first = old.last THEN NoStack
                     ELSE [old EXCEPT !.first = @ + 1, !.packets = Max({@ - n, 0})]]

\* The bottom segment is read and rewritten without the mutex ...
ResetBegins(f) ==
  LET d == desc[<<"c", f>>]
  IN  /\ rst.pc = "none" /\ sp.pc = "served" /\ <<"c", f>> \in Stack /\ d.last # 0 /\ d.first # d.last
      /\ rst' = [pc |-> "rewritten", f |-> f, seq |-> d.first, frames |-> SegFrames(State, <<"c", f>>, d.first),
                 moved |-> FALSE]
      /\ UNCHANGED <<fs, desc, ram, rl, man, nb, sp>>

\* Mutant: that the stack went down to the segment and up again is not seen.
SameSegmentNumber(d) == d.first = rst.seq /\ d.last # rst.seq
\* ... and committed if it is still the bottom of a stack that has not gone down
\* (drops) or been replaced (generation) meanwhile; dropped otherwise.
SameSegment(d) == d.first = rst.seq /\ d.last # rst.seq /\ ~ rst.moved
ResetCommits ==
  LET f == rst.f
      s == spill_reset_commit(State, f, rst.frames)
  IN  /\ rst.pc = "rewritten"
      /\ IF SameSegment(desc[<<"c", f>>])
         THEN /\ (ReloadOn(<<"u", f>>) => "reload" \in Races) /\ Fits(s) /\ OutsideSnapshot
              /\ SetState(s)
         ELSE UNCHANGED <<fs, desc>>
      /\ rst' = NoReset
      /\ UNCHANGED <<ram, rl, man, nb, sp>>

\* A single segment left, and the last pass of resetChecked: under the mutex.
ResetFile(s, f) ==
  LET c == <<"c", f>>
  IN  FoldLeft(LAMBDA acc, q : spill_reset_commit(acc, f, SegFrames(acc, c, q)), s,
               [j \in 1 .. (s.desc[c].last - s.desc[c].first + 1) |-> s.desc[c].first + j - 1])
ResetLocked(f) ==
  LET s == ResetFile(State, f)
  IN  /\ rst.pc = "none" /\ OutsideSnapshot /\ <<"c", f>> \in Stack /\ desc[<<"c", f>>].last # 0
      /\ (ReloadOn(<<"u", f>>) \/ ReloadOn(<<"c", f>>)) => "reload" \in Races
      /\ Fits(s) /\ SetState(s)
      /\ UNCHANGED <<ram, rl, rst, man, nb, sp>>

-----------------------------------------------------------------------------
(* The snapshot of an autobackup, always in the same directory. *)
Sealed(k) == IF desc[k].last = 0 THEN <<>> ELSE [j \in 1 .. (desc[k].last - desc[k].first) |-> desc[k].first + j - 1]
\* spill_link_or_copy unless it is the same file already.
LinkSealed(s, k, q) ==
  LET to == SegSnap(k, q - s.desc[k].first + 1)
  IN  IF ~ Exists(s, SegLive(k, q)) \/ to \in FileAt(s, SegLive(k, q)).names THEN s
      ELSE Link(Unlink(s, to), SegLive(k, q), to)
\* spill_copy_file: opened for writing, the copy is emptied, then filled.
TopCopy(k) == SegSnap(k, desc[k].last - desc[k].first + 1)
CopyTop(s, k) ==
  LET top == SegLive(k, desc[k].last)
      frames == SubSeq(Data(s, top), 1, desc[k].tail)
  IN  IF ~ Exists(s, TopCopy(k)) THEN Create(s, TopCopy(k), frames)
      ELSE SetData(s, TopCopy(k), IF FileAt(s, TopCopy(k)) = FileAt(s, top) THEN <<>> ELSE frames)
SnapshotOf(s, k) ==
  LET linked == FoldLeft(LAMBDA acc, q : LinkSealed(acc, k, q), s, Sealed(k))
  IN  IF desc[k].last = 0 THEN s ELSE CopyTop(linked, k)
\* The copy of the top is emptied while a live stack has it as one of its files.
Clobbers(k) ==
  LET linked == FoldLeft(LAMBDA acc, q : LinkSealed(acc, k, q), State, Sealed(k))
  IN  desc[k].last # 0 /\ Shared(linked, TopCopy(k))

SegSnapshot ==
  /\ sp.pc = "served" /\ sp.snapshots > 0
  /\ (\E k \in SegStack : Clobbers(k)) => "clobber" \in Races
  /\ rl.pc = "refilled" => "window" \in Races
  /\ SetState(FoldLeft(LAMBDA acc, k : SnapshotOf(acc, k), State, SetToSeq(SegStack)))
  /\ sp' = [sp EXCEPT !.pc = "manifest", !.snapshots = @ - 1]
  /\ UNCHANGED <<ram, rl, rst, man, nb>>

\* Files beyond the segments of a stack are removed, the manifest is written, then
\* the files of the backup are published with the count (.spillcount).
SegManifest ==
  LET count(k) == IF desc[k].last = 0 THEN 0 ELSE desc[k].last - desc[k].first + 1
      stale == {n \in UNION {f.names : f \in fs} : n[1] = "snap" /\ n[3] > count(n[2])}
  IN  /\ sp.pc = "manifest"
      /\ SetState(FoldLeft(LAMBDA acc, n : Unlink(acc, n), State, SetToSeq(stale)))
      /\ man' = [there |-> TRUE,
                 entry |-> [k \in SegStack |-> IF desc[k].packets > 0
                              THEN [segs |-> count(k), packets |-> desc[k].packets, tail |-> desc[k].tail]
                              ELSE [segs |-> 0, packets |-> 0, tail |-> 0]],
                 ram |-> ram, stock |-> [k \in SegStack |-> Held(State, k)]]
      /\ sp' = [sp EXCEPT !.pc = "served", !.lost = FALSE]
      /\ UNCHANGED <<ram, rl, rst, nb>>

-----------------------------------------------------------------------------
(* Restart and restore. *)
\* A segment of the snapshot disappears or becomes unreadable.
LoseSegment ==
  /\ sp.pc = "served" /\ man.there /\ ~ sp.lost
  /\ \E k \in SegStack, q \in 1 .. MaxSeq :
       q <= man.entry[k].segs /\ Exists(State, SegSnap(k, q)) /\ SetState(Unlink(State, SegSnap(k, q)))
  /\ sp' = [sp EXCEPT !.lost = TRUE]
  /\ UNCHANGED <<ram, rl, rst, man, nb>>

\* spill_purge_live_segments and new descriptors: at the start, and before a restore.
PurgeLive(s) ==
  LET live == {n \in UNION {f.names : f \in s.files} : n[1] = "live"}
  IN  [FoldLeft(LAMBDA acc, n : Unlink(acc, n), s, SetToSeq(live))
         EXCEPT !.desc = [k \in SegStack |-> NoStack]]

\* The server dies and starts again, with as many lists or fewer (stock_spill_configure).
Restart ==
  /\ sp.restarts > 0 /\ man.there
  /\ sp.pc = "manifest" => "crash" \in Races
  /\ \E n \in 1 .. NbFiles : nb' = n
  /\ SetState(PurgeLive(State))
  /\ ram' = [p \in SegPool |-> {}] /\ rl' = NoReload /\ rst' = NoReset
  /\ sp' = [sp EXCEPT !.pc = "empty", !.restarts = @ - 1]
  /\ UNCHANGED man

Sources(k) == {old \in 0 .. (NbFiles - 1) : man.entry[<<k[1], old>>].segs > 0 /\ old % nb = k[2]}
SnapFrames(s, e, old, q) ==
  LET all == Data(s, SegSnap(old, q)) IN SubSeq(all, 1, IF q = e.segs THEN Min({e.tail, Len(all)}) ELSE Len(all))
\* Every segment is there with its records, and the count is that of the manifest.
GroupWhole(s, e, old) ==
  /\ \A q \in 1 .. e.segs : Exists(s, SegSnap(old, q))
  /\ Len(Data(s, SegSnap(old, e.segs))) >= e.tail
  /\ Len(FlattenSeq([q \in 1 .. e.segs |-> RecordsOf(SnapFrames(s, e, old, q))])) = e.packets

\* One source for the list: its full segments are linked, its top is copied.
LinkGroup(s, k, f) ==
  LET old == <<k[1], f>>
      e == man.entry[old]
      linked == FoldLeft(LAMBDA acc, q : Link(acc, SegSnap(old, q), SegLive(k, q)), s, [q \in 1 .. (e.segs - 1) |-> q])
      top == SnapFrames(s, e, old, e.segs)
      placed == Create(linked, SegLive(k, e.segs), top)
  IN  IF ~ GroupWhole(s, e, old) THEN s
      ELSE [placed EXCEPT !.desc[k] = [first |-> 1, last |-> e.segs, tail |-> e.tail, records |-> Len(RecordsOf(top)),
                                       packets |-> e.packets]]
\* Several: each is read, what remains of it, and written again.
Repack(s, k) ==
  FoldLeft(LAMBDA acc, f :
             FoldLeft(LAMBDA a2, q : stock_spill_write_block(a2, k, RecordsOf(SnapFrames(a2, man.entry[<<k[1], f>>], <<k[1], f>>, q))),
                      acc, [q \in 1 .. man.entry[<<k[1], f>>].segs |-> q]),
           s, SetToSortSeq(Sources(k), <))
RestoreStack(s, k) ==
  CASE Sources(k) = {} -> s
    [] Cardinality(Sources(k)) = 1 -> LinkGroup(s, k, CHOOSE f \in Sources(k) : TRUE)
    [] OTHER -> Repack(s, k)
\* The count of the backup's .spillcount, and what stock_spill_restore_snapshot
\* says it placed.
Expected == FoldSet(LAMBDA k, acc : acc + man.entry[k].packets, 0, SegStack)
Placed(s) == FoldSet(LAMBDA k, acc : acc + s.desc[k].packets, 0, SegStack)

\* stock_spill_prepare_restore, then the import of the lists: a count that differs
\* from the backup's is reported, and what remains is restored.
Restore ==
  LET s == FoldLeft(RestoreStack, PurgeLive(State), SetToSeq(Stack))
  IN  /\ sp.pc = "empty" \/ (sp.pc = "served" /\ sp.restarts > 0)
      /\ man.there /\ sp.result = "none"
      /\ rl.pc # "none" => "reload" \in Races
      /\ Fits(s) /\ SetState(s)
      /\ ram' = man.ram
      /\ rst' = [rst EXCEPT !.moved = TRUE]
      /\ sp' = [sp EXCEPT !.pc = "served", !.result = IF Placed(s) = Expected THEN "ok" ELSE "incomplete"]
      /\ UNCHANGED <<rl, man, nb>>

SegInit ==
  /\ fs = {}
  /\ desc = [k \in SegStack |-> NoStack]
  /\ \E c \in {{}, Recs, Recs \ {Max(Recs)}} : ram = [p \in SegPool |-> IF p = "c" THEN c ELSE Recs \ c]
  /\ rl = NoReload /\ rst = NoReset /\ man = NoManifest
  /\ nb = NbFiles
  /\ \E b \in Budgets : sp = [pc |-> "served", restarts |-> b[3], snapshots |-> b[1], reloads |-> b[2],
                               result |-> "none", lost |-> FALSE]
SegNext ==
  \/ \E k \in SegStack : AppendFrames(k) \/ AppendFails(k) \/ Evict(k) \/ SegReloadRead(k)
  \/ SegReloadRefill \/ SegReloadCommit \/ ResetCommits \/ SegSnapshot \/ SegManifest \/ LoseSegment \/ Restart \/ Restore
  \/ \E f \in 0 .. (NbFiles - 1) : ResetBegins(f) \/ ResetLocked(f)

-----------------------------------------------------------------------------
(* Properties.  Four races of the code break them, and each is a constant of  *)
(* the model: "clobber", the copy of a top onto a file that the live stack    *)
(* shares with the snapshot, or a write in such a file; "reload", the commit  *)
(* of a reload after something else moved the top; "window", a snapshot       *)
(* between two steps of a reload or of a reset begun before it; "crash", a    *)
(* crash between the files of a snapshot and the backup that goes with it.    *)

\* Every possibility is in one place: in a list, or once in the frames that the
\* descriptors reach.  So a failed write, the cut of a file, the reset of a segment
\* while the stack moves, and a restore neither lose nor repeat one.
StockInOnePlace ==
  LET onDisk(k) == IF ReloadOn(k) /\ rl.pc = "refilled"
                   THEN SubSeq(Held(State, k), 1, Len(Held(State, k)) - Len(rl.recs)) ELSE Held(State, k)
      all == FlattenSeq([i \in 1 .. Cardinality(SegStack) |-> onDisk(SetToSeq(SegStack)[i])])
             \o SetToSeq(ram["u"]) \o SetToSeq(ram["c"])
  IN  sp.pc # "empty" /\ sp.result # "incomplete" /\ (sp.result = "none" \/ ~ sp.lost) => Len(all) = Cardinality(Recs) /\ ToSet(all) = Recs

\* A descriptor counts what its files hold, and its top segment what the segment
\* holds up to the logical top: with the size of a file that was cut late, or a
\* bottom taken by a reset, a wrong count stops a reload or repeats a frame.
CountsHeld ==
  \A k \in SegStack : desc[k].packets = Len(Held(State, k))
                      /\ (desc[k].last # 0 => desc[k].records = Len(RecordsOf(SegFrames(State, k, desc[k].last))))

\* The snapshot stays what the backup saved, although its files are shared with a
\* live stack that is written, cut, reloaded, reset and restored
\* (spill_trim_segment_to_tail: a cut in place would amputate the snapshot).
SnapshotKept ==
  sp.pc = "served" /\ man.there /\ ~ sp.lost =>
    \A k \in SegStack : FlattenSeq([q \in 1 .. man.entry[k].segs |-> RecordsOf(SnapFrames(State, man.entry[k], k, q))])
                        = man.stock[k]

\* A restore that reports nothing has put back all that was on disk; with a
\* segment missing it says so, and nothing else of the snapshot is lost.
RestoreToldRight ==
  [][sp.result = "none" /\ sp'.result # "none" =>
       LET back == UNION {ToSet(Held(State', k)) : k \in SegStack}
           had == UNION {ToSet(man.stock[k]) : k \in SegStack}
       IN  (sp'.result = "ok") <=> (back = had)]_segVars

\* What the commit of a reload takes off the disk is what the reload has put in the
\* list ("maintenant que les possibilités sont confirmées en RAM, on peut reculer le
\* sommet logique (ou supprimer le segment) sans risque", stock_spill_reload): the
\* frames above the place it will cut at are still those it has read.
CutIsReloaded ==
  rl.pc = "refilled" =>
    LET top == SegFrames(State, rl.k, desc[rl.k].last)
    IN  RecordsOf(SubSeq(top, rl.from + 1, Len(top))) = rl.recs
=============================================================================
