----------------------------- MODULE StockImport -----------------------------
(***************************************************************************)
(* The restore of a backup on the server (restore_apply): the disk part of *)
(* the stock is replaced first, then the file is read, its records grouped *)
(* in blocks, and the blocks compressed and stacked in the RAM tier by     *)
(* worker threads, under the soft limit of the RAM cap; what the tier does *)
(* not take goes to the lists.  Then the analysed file.                    *)
(*                                                                         *)
(* Records are numbers, in the order of the file; record r is of pool      *)
(* r % 2 (0: not checked).  A block of n records holds n in memory, and    *)
(* n + 1 are reserved for it until it is compressed; a record in a list    *)
(* takes ListCost.                                                         *)
(***************************************************************************)
EXTENDS Integers, SequencesExt, FiniteSetsExt

CONSTANTS
  Backups,     \* the backups that may be restored
  ImpSettings,    \* [soft, spill, workers, fails]: limits, options and faults
  OldStock,    \* what the server holds: [lists, disk, analysed]
  MaxWorkers,  \* IMPORT_WORKERS_MAX
  Depth,       \* IMPORT_QUEUE_DEPTH
  NbLists,     \* nb_file_possibility
  ImpTarget,      \* tier_hook_import_block_bytes
  ImpCap,         \* datamanager_ram_limit_bytes
  ListCost     \* memory of a record in a list

ImpPool == 0 .. 1
ImpStack == ImpPool \X (0 .. (NbLists - 1))
ImpWorker == 1 .. MaxWorkers
ASSUME ImpAssumption ==
  /\ {Depth, NbLists, ImpTarget, ImpCap, ListCost} \subseteq Nat \ {0} /\ MaxWorkers \in Nat
  /\ Backups # {}
  /\ Backups \subseteq [readable : BOOLEAN, recs : Seq(Nat), kind : {"complete", "snapshot", "none"}, snap : SUBSET Nat,
                       mismatch : BOOLEAN, analysedOk : BOOLEAN, analysed : SUBSET Nat]
  /\ \A b \in Backups : IsInjective(b.recs)
  /\ ImpSettings \subseteq [soft : Nat, spill : BOOLEAN, workers : 0 .. MaxWorkers, fails : Nat]
  /\ OldStock \in [lists : SUBSET Nat, disk : SUBSET Nat, analysed : SUBSET Nat] /\ IsFiniteSet(OldStock.lists)

VARIABLES
  imp,       \* the thread that restores: restore_apply, import
  wk,        \* g_import_workers
  inflight,  \* g_import_inflight
  held,      \* the stock: [lists, tier, disk, kept, analysed]
  srv        \* [set, req, prev, maint, failed, result]
impVars == <<imp, wk, inflight, held, srv>>

NoBlock == [stack |-> <<0, 0>>, recs |-> <<>>, cost |-> 0]
NoWorker == [pc |-> "wait", head |-> 0, count |-> 0, slots |-> [i \in 0 .. (Depth - 1) |-> NoBlock], stop |-> FALSE]
Kept == [k \in ImpStack |-> <<>>]
NotImporting ==
  [pc |-> "idle", bk |-> CHOOSE b \in Backups : TRUE, pos |-> 1, buf |-> [p \in ImpPool |-> <<>>],
   nf |-> [p \in ImpPool |-> 0], active |-> TRUE, pool |-> 0, listing |-> <<>>, after |-> "read",
   seen |-> 0, start |-> 0, nb |-> 0, w |-> 0, aborted |-> FALSE, core |-> 0]

\* datamanager_resident_bytes: the lists and the records of the blocks of the tier,
\* each at its place <<<<stack, block>>, rank>>.
TierPlaces(tier) ==
  UNION {UNION {{<<k, b>>} \X DOMAIN tier[k][b] : b \in DOMAIN tier[k]} : k \in ImpStack}
ImpResident == ListCost * Cardinality(held.lists) + Cardinality(TierPlaces(held.tier))
Cost(block) == Len(block) + 1
\* Mutant: the blocks in flight are not counted.
OccupancyLinked == ImpResident
\* Read under the mutex that links a block and releases its reservation, so a
\* block is never counted on neither side.
import_occupancy == ImpResident + inflight

-----------------------------------------------------------------------------
(* restore_apply up to the import. *)
\* The search is paused, the maintenance window opened, and the disk part of the
\* stock is replaced by that of the backup (stock_spill_prepare_restore).
RestoreBegins(b) ==
  /\ imp.pc = "idle" /\ imp' = [NotImporting EXCEPT !.pc = "check", !.bk = b]
  /\ srv' = [srv EXCEPT !.prev = srv.req, !.req = IF @ = "continue" THEN "pause" ELSE @, !.maint = @ + 1]
  /\ held' = IF b.kind = "none" \/ ~ srv.set.spill THEN held
             ELSE [held EXCEPT !.kept = IF b.kind = "complete" THEN {} ELSE b.snap]
  /\ UNCHANGED <<wk, inflight>>

\* restore: an unreadable file changes nothing in the lists and the tier.
RestoreChecks ==
  /\ imp.pc = "check"
  /\ IF imp.bk.readable
     THEN /\ imp' = [imp EXCEPT !.pc = "read"]
          /\ held' = [held EXCEPT !.lists = {}, !.tier = Kept, !.disk = Kept]
     ELSE imp' = [imp EXCEPT !.pc = "leave", !.core = -1] /\ UNCHANGED held
  /\ UNCHANGED <<wk, inflight, srv>>

-----------------------------------------------------------------------------
(* import: records are read and put in the buffer of their pool, or in a list. *)
Block == imp.buf[imp.pool]
\* The tier is left, or has been: the block by the lists.
ToLists(i) == [i EXCEPT !.active = FALSE, !.listing = i.buf[i.pool], !.buf[i.pool] = <<>>, !.pc = "list"]
\* import_tier_add_raw; a full buffer is flushed first.
ReadRecord ==
  LET r == imp.bk.recs[imp.pos]
      p == r % 2
  IN  /\ imp.pc = "read" /\ imp.pos <= Len(imp.bk.recs)
      /\ \/ ~ imp.active /\ imp' = [imp EXCEPT !.listing = <<r>>, !.pos = @ + 1, !.pc = "list", !.after = "read"]
         \/ imp.active /\ IF Len(imp.buf[p]) < ImpTarget
                           THEN imp' = [imp EXCEPT !.buf[p] = Append(@, r), !.pos = @ + 1]
                           ELSE imp' = [imp EXCEPT !.pool = p, !.pc = "look", !.after = "read"]
      /\ UNCHANGED <<wk, inflight, held, srv>>

ReadEnds ==
  /\ imp.pc = "read" /\ imp.pos > Len(imp.bk.recs)
  /\ imp' = [imp EXCEPT !.pc = "final", !.pool = 0]
  /\ UNCHANGED <<wk, inflight, held, srv>>

\* What remains in the buffers of both pools; nothing after an interruption.
FinalFlush ==
  /\ imp.pc = "final"
  /\ \/ (imp.aborted \/ imp.pool = 2) /\ imp' = [imp EXCEPT !.pc = "finish"]
     \/ /\ ~ imp.aborted /\ imp.pool < 2
        /\ \/ Block = <<>> /\ imp' = [imp EXCEPT !.pool = @ + 1]
           \/ Block # <<>> /\ imp.active /\ imp' = [imp EXCEPT !.pc = "look", !.after = "final"]
           \/ Block # <<>> /\ ~ imp.active /\ imp' = [ToLists(imp) EXCEPT !.after = "final"]
  /\ UNCHANGED <<wk, inflight, held, srv>>

-----------------------------------------------------------------------------
(* tier_hook_import_push: room for the block, or a refusal. *)
\* What is in flight is read before the disk is tried.
LookInFlight ==
  /\ imp.pc = "look" /\ imp' = [imp EXCEPT !.seen = inflight, !.pc = "room"]
  /\ UNCHANGED <<wk, inflight, held, srv>>

NoneInTier == \A k \in ImpStack : held.tier[k] = <<>>
\* tier_to_disk_fullest: the blocks of the fullest stack, from the bottom.
Fullest(k) ==
  /\ held.tier[k] # <<>>
  /\ \A j \in ImpStack : Len(FlattenSeq(held.tier[j])) <= Len(FlattenSeq(held.tier[k]))
ToDisk(k) == [held EXCEPT !.disk[k] = @ \o FlattenSeq(held.tier[k]), !.tier[k] = <<>>]

RoomFound ==
  /\ imp.pc = "room" /\ import_occupancy + Cost(Block) <= srv.set.soft
  /\ imp' = [imp EXCEPT !.pc = "push"]
  /\ UNCHANGED <<wk, inflight, held, srv>>
RoomMade ==
  /\ imp.pc = "room" /\ import_occupancy + Cost(Block) > srv.set.soft
  /\ srv.set.spill /\ \E k \in ImpStack : Fullest(k) /\ held' = ToDisk(k)
  /\ imp' = [imp EXCEPT !.pc = "look"]
  /\ UNCHANGED <<wk, inflight, srv>>
\* The disk finds nothing to take: only what was in flight may make a difference,
\* and a block alone passes although it is larger than the limit.
ImpNoRoom ==
  /\ imp.pc = "room" /\ import_occupancy + Cost(Block) > srv.set.soft /\ (srv.set.spill => NoneInTier)
  /\ imp' = [imp EXCEPT !.pc = IF srv.set.spill /\ import_occupancy = 0 /\ imp.seen = 0 THEN "push" ELSE "refused"]
  /\ UNCHANGED <<wk, inflight, held, srv>>

\* Mutant: what is in flight is read when the disk has found nothing.
InFlightNow == inflight
InFlightSeen == imp.seen
\* import_wait_inflight(0), then another try; or the block is refused.
Refused ==
  /\ imp.pc = "refused"
  /\ imp' = IF InFlightSeen = 0 THEN [imp EXCEPT !.pc = "drain"]
            ELSE [imp EXCEPT !.pc = "waitOne", !.start = inflight]
  /\ UNCHANGED <<wk, inflight, held, srv>>
WaitOne ==
  /\ imp.pc = "waitOne" /\ (inflight = 0 \/ inflight # imp.start)
  /\ imp' = [imp EXCEPT !.pc = "look"]
  /\ UNCHANGED <<wk, inflight, held, srv>>

\* import_tier_flush after a refusal: this block, and all that follow, by the lists.
Drained ==
  /\ imp.pc = "drain" /\ inflight = 0
  /\ imp' = ToLists(imp)
  /\ UNCHANGED <<wk, inflight, held, srv>>

-----------------------------------------------------------------------------
(* import_enqueue. *)
Pushed(i) == [i EXCEPT !.w = 0, !.nf[i.pool] = (@ + 1) % NbLists, !.buf[i.pool] = <<>>, !.pc = i.after]
StackOf == <<imp.pool, imp.nf[imp.pool]>>
\* The blocks of a list all go to the same thread.
WorkerOf(list) == (list % imp.nb) + 1

\* import_workers_start, at the first block.
StartWorkers ==
  /\ imp.pc = "push" /\ imp.nb = 0 /\ srv.set.workers > 0
  /\ imp' = [imp EXCEPT !.nb = srv.set.workers]
  /\ wk' = [w \in ImpWorker |-> NoWorker]
  /\ UNCHANGED <<inflight, held, srv>>
\* No thread could be started: the block is linked at once, or the tier is left.
PushDirect ==
  /\ imp.pc = "push" /\ imp.nb = 0 /\ srv.set.workers = 0
  /\ \/ /\ held' = [held EXCEPT !.tier[StackOf] = Append(@, Block)]
        /\ imp' = Pushed(imp) /\ UNCHANGED srv
     \/ /\ srv.set.fails > 0
        /\ srv' = [srv EXCEPT !.set.fails = @ - 1, !.failed = TRUE]
        /\ imp' = ToLists(imp) /\ UNCHANGED held
  /\ UNCHANGED <<wk, inflight>>

Reserve ==
  /\ imp.pc = "push" /\ imp.nb > 0
  /\ inflight' = inflight + Cost(Block)
  /\ imp' = [imp EXCEPT !.pc = "slot", !.w = WorkerOf(StackOf[2])]
  /\ UNCHANGED <<wk, held, srv>>

\* Mutant: the slot of the block being compressed is taken.
QueueFullLate(w) == wk[w].count > Depth
QueueFull(w) == wk[w].count >= Depth
\* The slot is filled without the mutex, and counted after.
FillSlot ==
  LET w == imp.w
  IN  /\ imp.pc = "slot" /\ ~ QueueFull(w)
      /\ wk' = [wk EXCEPT ![w].slots[(wk[w].head + wk[w].count) % Depth] =
                            [stack |-> StackOf, recs |-> Block, cost |-> Cost(Block)]]
      /\ imp' = [imp EXCEPT !.pc = "publish"]
      /\ UNCHANGED <<inflight, held, srv>>
PublishSlot ==
  /\ imp.pc = "publish"
  /\ wk' = [wk EXCEPT ![imp.w].count = @ + 1]
  /\ imp' = Pushed(imp)
  /\ UNCHANGED <<inflight, held, srv>>

-----------------------------------------------------------------------------
(* import_worker_main, import_build_and_link. *)
Job(w) == wk[w].slots[wk[w].head]
WorkerTakes(w) ==
  /\ wk[w].pc = "wait" /\ wk[w].count > 0 /\ w <= imp.nb
  /\ wk' = [wk EXCEPT ![w].pc = "build"]
  /\ UNCHANGED <<imp, inflight, held, srv>>
\* The block is linked and its reservation released in one piece.
WorkerLinks(w) ==
  /\ wk[w].pc = "build"
  /\ held' = [held EXCEPT !.tier[Job(w).stack] = Append(@, Job(w).recs)]
  /\ inflight' = inflight - Job(w).cost
  /\ wk' = [wk EXCEPT ![w].pc = "pop"]
  /\ UNCHANGED <<imp, srv>>
\* No memory for the block: its records go to the list, and then
WorkerRefills(w) ==
  /\ wk[w].pc = "build" /\ srv.set.fails > 0
  /\ held' = [held EXCEPT !.lists = @ \cup ToSet(Job(w).recs)]
  /\ srv' = [srv EXCEPT !.set.fails = @ - 1, !.failed = TRUE]
  /\ wk' = [wk EXCEPT ![w].pc = "release"]
  /\ UNCHANGED <<imp, inflight>>
Released(cost) == cost
WorkerReleases(w) ==
  /\ wk[w].pc = "release"
  /\ inflight' = inflight - Released(Job(w).cost)
  /\ wk' = [wk EXCEPT ![w].pc = "pop"]
  /\ UNCHANGED <<imp, held, srv>>
\* The slot is free again.
WorkerPops(w) ==
  /\ wk[w].pc = "pop"
  /\ wk' = [wk EXCEPT ![w].pc = "wait", ![w].head = (@ + 1) % Depth, ![w].count = @ - 1]
  /\ UNCHANGED <<imp, inflight, held, srv>>
WorkerExits(w) ==
  /\ wk[w].pc = "wait" /\ wk[w].count = 0 /\ wk[w].stop
  /\ wk' = [wk EXCEPT ![w].pc = "exit"]
  /\ UNCHANGED <<imp, inflight, held, srv>>
WorkerStep(w) ==
  \/ WorkerTakes(w) \/ WorkerLinks(w) \/ WorkerRefills(w) \/ WorkerReleases(w) \/ WorkerPops(w) \/ WorkerExits(w)

-----------------------------------------------------------------------------
(* add_possibility_waiting_for_room: by the lists, under the RAM cap. *)
ListFits == ImpResident + ListCost <= ImpCap
ListAdds ==
  /\ imp.pc = "list" /\ imp.listing # <<>> /\ ListFits
  /\ held' = [held EXCEPT !.lists = @ \cup {Head(imp.listing)}]
  /\ imp' = [imp EXCEPT !.listing = Tail(@)]
  /\ UNCHANGED <<wk, inflight, srv>>
\* stock_spill_relieve: blocks of the tier, else records of the lists, go to disk.
ListRelief ==
  /\ imp.pc = "list" /\ imp.listing # <<>> /\ ~ ListFits /\ srv.req # "stop" /\ srv.set.spill
  /\ \/ \E k \in ImpStack : Fullest(k) /\ held' = ToDisk(k)
     \/ /\ NoneInTier /\ held.lists # {}
        /\ LET r == Min(held.lists)
           IN  held' = [held EXCEPT !.lists = @ \ {r}, !.disk[<<r % 2, 0>>] = Append(@, r)]
  /\ UNCHANGED <<imp, wk, inflight, srv>>
\* Refused while the program stops: the import is interrupted.
ListAborts ==
  /\ imp.pc = "list" /\ imp.listing # <<>> /\ ~ ListFits /\ srv.req = "stop"
  /\ imp' = [imp EXCEPT !.aborted = TRUE, !.listing = <<>>, !.pc = "final"]
  /\ UNCHANGED <<wk, inflight, held, srv>>
ListEnds ==
  /\ imp.pc = "list" /\ imp.listing = <<>>
  /\ imp' = [imp EXCEPT !.pc = imp.after]
  /\ UNCHANGED <<wk, inflight, held, srv>>

-----------------------------------------------------------------------------
(* The end of the import and of the restore. *)
\* tier_hook_import_finish: the threads stop once their queue is empty ...
Finish ==
  /\ imp.pc = "finish"
  /\ wk' = [w \in ImpWorker |-> IF w <= imp.nb THEN [wk[w] EXCEPT !.stop = TRUE] ELSE wk[w]]
  /\ imp' = [imp EXCEPT !.pc = "join"]
  /\ UNCHANGED <<inflight, held, srv>>
\* ... and are joined.
Join ==
  /\ imp.pc = "join" /\ \A w \in 1 .. imp.nb : wk[w].pc = "exit"
  /\ wk' = [w \in ImpWorker |-> NoWorker]
  /\ imp' = [imp EXCEPT !.nb = 0, !.pc = IF imp.aborted THEN "leave" ELSE "analysed", !.core = IF imp.aborted THEN -1 ELSE 0]
  /\ UNCHANGED <<inflight, held, srv>>

\* restore_analysed; a record whose list stays locked is left out, and not counted.
RestoreAnalysed ==
  /\ imp.pc = "analysed"
  /\ IF imp.bk.analysedOk
     THEN /\ \/ held' = [held EXCEPT !.analysed = imp.bk.analysed]
             \/ /\ srv.set.fails > 0
                /\ \E r \in imp.bk.analysed : held' = [held EXCEPT !.analysed = imp.bk.analysed \ {r}]
          /\ imp' = [imp EXCEPT !.pc = "leave"]
     ELSE imp' = [imp EXCEPT !.pc = "leave", !.core = -1] /\ UNCHANGED held
  /\ UNCHANGED <<wk, inflight, srv>>

\* The window is closed, and the search resumes unless it was stopped meanwhile.
RestoreLeaves ==
  /\ imp.pc = "leave"
  /\ srv' = [srv EXCEPT !.maint = @ - 1, !.req = IF @ = "pause" THEN srv.prev ELSE @,
                        !.result = IF imp.core = 0 /\ ~ imp.bk.mismatch THEN "ok" ELSE "failed"]
  /\ imp' = [imp EXCEPT !.pc = "end"]
  /\ UNCHANGED <<wk, inflight, held>>

\* The operator stops the server.
OperatorStops ==
  /\ srv.req # "stop" /\ imp.pc \notin {"idle", "end"}
  /\ srv' = [srv EXCEPT !.req = "stop"]
  /\ UNCHANGED <<imp, wk, inflight, held>>

ImpInit ==
  /\ imp = NotImporting /\ wk = [w \in ImpWorker |-> NoWorker] /\ inflight = 0
  /\ held = [lists |-> OldStock.lists, tier |-> Kept, disk |-> Kept, kept |-> OldStock.disk, analysed |-> OldStock.analysed]
  /\ \E s \in ImpSettings : srv = [set |-> s, req |-> "continue", prev |-> "continue", maint |-> 0, failed |-> FALSE,
                                result |-> "none"]
ReaderStep ==
  \/ RestoreChecks \/ ReadRecord \/ ReadEnds \/ FinalFlush \/ LookInFlight \/ RoomFound \/ RoomMade \/ ImpNoRoom
  \/ Refused \/ WaitOne \/ Drained \/ StartWorkers \/ PushDirect \/ Reserve \/ FillSlot \/ PublishSlot
  \/ ListAdds \/ ListRelief \/ ListAborts \/ ListEnds \/ Finish \/ Join \/ RestoreAnalysed \/ RestoreLeaves
ImpNext ==
  \/ \E b \in Backups : RestoreBegins(b)
  \/ ReaderStep \/ OperatorStops
  \/ \E w \in ImpWorker : WorkerStep(w)
ImpSpec == ImpInit /\ [][ImpNext]_impVars

-----------------------------------------------------------------------------
(* Properties. *)
\* The blocks a thread has in its queue, but for one that is linked already.
Queued(w) ==
  LET from == IF wk[w].pc \in {"pop", "release"} THEN 1 ELSE 0
  IN  IF wk[w].count <= from THEN <<>>
      ELSE FlattenSeq([j \in 1 .. (wk[w].count - from) |-> wk[w].slots[(wk[w].head + from + j - 1) % Depth].recs])
StackSeq == SetToSeq(ImpStack)
ImpPlaced(f) == FlattenSeq([i \in 1 .. Len(StackSeq) |-> f[StackSeq[i]]])
InStock ==
  ImpPlaced(held.disk) \o ImpPlaced([k \in ImpStack |-> FlattenSeq(held.tier[k])]) \o SetToSeq(held.lists)
\* Every record read so far is in one place: a buffer, the queue of a thread, the
\* tier, the disk or a list.  No block is overwritten in its slot while it is
\* compressed, left in a queue when the threads stop, or put twice.
ImportWhole ==
  LET all == InStock \o imp.buf[0] \o imp.buf[1] \o imp.listing
             \o FlattenSeq([w \in 1 .. MaxWorkers |-> Queued(w)])
  IN  imp.pc \notin {"idle", "check"} /\ imp.bk.readable /\ ~ imp.aborted =>
        Len(all) = imp.pos - 1 /\ ToSet(all) = {imp.bk.recs[i] : i \in 1 .. (imp.pos - 1)}

\* The blocks of a stack are in the order of the file, those on disk below those of
\* the tier, although several threads compress them (the comment above IMPORT_WORKERS_MAX).
StackOrder ==
  imp.active /\ ~ srv.failed =>
    \A k \in ImpStack :
      LET s == held.disk[k] \o FlattenSeq(held.tier[k])
      IN  \A i, j \in 1 .. Len(s) : i < j => s[i] < s[j]

\* While blocks go to the tier, the memory of the stock stays under the soft limit,
\* or is that of a single block: no thread links what was not reserved.
MemoryBounded ==
  imp.active /\ ~ srv.failed /\ imp.pc \notin {"idle", "check"} /\ imp.bk.readable =>
    ImpResident <= Max({srv.set.soft, ImpTarget})

\* The tier is given up only when it is full for good: nothing is in flight, and with
\* a disk no block of the tier was left to send there (the comment of
\* tier_hook_import_push: a block linked after the disk was tried, and the current one
\* wrongly refused).
RefusedWhenFull ==
  [][imp.active /\ ~ imp'.active /\ ~ srv'.failed =>
       inflight = 0 /\ ImpResident + Cost(Block) > srv.set.soft /\ (srv.set.spill => NoneInTier)]_impVars

\* A restore ends, unless the lists are full, there is no disk to relieve them and
\* nobody stops the server.
ImportOver ==
  \/ imp.pc = "end"
  \/ imp.pc = "list" /\ ~ ListFits /\ ~ srv.set.spill /\ srv.req # "stop"
ImportEnds == imp.pc = "check" ~> ImportOver
=============================================================================
