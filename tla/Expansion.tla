----------------------------- MODULE Expansion ------------------------------
(***************************************************************************)
(* expand_datas_to_level: the unchecked stock is developed level by level  *)
(* until its possibilities reach a target level.  A pass drains the lists  *)
(* into a private work file, marks what the tier and the disk hold, and    *)
(* lets several threads develop what was there before it: batches taken    *)
(* under ps->lock, one reader of the disk at a time, children stored one   *)
(* by one under the RAM cap or by blocks in the tier, eviction on demand.  *)
(***************************************************************************)
EXTENDS SpillTiers

CONSTANTS
  Threads,        \* expand_threads
  Nodes,          \* the possibilities of the tree below the stock
  Children,       \* children that survive the light pruning
  Proved,         \* possibilities the short proof refutes
  Level,          \* alloc of a possibility
  Target,         \* target_level
  Settings,       \* what the server is started with: [tier, disk, clients, spiller, stops : BOOLEAN,
                  \* maxStock (expand_max_stock), faults, start : the stock]
  MaxLevels,      \* expand_max_levels
  MaxBatch,       \* EXPAND_BATCH
  BlockRecords,   \* children of a private block
  PrefetchLow,    \* possibilities left below which the disk is read ahead
  Retries,        \* EXPAND_DISK_ROOM_RETRIES
  ReliefMax       \* DATAMANAGER_RAM_RELIEF_BLOCK

NoNode == "none"
NoRoom == -2
Failed == -1

VARIABLES
  set,     \* the settings of the server
  stock,   \* [pool, tier, disk, deferred]
  spill,   \* [evicting, wanted, active, bseq, btail, hand]: the spill thread, the marks on disk
  pass,    \* expand_pass_t
  thr,     \* the threads of the pass
  driver,  \* expand_datas_to_level itself
  stop,    \* request = REQUEST_STOP
  faults,  \* what may still fail, once each: a read, an allocation of the drain, a sweep of put_to_pool
  hist     \* what happened to the nodes

expVars == <<set, stock, spill, pass, thr, driver, stop, faults, hist>>

NoHist == [roots |-> {}, born |-> {}, developed |-> {}, early |-> {}, dropped |-> {}, given |-> {},
           twice |-> {}, missed |-> {}]
NoPass == [work |-> <<>>, hold |-> <<>>, busy |-> 0, refilling |-> FALSE, owner |-> 0,
           diskPhase |-> FALSE, diskLeft |-> FALSE, cap |-> FALSE, aborted |-> FALSE,
           ramWait |-> FALSE, ramSlowed |-> FALSE, shallowDeferred |-> FALSE,
           shallowProduced |-> FALSE, expandedAny |-> FALSE, produced |-> 0,
           returned |-> 0]
Idle == [pc |-> "end", batch |-> <<>>, isHold |-> FALSE, holding |-> FALSE, kids |-> <<>>,
         block |-> <<>>, item |-> NoNode, after |-> "end", count |-> FALSE, waited |-> FALSE,
         reason |-> FALSE, retried |-> FALSE, ahead |-> FALSE, priv |-> <<>>, privHold |-> <<>>,
         r |-> 0, seq |-> 0, idle |-> 0, moved |-> 0, low |-> 0, pressed |-> FALSE,
         lot |-> {}, back |-> "end"]

InHand == UNION {Range(thr[t].batch) \cup Range(thr[t].kids) \cup Range(thr[t].block)
                  \cup ({thr[t].item} \ {NoNode}) \cup thr[t].lot : t \in Threads}
\* Records a refill has read but not yet taken from where it reads them.
Reading == UNION {Range(thr[t].priv) \cup Range(thr[t].privHold) :
                     t \in {u \in Threads : thr[u].pc \in {"commit", "unlink"}}}
Read == UNION {Range(thr[t].priv) \cup Range(thr[t].privHold) : t \in Threads} \ Reading
Below == stock.pool \cup TierSet(stock.tier) \cup DiskSet(stock.disk) \cup spill.hand
Places == Below \cup Range(pass.work) \cup Range(pass.hold) \cup Read \cup InHand

WorkCount == Len(pass.work) + Len(pass.hold)
             + FoldSet(LAMBDA t, n : n + Len(thr[t].batch) + Len(thr[t].priv) + Len(thr[t].privHold),
                       0, Threads)
\* datamanager_resident_bytes: lists, tier and the files of the expansion.
Resident == ListBytes(stock) + PacketBytes * WorkCount
HasHeadroom == Resident < Cap

-----------------------------------------------------------------------------
(* The relief asked for when the cap refuses: one step of the spill        *)
(* policy in the thread's own time (the reloads are suspended).            *)
Wanted == spill.wanted > 0 /\ spill.wanted < Cap /\ Resident > Cap - spill.wanted
evict_target == IF Wanted /\ Cap - spill.wanted < Low THEN Cap - spill.wanted ELSE Low
Evicting == IF spill.evicting THEN Resident > Low ELSE Resident >= High

\* stock_spill_relieve up to its first move.
ReliefBegins(t) ==
  /\ spill' = [spill EXCEPT !.evicting = (set.tier \/ set.disk) /\ Evicting]
  /\ thr' = [thr EXCEPT ![t].pc = "relief", ![t].moved = 0,
                        ![t].pressed = (set.tier \/ set.disk) /\ (Evicting \/ Wanted),
                        ![t].low = IF Evicting \/ Wanted THEN evict_target ELSE 0]

\* One move of the tier, under its mutex; nothing when the call is over.
ReliefMove(t) ==
  LET left == ReliefMax - thr[t].moved
      pressed == thr[t].pressed
  IN  IF left <= 0 \/ (pressed /\ set.tier /\ Resident <= thr[t].low) THEN stock
      ELSE IF set.tier /\ pressed THEN tier_evict_turn(stock, left, set.disk, spill.active)
      ELSE IF set.tier THEN tier_evict(stock, pool_over_buffer(stock, left))
      ELSE stock

ReliefTurn(t) ==
  /\ thr[t].pc = "relief" /\ ReliefMove(t) # stock
  /\ stock' = ReliefMove(t)
  /\ thr' = [thr EXCEPT ![t].moved = @ + Moved(stock, ReliefMove(t))]
  /\ UNCHANGED <<set, spill, pass, driver, stop, faults, hist>>

\* Without the tier stock_spill_evict drains a list, once a call, under its lock ...
ReliefEvicts(t) ==
  ~ set.tier /\ set.disk /\ thr[t].pressed /\ thr[t].moved = 0 /\ stock.pool # {}
ReliefDrains(t) ==
  /\ thr[t].pc = "relief" /\ ReliefEvicts(t)
  /\ LET recs == Some(ReliefMax, stock.pool)
     IN  /\ stock' = [stock EXCEPT !.pool = @ \ recs]
         /\ thr' = [thr EXCEPT ![t].pc = "evict", ![t].lot = recs]
  /\ UNCHANGED <<set, spill, pass, driver, stop, faults, hist>>
\* ... and appends the lot to the disk later, under g_spill_mutex.
ReliefAppends(t) ==
  /\ thr[t].pc = "evict"
  /\ stock' = [stock EXCEPT !.disk = spill_append_frame(@, thr[t].lot)]
  /\ thr' = [thr EXCEPT ![t].pc = "relief", ![t].lot = {}, ![t].moved = Cardinality(thr[t].lot)]
  /\ UNCHANGED <<set, spill, pass, driver, stop, faults, hist>>
Relieved(t) == thr[t].pc = "relief" /\ ReliefMove(t) = stock /\ ~ ReliefEvicts(t)

-----------------------------------------------------------------------------
(* add_possibility_waiting_for_room: a possibility is in hand (item) until *)
(* the pool takes it.                                                      *)
Store(t, node, after, count) ==
  [thr[t] EXCEPT !.pc = "store", !.item = node, !.after = after, !.count = count,
                 !.waited = FALSE, !.reason = FALSE, !.retried = FALSE]

Room == Resident + PacketBytes <= Cap
Counted(n) == Min({n + 1, set.maxStock})   \* only compared with the maximum
\* expand_pass_store once the wait is over; produced is counted by expand_pass_insert.
StoreEnds(t, kept, p) ==
  /\ pass' = [p EXCEPT !.aborted = @ \/ ~ kept,
                       !.ramWait = @ \/ (thr[t].reason /\ ~ set.disk),
                       !.ramSlowed = @ \/ (thr[t].reason /\ set.disk),
                       !.produced = IF thr[t].count THEN Counted(@) ELSE @]
  /\ thr' = [thr EXCEPT ![t] = [@ EXCEPT !.pc = thr[t].after, !.item = NoNode, !.after = "end",
                !.count = FALSE, !.waited = FALSE, !.reason = FALSE, !.retried = FALSE]]

StoreAdds(t) ==
  /\ thr[t].pc = "store" /\ Room
  /\ stock' = [stock EXCEPT !.pool = @ \cup {thr[t].item}]
  /\ StoreEnds(t, TRUE, pass)
  /\ UNCHANGED <<set, spill, driver, stop, faults, hist>>

\* put_to_pool gives up after its sweeps; the lot may be in the list all the same.
StoreBusy(t) ==
  /\ thr[t].pc = "store" /\ Room /\ "busy" \in faults
  /\ faults' = faults \ {"busy"}
  /\ \E inList \in BOOLEAN :
       /\ hist' = [hist EXCEPT !.twice = IF inList THEN @ \cup {thr[t].item} ELSE @,
                               !.dropped = IF stop THEN @ \cup {thr[t].item} ELSE @]
       /\ stock' = IF inList THEN [stock EXCEPT !.pool = @ \cup {thr[t].item}] ELSE stock
  /\ IF stop THEN StoreEnds(t, FALSE, pass)
     ELSE thr' = [thr EXCEPT ![t].waited = TRUE, ![t].retried = FALSE] /\ UNCHANGED pass
  /\ UNCHANGED <<set, spill, driver, stop>>

StoreRefused(t) ==
  /\ thr[t].pc = "store" /\ ~ Room
  /\ IF stop
     THEN /\ hist' = [hist EXCEPT !.dropped = @ \cup {thr[t].item}]
          /\ StoreEnds(t, FALSE, pass)
          /\ UNCHANGED spill
     ELSE /\ ReliefBegins(t)
          /\ UNCHANGED <<pass, hist>>
  /\ UNCHANGED <<set, stock, driver, stop, faults>>

\* expand_return_work_to_pool, when the work file alone holds the cap.
ReturnWork ==
  LET n == Min({ReliefMax, Len(pass.work)})
  IN  /\ stock' = [stock EXCEPT !.pool = @ \cup Range(SubSeq(pass.work, 1, n))]
      /\ pass' = [pass EXCEPT !.work = SubSeq(@, n + 1, Len(@)), !.returned = @ + n]

StoreRelieved(t) ==
  /\ Relieved(t) /\ thr[t].item # NoNode /\ pass.owner = 0
  /\ LET gives == thr[t].moved <= 0 /\ stock.pool = {}
         back == IF gives THEN Min({ReliefMax, Len(pass.work)}) ELSE 0
         moved == thr[t].moved > 0 \/ back > 0
     IN  /\ IF back > 0 THEN ReturnWork ELSE UNCHANGED <<stock, pass>>
         /\ thr' = [thr EXCEPT ![t].pc = "store", ![t].moved = 0, ![t].low = 0, ![t].pressed = FALSE,
               ![t].retried = ~ moved /\ ~ @,
               ![t].reason = @ \/ (~ moved /\ thr[t].retried /\ thr[t].waited),
               ![t].waited = @ \/ (~ moved /\ thr[t].retried)]
  /\ UNCHANGED <<set, spill, driver, stop, faults, hist>>
-----------------------------------------------------------------------------
(* The disk source: what was on disk before the pass, then the blocks of   *)
(* the tier at or below the mark.                                          *)
stock_spill_expansion_begin(s, sp) ==
  [stock |-> [s EXCEPT !.tier = stock_tier_set_mark(@, TopSeq(s.tier))],
   spill |-> [sp EXCEPT !.wanted = 0, !.active = TRUE,
                        !.bseq = IF set.disk THEN last_seq(s.disk) ELSE 0,
                        !.btail = IF s.disk.segs = <<>> THEN 0 ELSE Len(Last(s.disk.segs))]]

\* spill_expansion_pick: the oldest segment is read if it was there before the pass.
DiskCandidate == spill.active /\ set.disk /\ stock.disk.segs # <<>>
                 /\ spill.bseq # 0 /\ stock.disk.first <= spill.bseq
WholeSegment(seg) == Len(seg)   \* mutant: the frames of this pass are developed too
OldFrames(seg) == IF stock.disk.first < spill.bseq THEN Len(seg) ELSE Min({spill.btail, Len(seg)})
TierCandidate == spill.active /\ stock.tier.blocks # <<>>
                 /\ stock.tier.blocks[1].seq <= stock.tier.mark
Candidate == IF DiskCandidate THEN SegSet(stock.disk.segs[1])
             ELSE IF TierCandidate THEN stock.tier.blocks[1].recs ELSE {}

RoomRecords == IF Resident >= Cap THEN 0 ELSE (Cap - Resident) \div PacketBytes

\* stock_spill_disk_expansion_take: the top of a stack is read and unlinked under
\* g_spill_mutex; a segment that is not the top, which nobody writes any more, is
\* read without it ...
ReadSegment(t, next) ==
  LET seg == stock.disk.segs[1]
      old == OldFrames(seg)
  IN  thr' = [thr EXCEPT ![t].pc = next, ![t].r = Cardinality(SegSet(seg)),
                         ![t].priv = SetToSeq(Union(SubSeq(seg, 1, old))),
                         ![t].privHold = SetToSeq(Union(SubSeq(seg, old + 1, Len(seg))))]

\* ... and unlinked afterwards.
DropSegment ==
  /\ stock' = [stock EXCEPT !.disk = spill_drop_first(@)]
  /\ spill' = [spill EXCEPT !.wanted = 0, !.bseq = IF @ = stock.disk.first THEN 0 ELSE @]

TakeSegment(t) ==
  IF Len(stock.disk.segs) = 1 THEN ReadSegment(t, "append") /\ DropSegment
  ELSE ReadSegment(t, "unlink") /\ UNCHANGED <<stock, spill>>

UnlinkSegment(t) ==
  /\ thr[t].pc = "unlink"
  /\ DropSegment
  /\ thr' = [thr EXCEPT ![t].pc = "append"]
  /\ UNCHANGED <<set, pass, driver, stop, faults, hist>>

\* tier_expansion_take reads the block without the lock and checks it again.
ReadBlock(t) ==
  /\ thr' = [thr EXCEPT ![t].pc = "commit", ![t].seq = stock.tier.blocks[1].seq,
                        ![t].priv = SetToSeq(stock.tier.blocks[1].recs)]
  /\ UNCHANGED <<stock, spill>>

LoadReads(t) ==
  /\ thr[t].pc = "load"
  /\ Candidate # {} /\ Cardinality(Candidate) <= RoomRecords
  /\ IF DiskCandidate THEN TakeSegment(t) ELSE ReadBlock(t)
  /\ UNCHANGED <<set, pass, driver, stop, faults, hist>>

\* A record that cannot be read or kept: what was delivered is given up.
LoadFails(t) ==
  /\ thr[t].pc = "load" /\ "read" \in faults
  /\ Candidate # {} /\ Cardinality(Candidate) <= RoomRecords
  /\ faults' = faults \ {"read"}
  /\ thr' = [thr EXCEPT ![t].pc = "append", ![t].r = Failed]
  /\ spill' = [spill EXCEPT !.wanted = 0]
  /\ UNCHANGED <<set, stock, pass, driver, stop, hist>>

LoadCommitsBlind(t) ==   \* mutant: the block is not looked at again
  /\ thr[t].pc = "commit"
  /\ thr' = [thr EXCEPT ![t].pc = "append", ![t].seq = 0, ![t].r = Len(thr[t].priv)]
  /\ stock' = IF stock.tier.blocks = <<>> THEN stock ELSE [stock EXCEPT !.tier = stock_tier_unlink(@, 1)]
  /\ spill' = [spill EXCEPT !.wanted = 0]
  /\ UNCHANGED <<set, pass, driver, stop, faults, hist>>
LoadCommits(t) ==
  LET same == stock.tier.blocks # <<>> /\ stock.tier.blocks[1].seq = thr[t].seq
  IN  /\ thr[t].pc = "commit"
      /\ thr' = [thr EXCEPT ![t].pc = "append", ![t].seq = 0,
                            ![t].r = IF same THEN Len(thr[t].priv) ELSE Failed,
                            ![t].priv = IF same THEN @ ELSE <<>>]
      /\ stock' = IF same THEN [stock EXCEPT !.tier = stock_tier_unlink(@, 1)] ELSE stock
      /\ spill' = [spill EXCEPT !.wanted = 0]
      /\ UNCHANGED <<set, pass, driver, stop, faults, hist>>

LoadEmpty(t) ==
  /\ thr[t].pc = "load" /\ Candidate = {}
  /\ thr' = [thr EXCEPT ![t].pc = "append", ![t].r = 0]
  /\ spill' = [spill EXCEPT !.wanted = 0]
  /\ UNCHANGED <<set, stock, pass, driver, stop, faults, hist>>

\* expansion_room_want, then the relief, unless the server stops.
LoadNoRoom(t) ==
  LET want == [spill EXCEPT !.wanted = PacketBytes * Cardinality(Candidate)]
  IN  /\ thr[t].pc = "load" /\ Cardinality(Candidate) > RoomRecords
      /\ IF stop
         THEN /\ spill' = want
              /\ thr' = [thr EXCEPT ![t].pc = "append", ![t].r = NoRoom]
         ELSE IF spill.wanted # want.wanted THEN spill' = want /\ UNCHANGED thr
         ELSE ReliefBegins(t)
      /\ UNCHANGED <<set, stock, pass, driver, stop, faults, hist>>

LoadRelieved(t) ==
  /\ Relieved(t) /\ thr[t].item = NoNode
  /\ LET idle == IF thr[t].moved > 0 THEN 0 ELSE thr[t].idle + 1
     IN  thr' = [thr EXCEPT ![t].idle = IF idle > Retries THEN 0 ELSE idle,
                            ![t].moved = 0, ![t].low = 0, ![t].pressed = FALSE,
                            ![t].r = IF idle > Retries THEN NoRoom ELSE 0,
                            ![t].pc = IF idle > Retries THEN "append" ELSE "load"]
  /\ UNCHANGED <<set, stock, spill, pass, driver, stop, faults, hist>>

Load(t) == LoadReads(t) \/ UnlinkSegment(t) \/ LoadFails(t) \/ LoadCommits(t) \/ LoadEmpty(t)
           \/ LoadNoRoom(t) \/ LoadRelieved(t)

-----------------------------------------------------------------------------
(* expand_take_batch, under ps->lock. *)
Broadcast(th) == [u \in Threads |-> IF th[u].pc = "wait" THEN [th[u] EXCEPT !.pc = "take"] ELSE th[u]]

\* The reader comes back with what it read: expand_refill_unlocked and what follows it.
AppendRead(t) ==
  LET p == [pass EXCEPT !.work = @ \o thr[t].priv, !.hold = @ \o thr[t].privHold, !.refilling = FALSE]
      r == thr[t].r
      ends == ~ thr[t].ahead /\ r <= 0 /\ ~ (r = NoRoom /\ pass.busy > 0)
  IN  /\ thr[t].pc = "append" /\ pass.owner = 0
      /\ pass' = [p EXCEPT !.owner = IF ~ thr[t].ahead /\ r > 0 THEN t ELSE 0,
                           !.diskPhase = @ /\ ~ ends,
                           !.diskLeft = IF ends THEN r # 0 ELSE @]
      /\ thr' = [Broadcast(thr) EXCEPT
           ![t] = [thr[t] EXCEPT !.priv = <<>>, !.privHold = <<>>, !.ahead = FALSE,
                     !.pc = IF thr[t].ahead THEN "run" ELSE IF r > 0 THEN "take"
                            ELSE IF ends THEN "flush" ELSE "wait",
                     !.back = "end", !.r = 0, !.idle = 0]]
      /\ UNCHANGED <<set, stock, spill, driver, stop, faults, hist>>

expand_batch_size(left) == Min({Max({left \div (2 * Cardinality(Threads)), 1}), MaxBatch, left})

TakeBatch(t) ==
  LET p == [pass EXCEPT !.busy = IF thr[t].holding THEN @ - 1 ELSE @, !.owner = 0]
      th == IF thr[t].holding THEN Broadcast(thr) ELSE thr
      fromHold == p.hold # <<>>
      list == IF fromHold THEN p.hold ELSE p.work
      n == expand_batch_size(Len(list))
      rest == SubSeq(list, n + 1, Len(list))
      taken == [p EXCEPT !.busy = @ + 1, !.hold = IF fromHold THEN rest ELSE @,
                         !.work = IF fromHold THEN @ ELSE rest]
      ahead == /\ Cardinality(Threads) > 1 /\ p.diskPhase /\ ~ p.refilling /\ ~ p.cap /\ ~ p.ramWait
               /\ Len(taken.work) + Len(taken.hold) < PrefetchLow
      leaves == [th[t] EXCEPT !.holding = FALSE, !.isHold = FALSE, !.pc = "flush", !.back = "end"]
      reads == [leaves EXCEPT !.pc = "load"]
      probe == ~ p.aborted /\ list = <<>> /\ p.diskPhase /\ ~ p.cap /\ ~ p.refilling /\ p.ramWait
  IN  /\ thr[t].pc = "take" /\ pass.owner \in {0, t}
      /\ \/ /\ p.aborted
            /\ pass' = p /\ thr' = [th EXCEPT ![t] = leaves]
         \/ /\ ~ p.aborted /\ list # <<>>
            /\ pass' = [taken EXCEPT !.refilling = @ \/ ahead]
            /\ thr' = [th EXCEPT ![t] = [reads EXCEPT !.holding = TRUE, !.batch = SubSeq(list, 1, n),
                            !.isHold = fromHold, !.ahead = ahead, !.pc = IF ahead THEN @ ELSE "run"]]
         \/ /\ ~ p.aborted /\ list = <<>> /\ (~ p.diskPhase \/ p.cap)
            /\ pass' = p /\ thr' = [th EXCEPT ![t] = leaves]
         \/ /\ ~ p.aborted /\ list = <<>> /\ p.diskPhase /\ ~ p.cap /\ p.refilling
            /\ pass' = p /\ thr' = [th EXCEPT ![t] = [leaves EXCEPT !.pc = "wait"]]
         \/ /\ probe
            /\ pass' = [p EXCEPT !.diskPhase = FALSE, !.diskLeft = Candidate # {}]
            /\ thr' = [th EXCEPT ![t] = leaves]
         \/ /\ ~ p.aborted /\ list = <<>> /\ p.diskPhase /\ ~ p.cap /\ ~ p.refilling /\ ~ p.ramWait
            /\ pass' = [p EXCEPT !.refilling = TRUE]
            /\ thr' = [th EXCEPT ![t] = reads]
      /\ spill' = [spill EXCEPT !.wanted = IF probe THEN PacketBytes * Cardinality(Candidate) ELSE @]
      /\ UNCHANGED <<set, stock, driver, stop, faults, hist>>
-----------------------------------------------------------------------------
(* expand_pass_worker between two batches, and the children of one         *)
(* possibility.                                                            *)
RunNext(t) ==
  LET node == Head(thr[t].batch)
      deep == Level[node] >= Target
      me == [thr[t] EXCEPT !.batch = Tail(@)]
  IN  /\ thr[t].pc = "run" /\ thr[t].batch # <<>> /\ ~ pass.aborted
      /\ \/ /\ thr[t].isHold \/ deep \/ pass.cap \/ pass.ramWait
            /\ pass' = [pass EXCEPT
                 !.shallowProduced = @ \/ (thr[t].isHold /\ ~ deep),
                 !.shallowDeferred = @ \/ (~ thr[t].isHold /\ ~ deep /\ ~ pass.cap)]
            /\ thr' = [thr EXCEPT ![t] = [Store(t, node, "run", TRUE) EXCEPT !.batch = Tail(@)]]
            /\ UNCHANGED hist
         \/ /\ ~ thr[t].isHold /\ ~ deep /\ ~ pass.cap /\ ~ pass.ramWait
            /\ pass' = [pass EXCEPT !.expandedAny = TRUE]
            /\ thr' = [thr EXCEPT ![t] = [me EXCEPT !.pc = "kids", !.kids = SetToSeq(Children[node])]]
            /\ hist' = [hist EXCEPT !.developed = @ \cup {node}, !.born = @ \cup Children[node],
                                    !.early = IF node \in hist.born THEN @ \cup {node} ELSE @]
      /\ UNCHANGED <<set, stock, spill, driver, stop, faults>>

\* The batch is done, or what is left of it is discarded because the server stops.
RunEnds(t) ==
  /\ thr[t].pc = "run" /\ (thr[t].batch = <<>> \/ pass.aborted)
  /\ thr' = [thr EXCEPT ![t].pc = "take", ![t].batch = <<>>]
  /\ hist' = [hist EXCEPT !.dropped = @ \cup Range(thr[t].batch)]
  /\ UNCHANGED <<set, stock, spill, pass, driver, stop, faults>>

\* expand_block_add takes the child when there is a block, expand_pass_insert if not.
KidsNext(t) ==
  LET child == Head(thr[t].kids)
      me == [thr[t] EXCEPT !.kids = Tail(@)]
      full == Len(thr[t].block) >= BlockRecords
      shallow == [pass EXCEPT !.shallowProduced = @ \/ Level[child] < Target]
  IN  /\ thr[t].pc = "kids" /\ thr[t].kids # <<>> /\ ~ pass.aborted
      /\ \/ /\ child \in Proved
            /\ thr' = [thr EXCEPT ![t] = me]
            /\ UNCHANGED pass
         \/ /\ child \notin Proved /\ set.tier /\ full
            /\ thr' = [thr EXCEPT ![t].pc = "flush", ![t].back = "kids"]
            /\ pass' = shallow
         \/ /\ child \notin Proved /\ set.tier /\ ~ full
            /\ thr' = [thr EXCEPT ![t] = [me EXCEPT !.block = Append(@, child)]]
            /\ pass' = [shallow EXCEPT !.produced = Counted(@)]
         \/ /\ child \notin Proved /\ ~ set.tier
            /\ thr' = [thr EXCEPT ![t] = [Store(t, child, "kids", TRUE) EXCEPT !.kids = Tail(@)]]
            /\ pass' = shallow
      /\ UNCHANGED <<set, stock, spill, driver, stop, faults, hist>>

KidsEnd(t) ==
  /\ thr[t].pc = "kids" /\ (thr[t].kids = <<>> \/ pass.aborted)
  /\ thr' = [thr EXCEPT ![t].pc = "run", ![t].kids = <<>>]
  /\ hist' = [hist EXCEPT !.dropped = @ \cup Range(thr[t].kids)]
  /\ pass' = [pass EXCEPT !.cap = @ \/ pass.produced >= set.maxStock]
  /\ UNCHANGED <<set, stock, spill, driver, stop, faults>>

-----------------------------------------------------------------------------
(* expand_block_flush: the block goes to the top of the tier whole, or its *)
(* children are stored one by one.                                         *)
\* tier_hook_expansion_push: room under the high mark, if need be by moving to
\* the disk blocks that are not from before the pass.
PushRoom(recs) ==
  LET cost == TierBytes * Cardinality(recs)
      tried == IF Resident + cost > High /\ set.disk
               THEN tier_to_disk(stock, Cardinality(Nodes), spill.active, FALSE) ELSE stock
      freed == ListBytes(stock) - ListBytes(tried)
  IN  [ok |-> pool_over_buffer(stock, 1) > 0 /\ Resident + cost - freed <= High,
       stock |-> IF pool_over_buffer(stock, 1) > 0 THEN tried ELSE stock]

FlushPushes(t) ==
  LET recs == Range(thr[t].block)
      push == PushRoom(recs)
  IN  /\ thr[t].pc = "flush" /\ thr[t].block # <<>> /\ ~ pass.aborted
      /\ stock' = IF push.ok THEN [push.stock EXCEPT !.tier = stock_tier_link(@, recs)] ELSE push.stock
      /\ thr' = [thr EXCEPT ![t].pc = IF push.ok THEN thr[t].back ELSE "unload",
                            ![t].block = IF push.ok THEN <<>> ELSE @]
      /\ UNCHANGED <<set, spill, pass, driver, stop, faults, hist>>

FlushStores(t) ==
  /\ thr[t].pc = "unload" /\ thr[t].block # <<>> /\ ~ pass.aborted
  /\ thr' = [thr EXCEPT ![t] = [Store(t, Head(thr[t].block), "unload", FALSE) EXCEPT !.block = Tail(@)]]
  /\ UNCHANGED <<set, stock, spill, pass, driver, stop, faults, hist>>

FlushEnds(t) ==
  /\ thr[t].pc \in {"flush", "unload"} /\ (thr[t].block = <<>> \/ pass.aborted)
  /\ thr' = [thr EXCEPT ![t].pc = thr[t].back, ![t].block = <<>>]
  /\ hist' = [hist EXCEPT !.dropped = @ \cup Range(thr[t].block)]
  /\ UNCHANGED <<set, stock, spill, pass, driver, stop, faults>>

ThreadStep(t) ==
  \/ ReliefTurn(t) \/ ReliefDrains(t) \/ ReliefAppends(t) \/ StoreAdds(t) \/ StoreBusy(t) \/ StoreRefused(t) \/ StoreRelieved(t)
  \/ Load(t) \/ AppendRead(t) \/ TakeBatch(t)
  \/ RunNext(t) \/ RunEnds(t) \/ KidsNext(t) \/ KidsEnd(t)
  \/ FlushPushes(t) \/ FlushStores(t) \/ FlushEnds(t)

-----------------------------------------------------------------------------
(* expand_datas_to_level. *)
\* expand_drain_unchecked_pool; without memory the drain stops and the rest stays.
DrainPool ==
  /\ driver.pc = "pass"
  /\ driver.rounds < MaxLevels /\ ~ driver.cap /\ ~ driver.aborted
  /\ \/ /\ pass' = [NoPass EXCEPT !.work = SetToSeq(stock.pool)]
        /\ stock' = [stock EXCEPT !.pool = {}]
        /\ UNCHANGED faults
     \/ \E n \in stock.pool :
          /\ "drain" \in faults /\ faults' = faults \ {"drain"}
          /\ pass' = [NoPass EXCEPT !.work = SetToSeq(stock.pool \ {n}), !.shallowProduced = TRUE]
          /\ stock' = [stock EXCEPT !.pool = {n}]
  /\ driver' = [driver EXCEPT !.pc = "begin"]
  /\ hist' = [hist EXCEPT !.born = {}, !.missed = {}]
  /\ UNCHANGED <<set, spill, thr, stop>>

BeginPass ==
  LET marked == stock_spill_expansion_begin(stock, spill)
  IN  /\ driver.pc = "begin"
      /\ stock' = [marked.stock EXCEPT !.deferred = 0] /\ spill' = marked.spill
      /\ pass' = [pass EXCEPT !.diskPhase = TRUE]
      /\ thr' = [t \in Threads |-> [Idle EXCEPT !.pc = "take"]]
      /\ driver' = [driver EXCEPT !.pc = "run"]
      /\ hist' = [hist EXCEPT !.missed = {n \in spill.hand : Level[n] < Target}]
      /\ UNCHANGED <<set, stop, faults>>

\* What the pass could not develop and left to a later one.
PassLeft == (pass.diskLeft /\ ~ pass.cap) \/ stock.deferred > 0 \/ pass.returned > 0

\* The threads are joined: what the pass did decides whether it counts and
\* whether another one follows.
JoinPass ==
  LET again == pass.shallowProduced \/ pass.shallowDeferred \/ PassLeft
      slowed == pass.ramWait \/ pass.ramSlowed \/ PassLeft
      free == slowed /\ pass.expandedAny /\ ~ pass.cap /\ ~ pass.aborted
      counts == ~ free /\ (pass.expandedAny \/ pass.shallowDeferred \/ PassLeft)
  IN  /\ driver.pc = "run" /\ \A t \in Threads : thr[t].pc = "end"
      /\ hist' = [hist EXCEPT !.dropped = @ \cup Range(pass.work) \cup Range(pass.hold)]
      /\ spill' = [spill EXCEPT !.wanted = 0, !.active = FALSE, !.bseq = 0, !.btail = 0]
      /\ driver' = [driver EXCEPT
           !.rounds = IF counts THEN @ + 1 ELSE @,
           !.cap = pass.cap, !.aborted = pass.aborted,
           !.next = IF again THEN "pass" ELSE "done",
           !.pc = IF pass.ramWait /\ ~ pass.cap /\ ~ pass.aborted /\ driver.rounds + 1 < MaxLevels
                  THEN "headroom" ELSE IF again THEN "pass" ELSE "done"]
      /\ pass' = NoPass
      /\ thr' = [t \in Threads |-> Idle]
      /\ UNCHANGED <<set, stock, stop, faults>>

\* expand_wait_for_ram_headroom_between_passes.
HeadroomEnds ==
  /\ driver.pc = "headroom" /\ (HasHeadroom \/ stop)
  /\ driver' = [driver EXCEPT !.pc = driver.next, !.aborted = @ \/ ~ HasHeadroom]
  /\ UNCHANGED <<set, stock, spill, pass, thr, stop, faults, hist>>

ExpansionEnds ==
  /\ driver.pc = "pass"
  /\ ~ (driver.rounds < MaxLevels /\ ~ driver.cap /\ ~ driver.aborted)
  /\ driver' = [driver EXCEPT !.pc = "done"]
  /\ UNCHANGED <<set, stock, spill, pass, thr, stop, faults, hist>>

DriverStep == DrainPool \/ BeginPass \/ JoinPass \/ HeadroomEnds \/ ExpansionEnds

-----------------------------------------------------------------------------
(* Around it: clients, the stop of the server, the spill thread. *)
ClientTakes ==
  /\ set.clients
  /\ \E n \in stock.pool :
       /\ stock' = [stock EXCEPT !.pool = @ \ {n}]
       /\ hist' = [hist EXCEPT !.given = @ \cup {n}]
  /\ UNCHANGED <<set, spill, pass, thr, driver, stop, faults>>

StopServer ==
  /\ set.stops /\ ~ stop /\ stop' = TRUE
  /\ UNCHANGED <<set, stock, spill, pass, thr, driver, faults, hist>>

\* stock_spill_evict by the spill thread: the list is drained, the lot appended later.
SpillDrains ==
  /\ ~ set.tier /\ set.disk /\ set.spiller /\ spill.hand = {} /\ stock.pool # {} /\ Resident >= High
  /\ LET recs == Some(ReliefMax, stock.pool)
     IN  /\ stock' = [stock EXCEPT !.pool = @ \ recs]
         /\ spill' = [spill EXCEPT !.hand = recs, !.evicting = TRUE]
  /\ UNCHANGED <<set, pass, thr, driver, stop, faults, hist>>
SpillAppends ==
  /\ spill.hand # {}
  /\ stock' = [stock EXCEPT !.disk = spill_append_frame(@, spill.hand)]
  /\ spill' = [spill EXCEPT !.hand = {}]
  /\ UNCHANGED <<set, pass, thr, driver, stop, faults, hist>>
\* In tier mode it moves under g_tier_mutex, like a relief.
SpillMoves ==
  LET turn == IF Evicting \/ Wanted THEN tier_evict_turn(stock, ReliefMax, set.disk, spill.active)
              ELSE tier_evict(stock, pool_over_buffer(stock, ReliefMax))
  IN  /\ set.tier /\ set.spiller /\ turn # stock
      /\ stock' = turn
      /\ spill' = [spill EXCEPT !.evicting = Evicting]
      /\ UNCHANGED <<set, pass, thr, driver, stop, faults, hist>>

-----------------------------------------------------------------------------
ExpInit ==
  /\ set \in Settings
  /\ LET s == set.start
     IN  stock = [pool |-> s.pool \cup (IF set.disk THEN {} ELSE DiskSet(s.disk))
                                 \cup (IF set.tier THEN {} ELSE TierSet(s.tier)),
                  disk |-> IF set.disk THEN s.disk ELSE NoDisk,
                  tier |-> IF set.tier THEN s.tier ELSE NoTier, deferred |-> 0]
  /\ spill = [evicting |-> FALSE, wanted |-> 0, active |-> FALSE, bseq |-> 0, btail |-> 0, hand |-> {}]
  /\ pass = NoPass /\ thr = [t \in Threads |-> Idle]
  /\ driver = [pc |-> "pass", next |-> "pass", rounds |-> 0, cap |-> FALSE, aborted |-> FALSE]
  /\ stop = FALSE /\ faults = set.faults
  /\ hist = [NoHist EXCEPT !.roots = Below]

ExpEnvironment == ClientTakes \/ StopServer \/ SpillDrains \/ SpillAppends \/ SpillMoves
ExpNext == DriverStep \/ (\E t \in Threads : ThreadStep(t)) \/ ExpEnvironment
ExpFairness == /\ WF_expVars(DriverStep) /\ WF_expVars(SpillAppends)
               /\ \A t \in Threads : WF_expVars(ThreadStep(t))
ExpSpec == ExpInit /\ [][ExpNext]_expVars /\ ExpFairness

-----------------------------------------------------------------------------
Pcs == {"take", "wait", "load", "unlink", "commit", "append", "run", "kids", "store", "relief", "evict", "flush",
        "unload", "end"}
\* The counters and the lists of a pass stay what the threads declare: as many
\* batches out as busy, one reader of the disk at most, and the mark of the
\* tier at the lowest block of the pass (stock_tier_unlink keeps it by steps).
ExpTypeOK ==
  /\ \A t \in Threads : thr[t].pc \in Pcs
  /\ pass.busy = Cardinality({t \in Threads : thr[t].holding})
  /\ pass.refilling = (\E t \in Threads : thr[t].pc \in {"load", "unlink", "commit", "append"}
                                           \/ (thr[t].pc \in {"relief", "evict"} /\ thr[t].item = NoNode))
  /\ Cardinality({t \in Threads : thr[t].pc \in {"load", "unlink", "commit", "append"}}) <= 1
  /\ MarkExact(stock.tier)

Ever == hist.roots \cup UNION {Children[n] : n \in hist.developed}
\* No possibility of the stock, nor a child of one, vanishes: it is somewhere,
\* or was developed, refuted, or given to a client; the server's stop alone
\* discards what a pass had in hand.
NothingLost ==
  /\ Ever \subseteq Places \cup hist.developed \cup hist.given \cup hist.dropped \cup Proved
  /\ hist.dropped # {} => stop

Copies(n) ==
  LET here(S) == IF n \in S THEN 1 ELSE 0
  IN  here(stock.pool) + here(TierSet(stock.tier)) + here(DiskSet(stock.disk)) + here(spill.hand)
      + here(Range(pass.work)) + here(Range(pass.hold)) + here(Read) + here(InHand)
      + here(hist.developed) + here(hist.given)
\* Nothing is developed, or handed out, twice: a possibility is in one place
\* only, also after a read of the disk that failed or was overtaken, except
\* the lot put_to_pool refuses although it is in the list.
OneCopy == \A n \in Nodes \ UNION {{m} \cup Children[m] \cup UNION {Children[k] : k \in Children[m]}
                                      : m \in hist.twice} : Copies(n) <= 1

\* A pass develops only what was there before it: neither a child of this
\* pass, nor one that went through the tier or the disk and came back.
PassIsOneLevel == hist.early \subseteq hist.twice

\* An expansion that ends by itself (no cap, no stop, passes left) leaves
\* nothing shallow behind, except what the spill thread had in hand when the
\* last pass marked the disk.
LevelReached ==
  driver.pc = "done" /\ driver.rounds < MaxLevels /\ ~ driver.cap /\ ~ driver.aborted
  => \A n \in Below \ (hist.missed \cup hist.twice) : Level[n] >= Target

\* With a disk to spill to, or once the server stops, the expansion returns:
\* no thread waits for the others for ever.
ExpansionReturns == (set.disk \/ stop) ~> (driver.pc = "done")
=============================================================================
