----------------------------- MODULE SpillTiers -----------------------------
(***************************************************************************)
(* The places of a pool below its resident list, as values: the compact    *)
(* tier of a list (a stack of blocks, stock_tier.c) and its segments on    *)
(* disk (stock_spill.c), with the operators that move possibilities        *)
(* between them.  A possibility is a model value, a block or a frame the   *)
(* set of the possibilities packed in it; bytes are counted in the units   *)
(* of PacketBytes and TierBytes.                                           *)
(***************************************************************************)
EXTENDS Integers, SequencesExt, FiniteSetsExt

CONSTANTS
  Cap,          \* --stock-max-ram, in bytes
  PacketBytes,  \* a possibility in a list, its overhead included
  TierBytes,    \* the same possibility packed in a block
  HotMax,       \* g_hot_max
  SegRecords,   \* spill_segment_records()
  DiskFactor    \* g_tier_disk_factor

ASSUME TiersAssumption ==
  /\ {Cap, PacketBytes, TierBytes, HotMax, SegRecords, DiskFactor} \subseteq Nat \ {0}
  /\ TierBytes < PacketBytes /\ PacketBytes < Cap

High == (Cap * 90) \div 100
Low == (Cap * 75) \div 100
Guard == (Cap * 125) \div 1000

Some(n, S) == CHOOSE T \in SUBSET S : Cardinality(T) = Min({n, Cardinality(S)})
Union(sets) == UNION Range(sets)

-----------------------------------------------------------------------------
(* The compact tier: blocks from bottom to top; "above" is the lowest      *)
(* block above the mark of an expansion, kept by seq (0 for none).         *)
NoTier == [last |-> 0, mark |-> 0, above |-> 0, blocks |-> <<>>]
BlockAbove(t, i) == IF i < Len(t.blocks) THEN t.blocks[i + 1].seq ELSE 0

stock_tier_link(t, recs) ==
  [t EXCEPT !.last = @ + 1,
            !.blocks = Append(@, [seq |-> t.last + 1, recs |-> recs]),
            !.above = IF @ = 0 /\ t.last + 1 > t.mark THEN t.last + 1 ELSE @]

stock_tier_unlink(t, i) ==
  [t EXCEPT !.above = IF @ = t.blocks[i].seq THEN BlockAbove(t, i) ELSE @,
            !.blocks = RemoveAt(@, i)]

stock_tier_set_mark(t, seq) ==
  LET higher == {i \in DOMAIN t.blocks : t.blocks[i].seq > seq}
  IN  [t EXCEPT !.mark = seq,
                !.above = IF higher = {} THEN 0 ELSE t.blocks[Min(higher)].seq]

TopSeq(t) == IF t.blocks = <<>> THEN 0 ELSE Last(t.blocks).seq
TierSet(t) == UNION {t.blocks[i].recs : i \in DOMAIN t.blocks}
\* The pointer designates what stock_tier_set_mark would find.
MarkExact(t) == t.above = stock_tier_set_mark(t, t.mark).above

-----------------------------------------------------------------------------
(* The segments of a list on disk: numbered from first, each a sequence of *)
(* frames; the last one grows.                                             *)
NoDisk == [first |-> 0, segs |-> <<>>]
last_seq(d) == IF d.segs = <<>> THEN 0 ELSE d.first + Len(d.segs) - 1
SegSet(s) == Union(s)
DiskSet(d) == UNION {SegSet(d.segs[i]) : i \in DOMAIN d.segs}

spill_append_frame(d, recs) ==
  IF d.segs = <<>> THEN [first |-> 1, segs |-> << <<recs>> >>]
  ELSE LET top == Len(d.segs)
           tail == Cardinality(SegSet(d.segs[top]))
       IN  IF tail > 0 /\ tail + Cardinality(recs) > SegRecords
           THEN [d EXCEPT !.segs = Append(@, <<recs>>)]
           ELSE [d EXCEPT !.segs[top] = Append(@, recs)]

spill_drop_first(d) ==
  IF Len(d.segs) = 1 THEN NoDisk
  ELSE [first |-> d.first + 1, segs |-> Tail(d.segs)]

-----------------------------------------------------------------------------
(* Moves.  A stock s is [pool, tier, disk, deferred]: the resident list,    *)
(* the places below it, and the records that were before an expansion's    *)
(* mark when they left the tier for the disk.                              *)
ListBytes(s) == PacketBytes * Cardinality(s.pool) + TierBytes * Cardinality(TierSet(s.tier))

pool_over_buffer(s, budget) ==
  LET n == Cardinality(s.pool)
      bytes == PacketBytes * n
      byCount == IF n > HotMax THEN n - HotMax ELSE 0
      byBytes == IF bytes > Guard /\ n > 0
                 THEN (bytes - Guard + PacketBytes - 1) \div PacketBytes ELSE 0
  IN  Min({Max({byCount, byBytes}), budget})

\* tier_evict: the drain of the list and the link of the block are one step
\* for whoever takes g_tier_mutex.
tier_evict(s, max) ==
  LET recs == Some(max, s.pool)
  IN  IF recs = {} THEN s
      ELSE [s EXCEPT !.pool = @ \ recs, !.tier = stock_tier_link(@, recs)]

tier_disk_candidate(s, expanding, allowPrepass) ==
  IF ~ expanding \/ allowPrepass THEN IF s.tier.blocks = <<>> THEN 0 ELSE s.tier.blocks[1].seq
  ELSE s.tier.above

\* Blocks go to the disk from the candidate up, until max possibilities have moved.
tier_to_disk(s, max, expanding, allowPrepass) ==
  LET from == tier_disk_candidate(s, expanding, allowPrepass)
      index(q) == {i \in DOMAIN s.tier.blocks : s.tier.blocks[i].seq = q}
      start == IF from = 0 THEN 0 ELSE Min(index(from))
      moved(j) == IF start = 0 \/ j < start THEN {} ELSE UNION {s.tier.blocks[i].recs : i \in start .. j}
      taken == {j \in DOMAIN s.tier.blocks : j >= start /\ Cardinality(moved(j - 1)) < max}
      one(u, b) == [u EXCEPT
           !.tier = stock_tier_unlink(@, CHOOSE i \in DOMAIN u.tier.blocks : u.tier.blocks[i] = b),
           !.disk = spill_append_frame(@, b.recs),
           !.deferred = IF expanding /\ b.seq <= u.tier.mark THEN @ + Cardinality(b.recs) ELSE @]
  IN  IF from = 0 THEN s
      ELSE FoldLeft(one, s, SubSeq(s.tier.blocks, start, Max(taken)))
Moved(s, u) == Cardinality(s.pool) - Cardinality(u.pool)
               + Cardinality(DiskSet(u.disk)) - Cardinality(DiskSet(s.disk))

\* One turn of the loop of tier_evict_step: what left, and from where.
tier_evict_turn(s, max, disk, expanding) ==
  LET over == pool_over_buffer(s, max)
      down == tier_to_disk(s, max * DiskFactor, expanding, FALSE)
      out == tier_evict(s, max)
  IN  CASE over > 0 -> tier_evict(s, over)
        [] over <= 0 /\ ~ disk -> out
        [] over <= 0 /\ disk /\ down # s -> down
        [] over <= 0 /\ disk /\ down = s /\ out # s -> out
        [] OTHER -> tier_to_disk(s, max * DiskFactor, expanding, TRUE)
=============================================================================
