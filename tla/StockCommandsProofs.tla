------------------------ MODULE StockCommandsProofs ------------------------
(***************************************************************************)
(* The commands on the stock: the import of a backup (StockImport), then    *)
(* checkOrigin and the sorts of the lists (StockAudit).                     *)
(*                                                                         *)
(* The memory of an import is bounded, and the tier is given up only when   *)
(* it is full for good, whatever the backup, the limits, the number of      *)
(* threads and the depth of their queues.  The argument is an account of    *)
(* reservations.  Every job in a queue that is not linked yet stands for as *)
(* many places as were reserved for it, the block on its way to a slot for  *)
(* its own, and g_import_inflight counts all of them (ReservationsTrue).  A *)
(* queue holds jobs that do not overlap, so a thread that links a block     *)
(* releases what was reserved for that block, and what is linked plus what  *)
(* is reserved never grows but in push, where the limit has been tested.    *)
(*                                                                         *)
(* checkOrigin keeps a root of everything it removes, whatever the order in *)
(* which its threads flag the entries.  The account is one of pairs: an     *)
(* entry that is covered by an earlier one is flagged, or a thread has the  *)
(* pair before it still (PairsSeen).  When the threads have ended no pair   *)
(* is left, and the first entry that covers a given one is never flagged.   *)
(* The list that sort_one_file_* sorts is in order up to the place of the   *)
(* walk (WalkOK): an element is moved after that place, because a level     *)
(* that is known and comes later in the order is not before it.             *)
(***************************************************************************)
EXTENDS StockImport, StockAudit, FiniteSetTheorems, SequenceTheorems, TLAPS

ImpPc == {"idle", "check", "read", "final", "list", "look", "room", "push", "slot", "publish", "refused", "waitOne",
          "drain", "finish", "join", "analysed", "leave", "end"}
WorkerPc == {"wait", "build", "pop", "release", "exit"}
Slot == 0 .. (Depth - 1)
JobRec == [stack : ImpStack, recs : Seq(Nat), cost : Nat]
Pushing == {"look", "room", "push", "slot", "publish", "refused", "waitOne", "drain"}

ReaderOK ==
  /\ DOMAIN imp = {"pc", "bk", "pos", "buf", "nf", "active", "pool", "listing", "after", "seen", "start", "nb", "w",
                   "aborted", "core"}
  /\ imp.pc \in ImpPc /\ imp.after \in {"read", "final"}
  /\ imp.bk \in Backups /\ imp.pos \in Nat \ {0}
  /\ imp.buf \in [ImpPool -> Seq(Nat)] /\ imp.nf \in [ImpPool -> 0 .. (NbLists - 1)]
  /\ imp.active \in BOOLEAN /\ imp.aborted \in BOOLEAN
  /\ imp.pool \in 0 .. 2 /\ imp.listing \in Seq(Nat)
  /\ imp.seen \in Nat /\ imp.start \in Nat
  /\ imp.nb \in 0 .. MaxWorkers /\ imp.w \in 0 .. MaxWorkers
  /\ \A p \in ImpPool : Len(imp.buf[p]) <= ImpTarget
  /\ imp.pc \in Pushing => imp.pool \in ImpPool /\ imp.active
  /\ imp.pc = "list" => ~ imp.active
  /\ imp.pc \in {"slot", "publish"} => imp.w \in 1 .. imp.nb
  /\ imp.pc \in {"idle", "check"} => imp.active /\ imp.nb = 0
SrvOK ==
  /\ DOMAIN srv = {"set", "req", "prev", "maint", "failed", "result"}
  /\ srv.set \in [soft : Nat, spill : BOOLEAN, workers : 0 .. MaxWorkers, fails : Nat]
  /\ srv.failed \in BOOLEAN
StockOK ==
  /\ DOMAIN held = {"lists", "tier", "disk", "kept", "analysed"}
  /\ held.lists \in SUBSET Nat /\ IsFiniteSet(held.lists)
  /\ held.tier \in [ImpStack -> Seq(Seq(Nat))]
  /\ IsFiniteSet(TierPlaces(held.tier))
  /\ SrvOK
QueuesOK ==
  /\ wk \in [ImpWorker -> [pc : WorkerPc, head : Slot, count : 0 .. Depth, slots : [Slot -> JobRec], stop : BOOLEAN]]
  /\ \A w \in ImpWorker :
       /\ w > imp.nb => wk[w].pc = "wait" /\ wk[w].count = 0 /\ ~ wk[w].stop
       /\ wk[w].pc \in {"build", "pop", "release"} => wk[w].count > 0
       /\ wk[w].pc = "exit" => wk[w].count = 0 /\ wk[w].stop
       /\ wk[w].stop => imp.pc = "join"

\* How far the slot s is from the head h of a queue
RankFrom(h, s) == IF s >= h THEN s - h ELSE s - h + Depth
\* The slot s of the thread w holds a job that is not linked yet.
Waits(w, s) ==
  /\ RankFrom(wk[w].head, s) < wk[w].count
  /\ wk[w].pc = "pop" => RankFrom(wk[w].head, s) > 0
MaxCost == ImpTarget + 1
JobsOK ==
  /\ \A w \in ImpWorker, s \in Slot :
       Waits(w, s) => wk[w].slots[s].cost = Len(wk[w].slots[s].recs) + 1 /\ wk[w].slots[s].cost <= MaxCost
  /\ imp.pc = "publish" =>
       /\ wk[imp.w].count < Depth
       /\ \E s \in Slot : /\ RankFrom(wk[imp.w].head, s) = wk[imp.w].count
                          /\ wk[imp.w].slots[s] = [stack |-> StackOf, recs |-> Block, cost |-> Cost(Block)]

\* The places reserved by the jobs, and those of the block on its way to a slot.
Reserved ==
  {t \in (ImpWorker \X Slot) \X (1 .. MaxCost) :
     Waits(t[1][1], t[1][2]) /\ t[2] <= wk[t[1][1]].slots[t[1][2]].cost}
OnItsWay == IF imp.pc \in {"slot", "publish"} THEN Cost(Block) ELSE 0
ReservationsTrue == inflight = Cardinality(Reserved) + OnItsWay

TierSize == Cardinality(TierPlaces(held.tier))
Within(n, limit, least) == n <= limit \/ n <= least
MemoryOK ==
  imp.active /\ ~ srv.failed /\ imp.pc \notin {"idle", "check"} /\ imp.bk.readable =>
    /\ held.lists = {}
    /\ Within(TierSize, srv.set.soft, ImpTarget)
    /\ Within(TierSize + inflight, srv.set.soft, MaxCost)
    /\ imp.pc = "push" => Within(TierSize + inflight + Cost(Block), srv.set.soft, MaxCost)

Full == inflight = 0 /\ ImpResident + Cost(Block) > srv.set.soft /\ (srv.set.spill => NoneInTier)
RefusalOK ==
  /\ imp.pc \in {"room", "refused"} => inflight <= imp.seen
  /\ (imp.pc = "refused" /\ imp.seen = 0) \/ imp.pc = "drain" => Full

-----------------------------------------------------------------------------
(* The thread that restores.                                               *)

LEMMA Constants ==
    /\ Depth \in Nat \ {0} /\ NbLists \in Nat \ {0} /\ ImpTarget \in Nat \ {0}
    /\ ImpCap \in Nat \ {0} /\ ListCost \in Nat \ {0} /\ MaxWorkers \in Nat
BY ImpAssumption

LEMMA PoolOf == ASSUME NEW r \in Nat PROVE r % 2 \in ImpPool
BY DEF ImpPool

LEMMA NextList == ASSUME NEW n \in 0 .. (NbLists - 1) PROVE (n + 1) % NbLists \in 0 .. (NbLists - 1)
BY Constants

LEMMA ThreadOf ==
  ASSUME NEW n \in Nat, NEW nb \in Nat \ {0} PROVE (n % nb) + 1 \in 1 .. nb
OBVIOUS

LEMMA Fields ==
  ReaderOK => /\ DOMAIN imp = {"pc", "bk", "pos", "buf", "nf", "active", "pool", "listing", "after", "seen", "start", "nb", "w",
                                "aborted", "core"}
              /\ imp.after \in {"read", "final"}
BY DEF ReaderOK

\* Where the steps that leave the threads alone go.
LEMMA PcMoves ==
  ASSUME ReaderOK
  PROVE  /\ RestoreChecks => imp'.pc \in {"read", "leave"}
         /\ ReadRecord => imp'.pc \in {"read", "list", "look"}
         /\ FinalFlush => imp'.pc \in {"final", "finish", "look", "list"}
         /\ Drained \/ ListAborts \/ ListEnds => imp'.pc \in {"read", "list", "final"}
         /\ LookInFlight \/ RoomMade \/ WaitOne => imp'.pc \in {"look", "room"}
         /\ Refused => imp'.pc \in {"drain", "waitOne"}
         /\ RoomFound \/ ImpNoRoom => imp'.pc \in {"push", "refused"}
         /\ ReadEnds => imp'.pc = "final"
<1>1. RestoreChecks => imp'.pc \in {"read", "leave"}
  BY Fields DEF RestoreChecks
<1>2. ReadRecord => imp'.pc \in {"read", "list", "look"}
  BY Fields DEF ReadRecord
<1>3. FinalFlush => imp'.pc \in {"final", "finish", "look", "list"}
  BY Fields DEF FinalFlush, ToLists
<1>4. Drained \/ ListAborts \/ ListEnds => imp'.pc \in {"read", "list", "final"}
  BY Fields DEF Drained, ListAborts, ListEnds, ToLists
<1>5. LookInFlight \/ RoomMade \/ WaitOne => imp'.pc \in {"look", "room"}
  BY Fields DEF LookInFlight, RoomMade, WaitOne
<1>6. Refused => imp'.pc \in {"drain", "waitOne"}
  BY Fields DEF Refused
<1>7. RoomFound \/ ImpNoRoom => imp'.pc \in {"push", "refused"}
  BY Fields DEF RoomFound, ImpNoRoom
<1>8. ReadEnds => imp'.pc = "final"
  BY Fields DEF ReadEnds
<1> QED
  BY <1>1, <1>2, <1>3, <1>4, <1>5, <1>6, <1>7, <1>8

LEMMA ReadRecordKeeps == ReaderOK /\ ReadRecord => ReaderOK'
<1> SUFFICES ASSUME ReaderOK, ReadRecord PROVE ReaderOK'
  OBVIOUS
<1> DEFINE r == imp.bk.recs[imp.pos]
           p == r % 2
<1>1. r \in Nat
  <2>1. PICK recs \in Seq(Nat) : recs = imp.bk.recs
    BY ImpAssumption DEF ReaderOK
  <2>2. imp.pos \in 1 .. Len(recs)
    BY <2>1 DEF ReadRecord, ReaderOK
  <2> QED
    BY <2>1, <2>2, ElementOfSeq
<1>2. p \in ImpPool
  BY <1>1, PoolOf
<1>3. \/ ~ imp.active /\ imp' = [imp EXCEPT !.listing = <<r>>, !.pos = @ + 1, !.pc = "list", !.after = "read"]
      \/ imp.active /\ Len(imp.buf[p]) < ImpTarget /\ imp' = [imp EXCEPT !.buf[p] = Append(@, r), !.pos = @ + 1]
      \/ imp.active /\ imp' = [imp EXCEPT !.pool = p, !.pc = "look", !.after = "read"]
  BY DEF ReadRecord
<1> HIDE DEF r, p
<1>4. CASE ~ imp.active /\ imp' = [imp EXCEPT !.listing = <<r>>, !.pos = @ + 1, !.pc = "list", !.after = "read"]
  BY <1>4, <1>1 DEF ReaderOK, ImpPc, Pushing
<1>5. CASE imp.active /\ Len(imp.buf[p]) < ImpTarget /\ imp' = [imp EXCEPT !.buf[p] = Append(@, r), !.pos = @ + 1]
  <2>1. PICK s \in Seq(Nat) : s = imp.buf[p]
    BY <1>2 DEF ReaderOK
  <2>2. Append(s, r) \in Seq(Nat) /\ Len(Append(s, r)) = Len(s) + 1
    BY <1>1
  <2>3. imp'.buf = [imp.buf EXCEPT ![p] = Append(s, r)]
    BY <1>5, <2>1 DEF ReaderOK
  <2>4. imp'.buf \in [ImpPool -> Seq(Nat)] /\ \A q \in ImpPool : Len(imp'.buf[q]) <= ImpTarget
    BY <2>1, <2>2, <2>3, <1>2, <1>5, Constants, SMTT(40) DEF ReaderOK
  <2> QED
    <3>1. imp'.pc = imp.pc /\ imp'.pc = "read" /\ imp'.pos = imp.pos + 1 /\ DOMAIN imp' = DOMAIN imp
          /\ UNCHANGED <<imp.bk, imp.nf, imp.active, imp.pool, imp.listing, imp.after, imp.seen, imp.start, imp.nb, imp.w,
                         imp.aborted>>
      BY <1>5 DEF ReaderOK, ReadRecord
    <3> QED
      BY <3>1, <2>4 DEF ReaderOK, ImpPc, Pushing
<1>6. CASE imp.active /\ imp' = [imp EXCEPT !.pool = p, !.pc = "look", !.after = "read"]
  <2>1. p \in 0 .. 2
    BY <1>2 DEF ImpPool
  <2> QED
    BY <1>6, <1>2, <2>1 DEF ReaderOK, ImpPc, Pushing
<1> QED
  BY <1>3, <1>4, <1>5, <1>6

LEMMA ReaderKeeps ==
  ReaderOK /\ (RestoreChecks \/ ReadEnds \/ FinalFlush \/ LookInFlight \/ RoomFound \/ RoomMade \/ ImpNoRoom \/ Refused
               \/ WaitOne \/ Drained \/ ListAdds \/ ListRelief \/ ListAborts \/ ListEnds \/ RestoreAnalysed \/ RestoreLeaves)
  /\ inflight \in Nat => ReaderOK'
<1> SUFFICES ASSUME ReaderOK, inflight \in Nat PROVE
     (RestoreChecks \/ ReadEnds \/ FinalFlush \/ LookInFlight \/ RoomFound \/ RoomMade \/ ImpNoRoom \/ Refused
               \/ WaitOne \/ Drained \/ ListAdds \/ ListRelief \/ ListAborts \/ ListEnds \/ RestoreAnalysed \/ RestoreLeaves)
      => ReaderOK'
  OBVIOUS
<1> USE DEF ReaderOK, ImpPc, Pushing
<1>1. CASE RestoreChecks
  <2>1. imp' = [imp EXCEPT !.pc = "read"] \/ imp' = [imp EXCEPT !.pc = "leave", !.core = -1]
    BY <1>1 DEF RestoreChecks
  <2>2. CASE imp' = [imp EXCEPT !.pc = "read"]
    BY <1>1, <2>2 DEF RestoreChecks
  <2>3. CASE imp' = [imp EXCEPT !.pc = "leave", !.core = -1]
    BY <1>1, <2>3 DEF RestoreChecks
  <2> QED
    BY <2>1, <2>2, <2>3
<1>2. CASE ReadEnds
  BY <1>2 DEF ReadEnds
<1>3. CASE FinalFlush
  <2>1. CASE imp' = [imp EXCEPT !.pc = "finish"]
    BY <2>1
  <2>2. CASE imp.pool < 2 /\ imp' = [imp EXCEPT !.pool = @ + 1]
    BY <1>3, <2>2 DEF FinalFlush
  <2>3. imp.pool < 2 => imp.pool \in ImpPool
    BY DEF ImpPool
  <2>4. CASE imp.pool < 2 /\ imp.active /\ imp' = [imp EXCEPT !.pc = "look", !.after = "final"]
    BY <2>3, <2>4
  <2>5. CASE imp.pool < 2 /\ imp' = [ToLists(imp) EXCEPT !.after = "final"]
    BY <2>3, <2>5, Constants, SMTT(20) DEF ToLists
  <2> QED
    BY <1>3, <2>1, <2>2, <2>4, <2>5 DEF FinalFlush
<1>4. CASE LookInFlight
  BY <1>4 DEF LookInFlight
<1>5. CASE RoomFound
  BY <1>5 DEF RoomFound
<1>6. CASE RoomMade
  BY <1>6 DEF RoomMade
<1>7. CASE ImpNoRoom
  BY <1>7 DEF ImpNoRoom
<1>8. CASE Refused
  BY <1>8 DEF Refused
<1>9. CASE WaitOne
  BY <1>9 DEF WaitOne
<1>10. CASE Drained
  BY <1>10, Constants DEF Drained, ToLists
<1>11. CASE ListAdds
  BY <1>11 DEF ListAdds
<1>12. CASE ListRelief
  BY <1>12 DEF ListRelief
<1>13. CASE ListAborts
  BY <1>13 DEF ListAborts
<1>14. CASE ListEnds
  BY <1>14 DEF ListEnds
<1>15. CASE RestoreAnalysed
  <2>1. imp' = [imp EXCEPT !.pc = "leave"] \/ imp' = [imp EXCEPT !.pc = "leave", !.core = -1]
    BY <1>15 DEF RestoreAnalysed
  <2>2. CASE imp' = [imp EXCEPT !.pc = "leave"]
    BY <2>2
  <2>3. CASE imp' = [imp EXCEPT !.pc = "leave", !.core = -1]
    BY <2>3
  <2> QED
    BY <2>1, <2>2, <2>3
<1>16. CASE RestoreLeaves
  BY <1>16 DEF RestoreLeaves
<1> QED
  BY <1>1, <1>2, <1>3, <1>4, <1>5, <1>6, <1>7, <1>8, <1>9, <1>10, <1>11, <1>12, <1>13, <1>14, <1>15, <1>16

LEMMA QueueStepsKeepReader ==
  ReaderOK /\ StockOK /\ inflight \in Nat
  /\ (StartWorkers \/ PushDirect \/ Reserve \/ FillSlot \/ PublishSlot \/ Finish \/ Join) => ReaderOK'
<1> SUFFICES ASSUME ReaderOK, StockOK PROVE
     (StartWorkers \/ PushDirect \/ Reserve \/ FillSlot \/ PublishSlot \/ Finish \/ Join) => ReaderOK'
  OBVIOUS
<1> USE DEF ReaderOK, ImpPc, Pushing
<1>1. ASSUME imp.pc \in Pushing, imp' = Pushed(imp) PROVE ReaderOK'
  <2>1. (imp.nf[imp.pool] + 1) % NbLists \in 0 .. (NbLists - 1)
    BY <1>1, NextList
  <2>2. imp'.nf \in [ImpPool -> 0 .. (NbLists - 1)]
    BY <1>1, <2>1 DEF Pushed
  <2>3. imp'.buf \in [ImpPool -> Seq(Nat)] /\ \A p \in ImpPool : Len(imp'.buf[p]) <= ImpTarget
    BY <1>1, Constants DEF Pushed
  <2>4. /\ DOMAIN imp' = DOMAIN imp /\ imp'.pc = imp.after /\ imp'.w = 0
        /\ UNCHANGED <<imp.bk, imp.pos, imp.active, imp.pool, imp.listing, imp.after, imp.seen, imp.start, imp.nb,
                       imp.aborted>>
    BY <1>1 DEF Pushed
  <2> QED
    BY <2>2, <2>3, <2>4, Constants
<1>2. CASE StartWorkers
  <2>1. srv.set.workers \in 0 .. MaxWorkers
    BY DEF StockOK, SrvOK
  <2> QED
    BY <1>2, <2>1 DEF StartWorkers
<1>3. CASE PushDirect
  <2>1. CASE imp' = ToLists(imp)
    BY <1>3, <2>1, Constants, SMTT(20) DEF PushDirect, ToLists
  <2> QED
    BY <1>1, <1>3, <2>1 DEF PushDirect
<1>4. CASE Reserve
  <2>1. StackOf[2] \in Nat
    BY <1>4 DEF Reserve, StackOf
  <2>2. WorkerOf(StackOf[2]) \in 1 .. imp.nb
    <3>1. imp.nb \in Nat \ {0}
      BY <1>4, Constants DEF Reserve
    <3> QED
      BY <2>1, <3>1, ThreadOf DEF WorkerOf
  <2> HIDE DEF StackOf, WorkerOf
  <2> QED
    BY <1>4, <2>2, Constants, SMTT(20) DEF Reserve
<1>5. CASE FillSlot
  BY <1>5 DEF FillSlot
<1>6. CASE PublishSlot
  BY <1>1, <1>6 DEF PublishSlot
<1>7. CASE Finish
  BY <1>7 DEF Finish
<1>8. CASE Join
  BY <1>8, Constants DEF Join
<1> QED
  BY <1>2, <1>3, <1>4, <1>5, <1>6, <1>7, <1>8

LEMMA BeginsKeepsReader ==
  ASSUME ReaderOK, NEW b \in Backups, RestoreBegins(b) PROVE ReaderOK'
<1>1. imp' = [NotImporting EXCEPT !.pc = "check", !.bk = b]
  BY DEF RestoreBegins
<1> QED
  BY <1>1, Constants DEF ReaderOK, ImpPc, Pushing, NotImporting

LEMMA ReaderNext ==
  ReaderOK /\ StockOK /\ inflight \in Nat /\ [ImpNext]_impVars => ReaderOK'
<1> SUFFICES ASSUME ReaderOK, StockOK, inflight \in Nat, [ImpNext]_impVars PROVE ReaderOK'
  OBVIOUS
<1>1. ASSUME UNCHANGED imp PROVE ReaderOK'
  BY <1>1 DEF ReaderOK
<1>2. CASE \E w \in ImpWorker : WorkerStep(w)
  BY <1>1, <1>2 DEF WorkerStep, WorkerTakes, WorkerLinks, WorkerRefills, WorkerReleases, WorkerPops, WorkerExits
<1>3. CASE OperatorStops
  BY <1>1, <1>3 DEF OperatorStops
<1>4. CASE UNCHANGED impVars
  BY <1>1, <1>4 DEF impVars
<1>5. CASE ReaderStep
  BY <1>5, ReadRecordKeeps, ReaderKeeps, QueueStepsKeepReader DEF ReaderStep
<1> QED
  BY <1>2, <1>3, <1>4, <1>5, BeginsKeepsReader DEF ImpNext

-----------------------------------------------------------------------------
(* The tier and the memory it takes.                                       *)

LEMMA PlacesOf ==
  ASSUME NEW tier \in [ImpStack -> Seq(Seq(Nat))]
  PROVE  \A x : x \in TierPlaces(tier) <=>
                 \E k, b, i : k \in ImpStack /\ b \in 1 .. Len(tier[k]) /\ i \in 1 .. Len(tier[k][b]) /\ x = <<<<k, b>>, i>>
<1>1. \A k \in ImpStack : DOMAIN tier[k] = 1 .. Len(tier[k])
  OBVIOUS
<1>2. \A k \in ImpStack : \A b \in 1 .. Len(tier[k]) : DOMAIN tier[k][b] = 1 .. Len(tier[k][b])
  <2>1. ASSUME NEW k \in ImpStack, NEW b \in 1 .. Len(tier[k]) PROVE tier[k][b] \in Seq(Nat)
    BY <2>1, ElementOfSeq
  <2> QED
    BY <2>1
<1> QED
  BY <1>1, <1>2 DEF TierPlaces

LEMMA RowSize ==
  ASSUME NEW j, NEW n \in Nat
  PROVE  IsFiniteSet({j} \X (1 .. n)) /\ Cardinality({j} \X (1 .. n)) = n
<1>1. IsFiniteSet({j}) /\ Cardinality({j}) = 1
  BY FS_Singleton
<1>2. IsFiniteSet(1 .. n) /\ Cardinality(1 .. n) = n
  BY FS_Interval
<1>3. /\ IsFiniteSet({j} \X (1 .. n))
      /\ Cardinality({j} \X (1 .. n)) = Cardinality({j}) * Cardinality(1 .. n)
  BY <1>1, <1>2, FS_Product, Zenon
<1> QED
  BY <1>1, <1>2, <1>3

LEMMA LinkedSize ==
  ASSUME NEW tier \in [ImpStack -> Seq(Seq(Nat))], IsFiniteSet(TierPlaces(tier)),
         NEW k \in ImpStack, NEW recs \in Seq(Nat)
  PROVE  LET new == [tier EXCEPT ![k] = Append(@, recs)]
         IN  /\ new \in [ImpStack -> Seq(Seq(Nat))]
             /\ IsFiniteSet(TierPlaces(new))
             /\ Cardinality(TierPlaces(new)) = Cardinality(TierPlaces(tier)) + Len(recs)
<1> DEFINE new == [tier EXCEPT ![k] = Append(@, recs)]
           top == Len(tier[k]) + 1
           row == {<<k, top>>} \X (1 .. Len(recs))
<1>1. PICK t \in Seq(Seq(Nat)) : t = tier[k]
  OBVIOUS
<1>2. /\ Append(t, recs) \in Seq(Seq(Nat)) /\ Len(Append(t, recs)) = Len(t) + 1
      /\ Append(t, recs)[Len(t) + 1] = recs /\ \A b \in 1 .. Len(t) : Append(t, recs)[b] = t[b]
  BY AppendProperties
<1>3. /\ new \in [ImpStack -> Seq(Seq(Nat))]
      /\ new[k] = Append(t, recs) /\ \A j \in ImpStack : j # k => new[j] = tier[j]
  BY <1>1, <1>2
<1>4. Len(t) \in Nat /\ Len(recs) \in Nat /\ top = Len(t) + 1 /\ top \notin 1 .. Len(t)
  BY <1>1
<1>5. 1 .. (Len(t) + 1) = 1 .. Len(t) \cup {top}
  BY <1>4
<1> HIDE DEF new, top
<1>0. \A x : x \in TierPlaces(new) <=>
              \E j, b, i : j \in ImpStack /\ b \in 1 .. Len(new[j]) /\ i \in 1 .. Len(new[j][b]) /\ x = <<<<j, b>>, i>>
  BY <1>3, PlacesOf, Zenon
<1>6. TierPlaces(new) = TierPlaces(tier) \cup row
  <2>1. ASSUME NEW x \in TierPlaces(new) PROVE x \in TierPlaces(tier) \cup row
    <3>1. PICK j, b, i : j \in ImpStack /\ b \in 1 .. Len(new[j]) /\ i \in 1 .. Len(new[j][b]) /\ x = <<<<j, b>>, i>>
      BY <1>0
    <3>2. CASE j # k
      BY <1>3, <3>1, <3>2, PlacesOf
    <3>3. CASE j = k /\ b = top
      BY <1>2, <1>3, <1>4, <3>1, <3>3
    <3>4. CASE j = k /\ b \in 1 .. Len(t)
      BY <1>1, <1>2, <1>3, <3>1, <3>4, PlacesOf
    <3> QED
      BY <1>2, <1>3, <1>5, <3>1, <3>2, <3>3, <3>4, SMTT(20)
  <2>2. ASSUME NEW x \in TierPlaces(tier) PROVE x \in TierPlaces(new)
    <3>1. PICK j, b, i : j \in ImpStack /\ b \in 1 .. Len(tier[j]) /\ i \in 1 .. Len(tier[j][b]) /\ x = <<<<j, b>>, i>>
      BY PlacesOf, SMTT(20)
    <3>2. b \in 1 .. Len(new[j]) /\ new[j][b] = tier[j][b]
      BY <1>1, <1>2, <1>3, <1>5, <3>1
    <3> QED
      BY <1>0, <1>3, <3>1, <3>2
  <2>3. ASSUME NEW x \in row PROVE x \in TierPlaces(new)
    <3>1. PICK i \in 1 .. Len(recs) : x = <<<<k, top>>, i>>
      OBVIOUS
    <3>2. top \in 1 .. Len(new[k]) /\ new[k][top] = recs
      BY <1>2, <1>3, <1>4, <1>5
    <3> QED
      BY <1>0, <1>3, <3>1, <3>2
  <2> QED
    BY <2>1, <2>2, <2>3
<1>7. TierPlaces(tier) \cap row = {}
  <2>1. ASSUME NEW x \in TierPlaces(tier), x \in row PROVE FALSE
    <3>1. PICK j, b, i : j \in ImpStack /\ b \in 1 .. Len(tier[j]) /\ i \in 1 .. Len(tier[j][b]) /\ x = <<<<j, b>>, i>>
      BY PlacesOf, SMTT(20)
    <3>2. j = k /\ b = top
      BY <2>1, <3>1
    <3> QED
      BY <1>1, <1>4, <3>1, <3>2
  <2> QED
    BY <2>1
<1>8. IsFiniteSet(row) /\ Cardinality(row) = Len(recs)
  BY <1>4, RowSize
<1>9. Cardinality(TierPlaces(tier)) \in Nat
  BY FS_CardinalityType
<1> HIDE DEF row
<1>10. IsFiniteSet(TierPlaces(new)) /\ Cardinality(TierPlaces(new)) = Cardinality(TierPlaces(tier)) + Len(recs)
  <2>1. /\ IsFiniteSet(TierPlaces(tier) \cup row)
        /\ Cardinality(TierPlaces(tier) \cup row)
             = Cardinality(TierPlaces(tier)) + Cardinality(row) - Cardinality(TierPlaces(tier) \cap row)
    BY <1>8, FS_Union, Zenon
  <2>2. Cardinality(TierPlaces(tier) \cap row) = 0
    BY <1>7, FS_EmptySet
  <2>3. Cardinality(TierPlaces(tier) \cup row) = Cardinality(TierPlaces(tier)) + Len(recs)
    BY <1>4, <1>8, <1>9, <2>1, <2>2
  <2> QED
    BY <1>6, <2>1, <2>3
<1> QED
  BY <1>3, <1>10 DEF new

LEMMA ClearedSize ==
  ASSUME NEW tier \in [ImpStack -> Seq(Seq(Nat))], IsFiniteSet(TierPlaces(tier)), NEW k \in ImpStack
  PROVE  LET new == [tier EXCEPT ![k] = <<>>]
         IN  /\ new \in [ImpStack -> Seq(Seq(Nat))]
             /\ IsFiniteSet(TierPlaces(new))
             /\ Cardinality(TierPlaces(new)) <= Cardinality(TierPlaces(tier))
<1> DEFINE new == [tier EXCEPT ![k] = <<>>]
<1>1. new \in [ImpStack -> Seq(Seq(Nat))]
  OBVIOUS
<1>2. new[k] = <<>> /\ \A j \in ImpStack : j # k => new[j] = tier[j]
  OBVIOUS
<1> HIDE DEF new
<1>0. \A x : x \in TierPlaces(new) <=>
              \E j, b, i : j \in ImpStack /\ b \in 1 .. Len(new[j]) /\ i \in 1 .. Len(new[j][b]) /\ x = <<<<j, b>>, i>>
  BY <1>1, PlacesOf, Zenon
<1>3. ASSUME NEW x \in TierPlaces(new) PROVE x \in TierPlaces(tier)
  <2>1. PICK j, b, i : j \in ImpStack /\ b \in 1 .. Len(new[j]) /\ i \in 1 .. Len(new[j][b]) /\ x = <<<<j, b>>, i>>
    BY <1>0
  <2>2. j # k
    BY <1>2, <2>1
  <2> QED
    BY <1>2, <2>1, <2>2, PlacesOf
<1>4. IsFiniteSet(TierPlaces(new)) /\ Cardinality(TierPlaces(new)) <= Cardinality(TierPlaces(tier))
  BY <1>3, FS_Subset
<1> QED
  BY <1>1, <1>4 DEF new

LEMMA EmptySize ==
  /\ Kept \in [ImpStack -> Seq(Seq(Nat))]
  /\ TierPlaces(Kept) = {} /\ IsFiniteSet({}) /\ Cardinality({}) = 0
<1>1. Kept \in [ImpStack -> Seq(Seq(Nat))] /\ \A k \in ImpStack : Kept[k] = <<>>
  BY DEF Kept
<1>2. TierPlaces(Kept) = {}
  BY <1>1, PlacesOf
<1> QED
  BY <1>1, <1>2, FS_EmptySet

LEMMA StackIs == ASSUME ReaderOK, imp.pc \in Pushing PROVE StackOf \in ImpStack /\ Block \in Seq(Nat) /\ Len(Block) \in 0 .. ImpTarget
<1>1. imp.pool \in ImpPool /\ imp.buf \in [ImpPool -> Seq(Nat)] /\ imp.nf \in [ImpPool -> 0 .. (NbLists - 1)]
      /\ Len(imp.buf[imp.pool]) <= ImpTarget
  BY DEF ReaderOK
<1> QED
  BY <1>1, Constants DEF StackOf, Block, ImpStack

LEMMA JobIs ==
  ASSUME QueuesOK, NEW w \in ImpWorker
  PROVE  Job(w) \in JobRec
BY DEF QueuesOK, Job

LEMMA ToDiskKeeps ==
  ASSUME StockOK, NEW k \in ImpStack, held' = ToDisk(k)
  PROVE  /\ DOMAIN held' = DOMAIN held /\ held'.lists = held.lists
         /\ held'.tier \in [ImpStack -> Seq(Seq(Nat))] /\ IsFiniteSet(TierPlaces(held'.tier))
         /\ TierSize' <= TierSize
<1>1. DOMAIN held' = DOMAIN held /\ held'.lists = held.lists /\ held'.tier = [held.tier EXCEPT ![k] = <<>>]
  BY DEF ToDisk, StockOK
<1> QED
  BY <1>1, ClearedSize DEF StockOK, TierSize

LEMMA LinkKeeps ==
  ASSUME StockOK, NEW k \in ImpStack, NEW recs \in Seq(Nat), held' = [held EXCEPT !.tier[k] = Append(@, recs)]
  PROVE  /\ DOMAIN held' = DOMAIN held /\ held'.lists = held.lists
         /\ held'.tier \in [ImpStack -> Seq(Seq(Nat))] /\ IsFiniteSet(TierPlaces(held'.tier))
         /\ TierSize' = TierSize + Len(recs)
<1>1. DOMAIN held' = DOMAIN held /\ held'.lists = held.lists /\ held'.tier = [held.tier EXCEPT ![k] = Append(@, recs)]
  BY DEF StockOK
<1>2. held.tier \in [ImpStack -> Seq(Seq(Nat))] /\ IsFiniteSet(TierPlaces(held.tier))
  BY DEF StockOK
<1>3. LET new == [held.tier EXCEPT ![k] = Append(@, recs)]
      IN  /\ new \in [ImpStack -> Seq(Seq(Nat))]
          /\ IsFiniteSet(TierPlaces(new))
          /\ Cardinality(TierPlaces(new)) = Cardinality(TierPlaces(held.tier)) + Len(recs)
  BY <1>2, LinkedSize, Zenon
<1> QED
  BY <1>1, <1>3 DEF TierSize

LEMMA FailureCounted ==
  ASSUME SrvOK, srv.set.fails > 0, srv' = [srv EXCEPT !.set.fails = @ - 1, !.failed = TRUE]
  PROVE  SrvOK' /\ srv'.failed
BY DEF SrvOK

LEMMA TierOnly ==
  ASSUME StockOK, DOMAIN held' = DOMAIN held, held'.lists \in SUBSET Nat, IsFiniteSet(held'.lists), held'.tier = held.tier, SrvOK'
  PROVE  StockOK'
BY DEF StockOK, SrvOK

LEMMA RecordsFinite == ASSUME NEW s \in Seq(Nat) PROVE IsFiniteSet(ToSet(s))
<1>1. IsFiniteSet(1 .. Len(s))
  BY FS_Interval
<1>2. ToSet(s) = {s[i] : i \in 1 .. Len(s)}
  BY DEF ToSet
<1> DEFINE f == [i \in 1 .. Len(s) |-> s[i]]
<1>3. f \in Surjection(1 .. Len(s), ToSet(s))
  BY <1>2 DEF Surjection
<1> QED
  BY <1>1, <1>3, FS_Surjection

LEMMA StockNext ==
  ReaderOK /\ StockOK /\ QueuesOK /\ [ImpNext]_impVars => StockOK'
<1> SUFFICES ASSUME ReaderOK, StockOK, QueuesOK, [ImpNext]_impVars PROVE StockOK'
  OBVIOUS
<1>1. SrvOK
  BY DEF StockOK, SrvOK
<1>2. ASSUME UNCHANGED held, SrvOK' PROVE StockOK'
  BY <1>2, TierOnly DEF StockOK
<1>3. ASSUME UNCHANGED srv, NEW k \in ImpStack, held' = ToDisk(k) PROVE StockOK'
  BY <1>1, <1>3, ToDiskKeeps DEF StockOK, SrvOK
<1>4. ASSUME UNCHANGED srv, NEW k \in ImpStack, NEW recs \in Seq(Nat), held' = [held EXCEPT !.tier[k] = Append(@, recs)]
      PROVE  StockOK'
  BY <1>1, <1>4, LinkKeeps DEF StockOK, SrvOK
<1>5. UNCHANGED srv => SrvOK'
  BY <1>1 DEF SrvOK
<1>6. ASSUME NEW b \in Backups, RestoreBegins(b) PROVE StockOK'
  <2>1. SrvOK'
    BY <1>1, <1>6 DEF RestoreBegins, SrvOK
  <2>2. held' = held \/ \E x : held' = [held EXCEPT !.kept = x]
    BY <1>6 DEF RestoreBegins
  <2> QED
    BY <1>2, <2>1, <2>2, TierOnly DEF StockOK
<1>7. CASE RestoreChecks
  <2>1. CASE UNCHANGED held
    BY <1>2, <1>5, <1>7, <2>1 DEF RestoreChecks
  <2>2. CASE held' = [held EXCEPT !.lists = {}, !.tier = Kept, !.disk = Kept]
    <3>1. DOMAIN held' = DOMAIN held /\ held'.lists = {} /\ held'.tier = Kept
      BY <2>2 DEF StockOK
    <3> QED
      BY <1>5, <1>7, <3>1, EmptySize DEF RestoreChecks, StockOK, SrvOK
  <2> QED
    BY <1>7, <2>1, <2>2 DEF RestoreChecks
<1>8. CASE RoomMade
  BY <1>3, <1>8 DEF RoomMade
<1>9. CASE PushDirect
  <2>1. imp.pc \in Pushing
    BY <1>9 DEF PushDirect, Pushing
  <2>2. CASE held' = [held EXCEPT !.tier[StackOf] = Append(@, Block)] /\ UNCHANGED srv
    BY <1>4, <2>1, <2>2, StackIs
  <2>3. CASE UNCHANGED held /\ srv.set.fails > 0 /\ srv' = [srv EXCEPT !.set.fails = @ - 1, !.failed = TRUE]
    BY <1>1, <1>2, <2>3, FailureCounted
  <2> QED
    BY <1>9, <2>2, <2>3 DEF PushDirect
<1>10. CASE ListAdds
  <2>1. Head(imp.listing) \in Nat
    BY <1>10 DEF ReaderOK, ListAdds
  <2>2. DOMAIN held' = DOMAIN held /\ held'.lists = held.lists \cup {Head(imp.listing)} /\ held'.tier = held.tier
    BY <1>10 DEF ListAdds, StockOK
  <2>3. held'.lists \in SUBSET Nat /\ IsFiniteSet(held'.lists)
    <3>1. IsFiniteSet(held.lists) /\ held.lists \subseteq Nat
      BY DEF StockOK
    <3>2. IsFiniteSet(held.lists \cup {Head(imp.listing)})
      BY <3>1, FS_AddElement, Zenon
    <3> QED
      BY <2>1, <2>2, <3>1, <3>2
  <2> QED
    BY <1>5, <1>10, <2>2, <2>3, TierOnly DEF ListAdds
<1>11. CASE ListRelief
  <2>1. CASE \E k \in ImpStack : held' = ToDisk(k)
    BY <1>3, <1>11, <2>1 DEF ListRelief
  <2>2. CASE \E r : \E x : held' = [held EXCEPT !.lists = @ \ {r}, !.disk = x]
    <3>1. DOMAIN held' = DOMAIN held /\ held'.lists \in SUBSET held.lists /\ held'.tier = held.tier
      BY <2>2 DEF StockOK
    <3>2. held'.lists \in SUBSET Nat /\ IsFiniteSet(held'.lists)
      BY <3>1, FS_Subset DEF StockOK
    <3> QED
      BY <1>5, <1>11, <3>1, <3>2, TierOnly DEF ListRelief
  <2> QED
    BY <1>11, <2>1, <2>2 DEF ListRelief
<1>12. CASE RestoreAnalysed
  <2>1. held' = held \/ \E x : held' = [held EXCEPT !.analysed = x]
    BY <1>12 DEF RestoreAnalysed
  <2> QED
    BY <1>2, <1>5, <1>12, <2>1, TierOnly DEF StockOK, RestoreAnalysed
<1>13. CASE RestoreLeaves
  <2>1. SrvOK'
    BY <1>1, <1>13 DEF RestoreLeaves, SrvOK
  <2> QED
    BY <1>2, <1>13, <2>1 DEF RestoreLeaves
<1>14. CASE OperatorStops
  <2>1. SrvOK'
    BY <1>1, <1>14 DEF OperatorStops, SrvOK
  <2> QED
    BY <1>2, <1>14, <2>1 DEF OperatorStops
<1>15. ASSUME NEW w \in ImpWorker, WorkerStep(w) PROVE StockOK'
  <2>1. Job(w).recs \in Seq(Nat) /\ Job(w).stack \in ImpStack
    BY JobIs DEF JobRec
  <2>2. CASE WorkerLinks(w)
    BY <1>4, <2>1, <2>2 DEF WorkerLinks
  <2>3. CASE WorkerRefills(w)
    <3>1. ToSet(Job(w).recs) \subseteq Nat
      BY <2>1, ElementOfSeq DEF ToSet
    <3>2. DOMAIN held' = DOMAIN held /\ held'.lists = held.lists \cup ToSet(Job(w).recs) /\ held'.tier = held.tier
      BY <2>3 DEF WorkerRefills, StockOK
    <3>3. held'.lists \in SUBSET Nat /\ IsFiniteSet(held'.lists)
      <4>1. IsFiniteSet(held.lists \cup ToSet(Job(w).recs))
        BY <2>1, RecordsFinite, FS_Union, Zenon DEF StockOK
      <4> QED
        BY <3>1, <3>2, <4>1 DEF StockOK
    <3>4. SrvOK'
      BY <1>1, <2>3, FailureCounted DEF WorkerRefills
    <3> QED
      BY <3>2, <3>3, <3>4, TierOnly
  <2>4. CASE WorkerTakes(w) \/ WorkerReleases(w) \/ WorkerPops(w) \/ WorkerExits(w)
    BY <1>2, <1>5, <2>4 DEF WorkerTakes, WorkerReleases, WorkerPops, WorkerExits
  <2> QED
    BY <1>15, <2>2, <2>3, <2>4 DEF WorkerStep
<1>16. CASE UNCHANGED impVars
  BY <1>2, <1>5, <1>16 DEF impVars
<1>17. CASE ReadRecord \/ ReadEnds \/ FinalFlush \/ LookInFlight \/ RoomFound \/ ImpNoRoom \/ Refused \/ WaitOne
            \/ Drained \/ ListAborts \/ ListEnds
  BY <1>2, <1>5, <1>17 DEF ReadRecord, ReadEnds, FinalFlush, LookInFlight, RoomFound, ImpNoRoom, Refused, WaitOne,
     Drained, ListAborts, ListEnds
<1>18. CASE StartWorkers \/ Reserve \/ FillSlot \/ PublishSlot \/ Finish \/ Join
  BY <1>2, <1>5, <1>18 DEF StartWorkers, Reserve, FillSlot, PublishSlot, Finish, Join
<1> QED
  BY <1>6, <1>7, <1>8, <1>9, <1>10, <1>11, <1>12, <1>13, <1>14, <1>15, <1>16, <1>17, <1>18 DEF ImpNext, ReaderStep

-----------------------------------------------------------------------------
(* The queues of the threads.                                              *)

LEMMA SlotAt ==
  ASSUME NEW h \in Slot, NEW c \in 0 .. Depth
  PROVE  /\ (h + c) % Depth \in Slot
         /\ (h + c) % Depth = IF h + c < Depth THEN h + c ELSE h + c - Depth
<1>1. Depth \in Nat \ {0}
  BY Constants
<1>2. PICK x \in 0 .. (2 * Depth - 1) : x = h + c
  BY <1>1 DEF Slot
<1> DEFINE q == x \div Depth
<1>3. x = Depth * q + (x % Depth) /\ q \in Int /\ x % Depth \in 0 .. (Depth - 1)
  <2>1. x \in Nat
    BY <1>1, <1>2
  <2> QED
    BY <1>1, <2>1
<1> HIDE DEF q
<1>4. ~ (q >= 2)
  <2>1. ASSUME q >= 2 PROVE Depth * q >= Depth * 2
    BY <1>1, <1>3, <2>1
  <2> QED
    BY <1>1, <1>2, <1>3, <2>1
<1>5. ~ (q <= -1)
  <2>1. ASSUME q <= -1 PROVE Depth * q <= -Depth
    BY <1>1, <1>3, <2>1
  <2> QED
    BY <1>1, <1>2, <1>3, <2>1
<1>6. CASE q = 0
  <2>1. x % Depth = x
    BY <1>1, <1>2, <1>3, <1>6
  <2> QED
    BY <1>1, <1>2, <1>3, <2>1 DEF Slot
<1>7. CASE q = 1
  <2>1. x % Depth = x - Depth
    BY <1>1, <1>2, <1>3, <1>7
  <2> QED
    BY <1>1, <1>2, <1>3, <2>1 DEF Slot
<1> QED
  BY <1>3, <1>4, <1>5, <1>6, <1>7

QueueRec == [pc : WorkerPc, head : Slot, count : 0 .. Depth, slots : [Slot -> JobRec], stop : BOOLEAN]

LEMMA NoWorkerIs == NoWorker \in QueueRec /\ NoWorker.pc = "wait" /\ NoWorker.count = 0 /\ ~ NoWorker.stop
<1>1. <<0, 0>> \in ImpStack /\ 0 \in Slot
  BY Constants DEF ImpStack, ImpPool, Slot
<1>2. NoBlock \in JobRec
  BY <1>1 DEF NoBlock, JobRec
<1> QED
  BY <1>1, <1>2, Constants DEF NoWorker, QueueRec, WorkerPc, Slot

\* A step of the thread that restores that leaves the threads alone.
LEMMA QueuesAlone ==
  ASSUME QueuesOK, UNCHANGED wk, imp'.nb = imp.nb, imp.pc # "join" \/ imp'.pc = "join"
  PROVE  QueuesOK'
BY DEF QueuesOK

LEMMA AllNew ==
  ASSUME wk' = [w \in ImpWorker |-> NoWorker]
  PROVE  QueuesOK' /\ \A w \in ImpWorker, s \in Slot : ~ Waits(w, s)'
<1>1. QueuesOK'
  BY NoWorkerIs DEF QueuesOK, QueueRec
<1>2. ASSUME NEW w \in ImpWorker, NEW s \in Slot PROVE ~ Waits(w, s)'
  <2>1. wk'[w].count = 0 /\ wk'[w].head \in Slot
    BY NoWorkerIs DEF QueueRec
  <2> QED
    BY <2>1, Constants DEF Waits, RankFrom, Slot
<1> QED
  BY <1>1, <1>2

\* A step of one queue: the others are as they were.
LEMMA OneQueue ==
  ASSUME QueuesOK, NEW w \in ImpWorker, NEW q \in QueueRec, wk' = [wk EXCEPT ![w] = q], imp'.nb = imp.nb,
         imp.pc # "join" \/ imp'.pc = "join",
         w > imp.nb => q.pc = "wait" /\ q.count = 0 /\ ~ q.stop,
         q.pc \in {"build", "pop", "release"} => q.count > 0,
         q.pc = "exit" => q.count = 0 /\ q.stop,
         q.stop => imp.pc = "join"
  PROVE  QueuesOK'
<1>1. wk' \in [ImpWorker -> QueueRec] /\ wk'[w] = q /\ \A v \in ImpWorker : v # w => wk'[v] = wk[v]
  BY DEF QueuesOK, QueueRec
<1> QED
  BY <1>1 DEF QueuesOK, QueueRec

LEMMA QueuesNext ==
  ReaderOK /\ StockOK /\ QueuesOK /\ JobsOK /\ [ImpNext]_impVars => QueuesOK'
<1> SUFFICES ASSUME ReaderOK, StockOK, QueuesOK, JobsOK, [ImpNext]_impVars PROVE QueuesOK'
  OBVIOUS
<1>1. ASSUME NEW b \in Backups, RestoreBegins(b) PROVE QueuesOK'
  BY <1>1, QueuesAlone DEF RestoreBegins, ReaderOK, NotImporting
<1>2. CASE RestoreChecks \/ ReadRecord \/ ReadEnds \/ FinalFlush \/ LookInFlight \/ RoomFound \/ RoomMade \/ ImpNoRoom
           \/ Refused \/ WaitOne \/ Drained
  <2>1. UNCHANGED wk /\ imp'.nb = imp.nb /\ imp.pc # "join"
    BY <1>2, Fields DEF RestoreChecks, ReadRecord, ReadEnds, FinalFlush, LookInFlight, RoomFound, RoomMade, ImpNoRoom, Refused,
       WaitOne, Drained, ToLists
  <2> QED
    BY <2>1, QueuesAlone
<1>3. CASE PushDirect \/ Reserve \/ ListAdds \/ ListRelief \/ ListAborts \/ ListEnds \/ RestoreAnalysed \/ RestoreLeaves
  <2>1. UNCHANGED wk /\ imp'.nb = imp.nb /\ imp.pc # "join"
    BY <1>3 DEF PushDirect, Reserve, Pushed, ListAdds, ListRelief, ListAborts, ListEnds, RestoreAnalysed, RestoreLeaves,
       ToLists, ReaderOK
  <2> QED
    BY <2>1, QueuesAlone
<1>4. CASE StartWorkers \/ Join
  BY <1>4, AllNew DEF StartWorkers, Join
<1>5. CASE FillSlot
  <2> DEFINE w == imp.w
             h == (wk[w].head + wk[w].count) % Depth
             job == [stack |-> StackOf, recs |-> Block, cost |-> Cost(Block)]
  <2>1. w \in ImpWorker /\ imp.pc = "slot" /\ w \in 1 .. imp.nb
    BY <1>5 DEF FillSlot, ReaderOK, ImpWorker
  <2>2. wk[w] \in QueueRec
    BY <2>1 DEF QueuesOK, QueueRec
  <2>3. h \in Slot
    BY <2>2, SlotAt DEF QueueRec
  <2>4. job \in JobRec
    BY <2>1, StackIs, Constants DEF JobRec, Cost, Pushing
  <2>5. wk' = [wk EXCEPT ![w].slots[h] = job] /\ imp' = [imp EXCEPT !.pc = "publish"]
    BY <1>5 DEF FillSlot
  <2> HIDE DEF w, h, job
  <2>6. PICK q : q = [wk[w] EXCEPT !.slots[h] = job]
    OBVIOUS
  <2>7. q \in QueueRec /\ q.pc = wk[w].pc /\ q.count = wk[w].count /\ q.stop = wk[w].stop
    BY <2>2, <2>3, <2>4, <2>6 DEF QueueRec
  <2>8. wk' = [wk EXCEPT ![w] = q]
    BY <2>1, <2>5, <2>6
  <2>9. imp'.nb = imp.nb
    BY <2>5 DEF ReaderOK
  <2> QED
    BY <2>1, <2>7, <2>8, <2>9, OneQueue DEF QueuesOK
<1>6. CASE PublishSlot
  <2> DEFINE w == imp.w
  <2>1. w \in ImpWorker /\ imp.pc = "publish" /\ w \in 1 .. imp.nb
    BY <1>6 DEF PublishSlot, ReaderOK, ImpWorker
  <2>2. wk[w] \in QueueRec /\ wk[w].count < Depth
    BY <2>1 DEF QueuesOK, QueueRec, JobsOK
  <2>3. wk' = [wk EXCEPT ![w].count = @ + 1] /\ imp' = Pushed(imp)
    BY <1>6 DEF PublishSlot
  <2> HIDE DEF w
  <2>4. PICK q : q = [wk[w] EXCEPT !.count = @ + 1]
    OBVIOUS
  <2>5. q \in QueueRec /\ q.pc = wk[w].pc /\ q.count = wk[w].count + 1 /\ q.stop = wk[w].stop
    BY <2>2, <2>4, Constants DEF QueueRec
  <2>6. wk' = [wk EXCEPT ![w] = q]
    BY <2>1, <2>3, <2>4
  <2>7. imp'.nb = imp.nb
    BY <2>3 DEF ReaderOK, Pushed
  <2>8. ~ wk[w].stop /\ wk[w].pc # "exit" /\ ~ (w > imp.nb)
    <3>1. imp.nb \in Nat /\ ~ (w > imp.nb)
      BY <2>1, Constants DEF ReaderOK
    <3> QED
      BY <2>1, <3>1 DEF QueuesOK
  <2>9. q.count > 0 /\ ~ q.stop /\ q.pc # "exit" /\ ~ (w > imp.nb)
    BY <2>2, <2>5, <2>8 DEF QueueRec
  <2> QED
    BY <2>1, <2>5, <2>6, <2>7, <2>9, OneQueue
<1>7. CASE Finish
  <2>1. \A w \in ImpWorker : wk'[w] = IF w <= imp.nb THEN [wk[w] EXCEPT !.stop = TRUE] ELSE wk[w]
    BY <1>7 DEF Finish
  <2>2. wk' \in [ImpWorker -> QueueRec] /\ imp'.nb = imp.nb /\ imp'.pc = "join"
    <3>1. wk \in [ImpWorker -> QueueRec]
      BY DEF QueuesOK, QueueRec
    <3>2. \A q \in QueueRec : [q EXCEPT !.stop = TRUE] \in QueueRec
      BY DEF QueueRec
    <3>3. wk' \in [ImpWorker -> QueueRec]
      BY <1>7, <3>1, <3>2 DEF Finish
    <3> QED
      BY <1>7, <3>3, Fields DEF Finish
  <2>3. \A w \in ImpWorker : /\ wk'[w].pc = wk[w].pc /\ wk'[w].count = wk[w].count /\ (wk[w].stop => wk'[w].stop)
                             /\ w > imp.nb => wk'[w].stop = wk[w].stop
    <3>1. imp.nb \in Nat
      BY Constants DEF ReaderOK
    <3>2. ASSUME NEW w \in ImpWorker
          PROVE  /\ wk'[w].pc = wk[w].pc /\ wk'[w].count = wk[w].count /\ (wk[w].stop => wk'[w].stop)
                 /\ w > imp.nb => wk'[w].stop = wk[w].stop
      <4>1. wk[w] \in QueueRec /\ w \in Nat
        BY DEF QueuesOK, QueueRec, ImpWorker
      <4>2. CASE w <= imp.nb
        <5>1. PICK q \in QueueRec : q = wk[w]
          BY <4>1
        <5>2. wk'[w] = [q EXCEPT !.stop = TRUE] /\ ~ (w > imp.nb)
          BY <2>1, <3>1, <4>1, <4>2, <5>1
        <5>3. wk'[w].pc = q.pc /\ wk'[w].count = q.count /\ wk'[w].stop = TRUE
          BY <5>2 DEF QueueRec
        <5> QED
          BY <5>1, <5>2, <5>3
      <4>3. CASE ~ (w <= imp.nb)
        BY <2>1, <4>3
      <4> QED
        BY <4>2, <4>3
    <3> QED
      BY <3>2
  <2>4. imp.nb \in Nat /\ ImpWorker \subseteq Nat
    BY Constants DEF ReaderOK, ImpWorker
  <2>5. ASSUME NEW w \in ImpWorker
        PROVE  /\ w > imp'.nb => wk'[w].pc = "wait" /\ wk'[w].count = 0 /\ ~ wk'[w].stop
               /\ wk'[w].pc \in {"build", "pop", "release"} => wk'[w].count > 0
               /\ wk'[w].pc = "exit" => wk'[w].count = 0 /\ wk'[w].stop
    <3>1. w > imp.nb => wk[w].pc = "wait" /\ wk[w].count = 0 /\ ~ wk[w].stop
      BY DEF QueuesOK
    <3>2. wk[w].pc \in {"build", "pop", "release"} => wk[w].count > 0
      BY DEF QueuesOK
    <3>3. wk[w].pc = "exit" => wk[w].count = 0 /\ wk[w].stop
      BY DEF QueuesOK
    <3>4. w > imp'.nb => wk'[w].pc = "wait" /\ wk'[w].count = 0 /\ ~ wk'[w].stop
      BY <2>2, <2>3, <3>1
    <3>5. wk'[w].pc = "exit" => wk'[w].count = 0 /\ wk'[w].stop
      BY <2>3, <3>3
    <3> QED
      BY <2>3, <3>2, <3>4, <3>5
  <2> QED
    BY <2>2, <2>5 DEF QueuesOK, QueueRec
<1>8. ASSUME NEW w \in ImpWorker, WorkerStep(w) PROVE QueuesOK'
  <2>1. wk[w] \in QueueRec /\ UNCHANGED imp
    BY <1>8 DEF QueuesOK, QueueRec, WorkerStep, WorkerTakes, WorkerLinks, WorkerRefills, WorkerReleases, WorkerPops, WorkerExits
  <2>2. ASSUME NEW pc \in WorkerPc, wk' = [wk EXCEPT ![w].pc = pc],
               pc = "build" => wk[w].count > 0 /\ w <= imp.nb,
               pc \in {"pop", "release"} => wk[w].pc \in {"build", "release"},
               pc = "exit" => wk[w].pc = "wait" /\ wk[w].count = 0 /\ wk[w].stop,
               pc # "wait"
        PROVE  QueuesOK'
    <3>1. PICK q : q = [wk[w] EXCEPT !.pc = pc]
      OBVIOUS
    <3>2. q \in QueueRec /\ q.pc = pc /\ q.count = wk[w].count /\ q.stop = wk[w].stop
      BY <2>1, <3>1 DEF QueueRec
    <3>3. wk' = [wk EXCEPT ![w] = q]
      BY <2>2, <3>1
    <3>4. imp.nb \in Nat /\ w \in Nat
      BY Constants DEF ReaderOK, ImpWorker
    <3>5. ~ (w > imp.nb) /\ (wk[w].stop => imp.pc = "join")
      <4>1. wk[w].stop => imp.pc = "join"
        BY DEF QueuesOK
      <4>2. w > imp.nb => wk[w].pc = "wait" /\ wk[w].count = 0 /\ ~ wk[w].stop
        BY DEF QueuesOK
      <4>3. CASE pc = "build"
        BY <2>2, <3>4, <4>1, <4>3
      <4>4. CASE pc \in {"pop", "release", "exit"}
        BY <2>2, <4>1, <4>2, <4>4
      <4> QED
        BY <2>2, <4>3, <4>4 DEF WorkerPc
    <3>6. pc \in {"build", "pop", "release"} => wk[w].count > 0
      BY <2>2 DEF QueuesOK
    <3>7. q.pc = "exit" => q.count = 0 /\ q.stop
      BY <2>2, <3>2
    <3>8. imp'.nb = imp.nb /\ imp'.pc = imp.pc
      BY <2>1
    <3>9. q.stop => imp.pc = "join"
      BY <3>2, <3>5
    <3>10. q.pc \in {"build", "pop", "release"} => q.count > 0
      BY <3>2, <3>6
    <3> QED
      BY <3>2, <3>3, <3>5, <3>7, <3>8, <3>9, <3>10, OneQueue
  <2>3. imp.nb \in Nat /\ w \in Nat
    BY Constants DEF ReaderOK, ImpWorker
  <2>4. CASE WorkerTakes(w)
    BY <2>2, <2>3, <2>4 DEF WorkerTakes, WorkerPc
  <2>5. CASE WorkerLinks(w)
    BY <2>2, <2>5 DEF WorkerLinks, WorkerPc
  <2>6. CASE WorkerRefills(w)
    BY <2>2, <2>6 DEF WorkerRefills, WorkerPc
  <2>7. CASE WorkerReleases(w)
    BY <2>2, <2>7 DEF WorkerReleases, WorkerPc
  <2>8. CASE WorkerExits(w)
    BY <2>2, <2>8 DEF WorkerExits, WorkerPc
  <2>9. CASE WorkerPops(w)
    <3>1. wk[w].count > 0 /\ ~ (w > imp.nb) /\ (wk[w].stop => imp.pc = "join")
      BY <2>9 DEF WorkerPops, QueuesOK
    <3>2. (wk[w].head + 1) % Depth \in Slot
      BY <2>1, SlotAt, Constants DEF QueueRec
    <3>3. /\ wk' = [wk EXCEPT ![w] = wk'[w]]
          /\ wk'[w] = [wk[w] EXCEPT !.pc = "wait", !.head = (@ + 1) % Depth, !.count = @ - 1]
      BY <2>9 DEF WorkerPops, QueuesOK
    <3>4. PICK q : q = wk'[w]
      OBVIOUS
    <3>5. wk[w].count - 1 \in 0 .. Depth
      BY <2>1, <3>1, Constants DEF QueueRec
    <3>6. q \in QueueRec /\ q.pc = "wait" /\ q.stop = wk[w].stop
      BY <2>1, <3>2, <3>3, <3>4, <3>5 DEF QueueRec, WorkerPc
    <3> QED
      BY <2>1, <3>1, <3>3, <3>4, <3>6, OneQueue
  <2> QED
    BY <1>8, <2>4, <2>5, <2>6, <2>7, <2>8, <2>9 DEF WorkerStep
<1>9. CASE OperatorStops \/ UNCHANGED impVars
  BY <1>9, QueuesAlone DEF OperatorStops, impVars
<1> QED
  BY <1>1, <1>2, <1>3, <1>4, <1>5, <1>6, <1>7, <1>8, <1>9 DEF ImpNext, ReaderStep

-----------------------------------------------------------------------------
(* The jobs and what is reserved for them.                                 *)

LEMMA RankAt ==
  ASSUME NEW h \in Slot
  PROVE  /\ \A s \in Slot : RankFrom(h, s) \in Slot
         /\ \A s, t \in Slot : RankFrom(h, s) = RankFrom(h, t) => s = t
         /\ \A c \in Slot : (h + c) % Depth \in Slot /\ RankFrom(h, (h + c) % Depth) = c
         /\ RankFrom(h, h) = 0
<1>1. Depth \in Nat \ {0}
  BY Constants
<1>2. ASSUME NEW c \in Slot PROVE (h + c) % Depth \in Slot /\ RankFrom(h, (h + c) % Depth) = c
  <2>1. c \in 0 .. Depth
    BY <1>1 DEF Slot
  <2>2. PICK x : x = (h + c) % Depth
    OBVIOUS
  <2>3. x \in Slot /\ x = IF h + c < Depth THEN h + c ELSE h + c - Depth
    BY <2>1, <2>2, SlotAt
  <2> QED
    BY <1>1, <2>2, <2>3 DEF RankFrom, Slot
<1> QED
  BY <1>1, <1>2 DEF RankFrom, Slot

LEMMA RankNext ==
  ASSUME NEW h \in Slot, NEW s \in Slot
  PROVE  /\ (h + 1) % Depth \in Slot
         /\ RankFrom(h, s) > 0 => RankFrom((h + 1) % Depth, s) = RankFrom(h, s) - 1
         /\ RankFrom(h, s) = 0 => RankFrom((h + 1) % Depth, s) = Depth - 1
<1>1. Depth \in Nat \ {0} /\ 1 \in 0 .. Depth
  BY Constants
<1>2. PICK x : x = (h + 1) % Depth
  OBVIOUS
<1>3. x \in Slot /\ x = IF h + 1 < Depth THEN h + 1 ELSE h + 1 - Depth
  BY <1>1, <1>2, SlotAt
<1> QED
  BY <1>1, <1>2, <1>3 DEF RankFrom, Slot

LEMMA ReservedFinite == IsFiniteSet(Reserved) /\ Cardinality(Reserved) \in Nat
<1>1. IsFiniteSet(ImpWorker) /\ IsFiniteSet(Slot) /\ IsFiniteSet(1 .. MaxCost)
  BY FS_Interval, Constants DEF ImpWorker, Slot, MaxCost
<1>2. IsFiniteSet(ImpWorker \X Slot)
  BY <1>1, FS_Product, Zenon
<1>3. IsFiniteSet((ImpWorker \X Slot) \X (1 .. MaxCost))
  BY <1>1, <1>2, FS_Product, Zenon
<1>4. Reserved \in SUBSET ((ImpWorker \X Slot) \X (1 .. MaxCost))
  BY DEF Reserved
<1>5. IsFiniteSet(Reserved)
  BY <1>3, <1>4, FS_Subset, Zenon
<1> QED
  BY <1>5, FS_CardinalityType

\* The jobs that wait are the same, and so is what is reserved.
LEMMA SameJobs ==
  ASSUME \A w \in ImpWorker, s \in Slot : /\ Waits(w, s)' <=> Waits(w, s)
                                          /\ Waits(w, s) => wk'[w].slots[s] = wk[w].slots[s]
  PROVE  Reserved' = Reserved
<1>1. ASSUME NEW v \in ImpWorker, NEW r \in Slot, NEW x \in 1 .. MaxCost
      PROVE  <<<<v, r>>, x>> \in Reserved' <=> <<<<v, r>>, x>> \in Reserved
  BY DEF Reserved
<1>2. Reserved' \subseteq (ImpWorker \X Slot) \X (1 .. MaxCost) /\ Reserved \subseteq (ImpWorker \X Slot) \X (1 .. MaxCost)
  BY DEF Reserved
<1> QED
  BY <1>1, <1>2

LEMMA NoJobs ==
  ASSUME \A w \in ImpWorker, s \in Slot : ~ Waits(w, s)
  PROVE  Reserved = {} /\ Cardinality(Reserved) = 0
<1>1. Reserved = {}
  BY DEF Reserved
<1> QED
  BY <1>1, FS_EmptySet

\* One more job waits, in the slot s of the thread w.
LEMMA OneMore ==
  ASSUME NEW w \in ImpWorker, NEW s \in Slot, NEW n \in 1 .. MaxCost,
         ~ Waits(w, s), Waits(w, s)', wk'[w].slots[s].cost = n,
         \A v \in ImpWorker, r \in Slot :
           <<v, r>> # <<w, s>> => (Waits(v, r)' <=> Waits(v, r)) /\ (Waits(v, r) => wk'[v].slots[r] = wk[v].slots[r])
  PROVE  Cardinality(Reserved') = Cardinality(Reserved) + n
<1> DEFINE row == {<<w, s>>} \X (1 .. n)
<1>1. n \in Nat /\ 1 .. n \subseteq 1 .. MaxCost
  BY Constants DEF MaxCost
<1>2. Reserved' = Reserved \cup row
  <2>1. ASSUME NEW v \in ImpWorker, NEW r \in Slot, NEW x \in 1 .. MaxCost
        PROVE  <<<<v, r>>, x>> \in Reserved' <=> <<<<v, r>>, x>> \in Reserved \cup row
    <3>1. CASE <<v, r>> # <<w, s>>
      BY <3>1 DEF Reserved
    <3>2. CASE v = w /\ r = s
      BY <1>1, <3>2 DEF Reserved
    <3> QED
      BY <3>1, <3>2
  <2>2. Reserved' \subseteq (ImpWorker \X Slot) \X (1 .. MaxCost) /\ Reserved \subseteq (ImpWorker \X Slot) \X (1 .. MaxCost)
        /\ row \subseteq (ImpWorker \X Slot) \X (1 .. MaxCost)
    BY <1>1 DEF Reserved
  <2> QED
    BY <2>1, <2>2
<1>3. Reserved \cap row = {}
  BY DEF Reserved
<1>4. IsFiniteSet(row) /\ Cardinality(row) = n
  BY <1>1, RowSize
<1> HIDE DEF row
<1>5. Cardinality(Reserved \cup row) = Cardinality(Reserved) + Cardinality(row) - Cardinality(Reserved \cap row)
  BY <1>4, ReservedFinite, FS_Union, Zenon
<1>6. Cardinality(Reserved \cap row) = 0
  BY <1>3, FS_EmptySet
<1> QED
  BY <1>1, <1>2, <1>4, <1>5, <1>6, ReservedFinite

\* One job less waits.
LEMMA OneLess ==
  ASSUME NEW w \in ImpWorker, NEW s \in Slot, NEW n \in 1 .. MaxCost,
         Waits(w, s), ~ Waits(w, s)', wk[w].slots[s].cost = n,
         \A v \in ImpWorker, r \in Slot :
           <<v, r>> # <<w, s>> => (Waits(v, r)' <=> Waits(v, r)) /\ (Waits(v, r) => wk'[v].slots[r] = wk[v].slots[r])
  PROVE  Cardinality(Reserved') = Cardinality(Reserved) - n /\ n <= Cardinality(Reserved)
<1> DEFINE row == {<<w, s>>} \X (1 .. n)
<1>1. n \in Nat /\ 1 .. n \subseteq 1 .. MaxCost
  BY Constants DEF MaxCost
<1>2. Reserved' = Reserved \ row
  <2>1. ASSUME NEW v \in ImpWorker, NEW r \in Slot, NEW x \in 1 .. MaxCost
        PROVE  <<<<v, r>>, x>> \in Reserved' <=> <<<<v, r>>, x>> \in Reserved \ row
    <3>1. CASE <<v, r>> # <<w, s>>
      BY <3>1 DEF Reserved
    <3>2. CASE v = w /\ r = s
      BY <1>1, <3>2 DEF Reserved
    <3> QED
      BY <3>1, <3>2
  <2>2. Reserved' \subseteq (ImpWorker \X Slot) \X (1 .. MaxCost) /\ Reserved \subseteq (ImpWorker \X Slot) \X (1 .. MaxCost)
    BY <1>1 DEF Reserved
  <2> QED
    BY <2>1, <2>2
<1>3. Reserved \cap row = row
  BY <1>1 DEF Reserved
<1>4. Cardinality(row) = n
  BY <1>1, RowSize
<1> HIDE DEF row
<1>6. Cardinality(row) <= Cardinality(Reserved)
  <2>1. row \in SUBSET Reserved
    BY <1>3
  <2> QED
    BY <2>1, ReservedFinite, FS_Subset, Zenon
<1>5. Cardinality(Reserved \ row) = Cardinality(Reserved) - Cardinality(Reserved \cap row)
  BY ReservedFinite, FS_Difference, Zenon
<1> QED
  BY <1>1, <1>2, <1>3, <1>4, <1>5, <1>6, ReservedFinite

AccountOK == JobsOK /\ ReservationsTrue

\* The queues are as they were, and no block is on its way to a slot, or it still is.
LEMMA AccountAlone ==
  ASSUME AccountOK, QueuesOK,
         \A w \in ImpWorker : /\ wk'[w].head = wk[w].head /\ wk'[w].count = wk[w].count /\ wk'[w].slots = wk[w].slots
                              /\ wk'[w].pc = "pop" <=> wk[w].pc = "pop",
         inflight' = inflight,
         \/ imp.pc \notin {"slot", "publish"} /\ imp'.pc \notin {"slot", "publish"}
         \/ imp' = imp /\ (imp.pc = "publish" => imp.w \in ImpWorker)
  PROVE  AccountOK'
<1>1. \A w \in ImpWorker, s \in Slot : (Waits(w, s)' <=> Waits(w, s)) /\ wk'[w].slots[s] = wk[w].slots[s]
  BY DEF Waits
<1>2. Reserved' = Reserved
  BY <1>1, SameJobs
<1>3. OnItsWay' = OnItsWay
  BY DEF OnItsWay, Cost, Block
<1>4. ReservationsTrue'
  BY <1>2, <1>3 DEF AccountOK, ReservationsTrue
<1>5. \A w \in ImpWorker, s \in Slot :
        Waits(w, s)' => wk'[w].slots[s].cost = Len(wk'[w].slots[s].recs) + 1 /\ wk'[w].slots[s].cost <= MaxCost
  BY <1>1 DEF AccountOK, JobsOK
<1>6. CASE imp'.pc # "publish"
  BY <1>4, <1>5, <1>6 DEF AccountOK, JobsOK
<1>7. CASE imp'.pc = "publish"
  <2>1. imp' = imp /\ imp.w \in ImpWorker /\ imp.pc = "publish"
    BY <1>7
  <2>2. StackOf' = StackOf /\ Block' = Block
    BY <2>1 DEF StackOf, Block
  <2> QED
    BY <1>1, <1>4, <1>5, <2>1, <2>2 DEF AccountOK, JobsOK, Cost
<1> QED
  BY <1>6, <1>7

\* No job waits, before and after.
LEMMA AccountEmpty ==
  ASSUME AccountOK, \A w \in ImpWorker, s \in Slot : ~ Waits(w, s), \A w \in ImpWorker, s \in Slot : ~ Waits(w, s)',
         inflight' = inflight, imp.pc \notin {"slot", "publish"}, imp'.pc \notin {"slot", "publish"}
  PROVE  AccountOK'
<1>1. Reserved' = Reserved
  BY SameJobs
<1> QED
  BY <1>1 DEF AccountOK, JobsOK, ReservationsTrue, OnItsWay

LEMMA NothingWaits ==
  ASSUME QueuesOK, \A w \in ImpWorker : wk[w].count = 0
  PROVE  \A w \in ImpWorker, s \in Slot : ~ Waits(w, s)
<1>1. \A w \in ImpWorker : wk[w].head \in Slot
  BY DEF QueuesOK
<1>2. \A w \in ImpWorker, s \in Slot : RankFrom(wk[w].head, s) \in Slot
  BY <1>1, RankAt
<1> QED
  BY <1>2 DEF Waits, Slot

LEMMA StartAndJoin ==
  ASSUME ReaderOK, QueuesOK, AccountOK, StartWorkers \/ Join
  PROVE  AccountOK'
<1>1. \A w \in ImpWorker : wk[w].count = 0
  <2>1. CASE StartWorkers
    BY <2>1 DEF StartWorkers, QueuesOK, ImpWorker
  <2>2. CASE Join
    <3>1. imp.nb \in Nat /\ \A w \in 1 .. imp.nb : wk[w].pc = "exit"
      BY <2>2, Constants DEF Join, ReaderOK
    <3>2. ASSUME NEW w \in ImpWorker PROVE wk[w].count = 0
      <4>1. CASE w > imp.nb
        BY <4>1 DEF QueuesOK
      <4>2. CASE ~ (w > imp.nb)
        <5>1. w \in 1 .. imp.nb
          BY <3>1, <4>2 DEF ImpWorker
        <5> QED
          BY <3>1, <5>1 DEF QueuesOK
      <4> QED
        BY <4>1, <4>2
    <3> QED
      BY <3>2
  <2> QED
    BY <2>1, <2>2
<1>2. wk' = [w \in ImpWorker |-> NoWorker] /\ UNCHANGED inflight
  BY DEF StartWorkers, Join
<1>3. imp.pc \notin {"slot", "publish"} /\ imp'.pc \notin {"slot", "publish"}
  BY DEF StartWorkers, Join, ReaderOK
<1> QED
  BY <1>1, <1>2, <1>3, NothingWaits, AllNew, AccountEmpty

LEMMA FillKeepsAccount ==
  ASSUME ReaderOK, QueuesOK, AccountOK, FillSlot
  PROVE  AccountOK'
<1> DEFINE w == imp.w
           h == (wk[w].head + wk[w].count) % Depth
           job == [stack |-> StackOf, recs |-> Block, cost |-> Cost(Block)]
<1>1. w \in ImpWorker /\ imp.pc = "slot" /\ ~ QueueFull(w)
  BY DEF FillSlot, ReaderOK, ImpWorker
<1>2. wk[w] \in QueueRec /\ wk[w].count \in Slot /\ wk[w].head \in Slot
  <2>1. wk[w] \in QueueRec /\ wk[w].count \in 0 .. Depth /\ wk[w].head \in Slot
    BY <1>1 DEF QueuesOK, QueueRec
  <2> QED
    BY <1>1, <2>1, Constants DEF QueueFull, Slot
<1>3. h \in Slot /\ RankFrom(wk[w].head, h) = wk[w].count
  BY <1>2, RankAt
<1>4. wk' = [wk EXCEPT ![w].slots[h] = job] /\ imp' = [imp EXCEPT !.pc = "publish"] /\ UNCHANGED inflight
  BY DEF FillSlot
<1> HIDE DEF w, h, job
<1>5. /\ wk'[w].slots = [wk[w].slots EXCEPT ![h] = job] /\ wk'[w].head = wk[w].head /\ wk'[w].count = wk[w].count
      /\ wk'[w].pc = wk[w].pc /\ \A v \in ImpWorker : v # w => wk'[v] = wk[v]
  BY <1>1, <1>2, <1>4 DEF QueuesOK, QueueRec
<1>6. wk'[w].slots[h] = job /\ \A s \in Slot : s # h => wk'[w].slots[s] = wk[w].slots[s]
  BY <1>2, <1>3, <1>5 DEF QueueRec
<1>7. \A v \in ImpWorker, s \in Slot : Waits(v, s)' <=> Waits(v, s)
  BY <1>5 DEF Waits
<1>8. ~ Waits(w, h)
  BY <1>2, <1>3 DEF Waits, Slot
<1>9. \A v \in ImpWorker, s \in Slot : Waits(v, s) => wk'[v].slots[s] = wk[v].slots[s]
  BY <1>5, <1>6, <1>8
<1>10. Reserved' = Reserved
  BY <1>7, <1>9, SameJobs
<1>11. imp'.pc = "publish" /\ imp'.w = w /\ StackOf' = StackOf /\ Block' = Block
  BY <1>4 DEF ReaderOK, StackOf, Block, w
<1>12. OnItsWay' = OnItsWay
  BY <1>1, <1>11 DEF OnItsWay, Cost
<1>13. ReservationsTrue'
  BY <1>4, <1>10, <1>12 DEF AccountOK, ReservationsTrue
<1>14. \A v \in ImpWorker, s \in Slot :
         Waits(v, s)' => wk'[v].slots[s].cost = Len(wk'[v].slots[s].recs) + 1 /\ wk'[v].slots[s].cost <= MaxCost
  <2>1. \A v \in ImpWorker, s \in Slot :
          Waits(v, s) => wk[v].slots[s].cost = Len(wk[v].slots[s].recs) + 1 /\ wk[v].slots[s].cost <= MaxCost
    BY DEF AccountOK, JobsOK
  <2>2. ASSUME NEW v \in ImpWorker, NEW s \in Slot, Waits(v, s)'
        PROVE  Waits(v, s) /\ wk'[v].slots[s] = wk[v].slots[s]
    BY <1>7, <1>9, <2>2
  <2>3. ASSUME NEW v \in ImpWorker, NEW s \in Slot, Waits(v, s)'
        PROVE  wk'[v].slots[s].cost = Len(wk'[v].slots[s].recs) + 1 /\ wk'[v].slots[s].cost <= MaxCost
    BY <2>1, <2>2, <2>3
  <2> QED
    BY <2>3, Zenon
<1>15. /\ wk'[imp'.w].count < Depth
       /\ \E s \in Slot : /\ RankFrom(wk'[imp'.w].head, s) = wk'[imp'.w].count
                          /\ wk'[imp'.w].slots[s] = [stack |-> StackOf', recs |-> Block', cost |-> Cost(Block')]
  <2>1. wk'[w].count < Depth
    BY <1>2, <1>5, Constants DEF Slot
  <2>2. RankFrom(wk'[w].head, h) = wk'[w].count
    BY <1>3, <1>5
  <2>3. wk'[w].slots[h] = [stack |-> StackOf', recs |-> Block', cost |-> Cost(Block')]
    BY <1>6, <1>11 DEF job
  <2> QED
    BY <1>3, <1>11, <2>1, <2>2, <2>3
<1> QED
  BY <1>13, <1>14, <1>15 DEF AccountOK, JobsOK, Cost

LEMMA PublishKeepsAccount ==
  ASSUME ReaderOK, QueuesOK, AccountOK, PublishSlot
  PROVE  AccountOK'
<1>0. PICK w : w = imp.w
  OBVIOUS
<1>1. w \in ImpWorker /\ imp.pc = "publish" /\ wk[w].count < Depth
  BY <1>0 DEF PublishSlot, ReaderOK, ImpWorker, AccountOK, JobsOK
<1>3. wk[w] \in QueueRec /\ wk[w].count \in Slot /\ wk[w].head \in Slot
  <2>1. wk[w] \in QueueRec /\ wk[w].count \in 0 .. Depth /\ wk[w].head \in Slot
    BY <1>1 DEF QueuesOK, QueueRec
  <2> QED
    BY <1>1, <2>1, Constants DEF Slot
<1>4. wk' = [wk EXCEPT ![w].count = @ + 1] /\ imp' = Pushed(imp) /\ UNCHANGED inflight
  BY <1>0 DEF PublishSlot
<1>2. PICK h \in Slot : /\ RankFrom(wk[w].head, h) = wk[w].count
                        /\ wk[w].slots[h] = [stack |-> StackOf, recs |-> Block, cost |-> Cost(Block)]
  BY <1>0, <1>1 DEF AccountOK, JobsOK
<1>5. /\ wk'[w].slots = wk[w].slots /\ wk'[w].head = wk[w].head /\ wk'[w].count = wk[w].count + 1
      /\ wk'[w].pc = wk[w].pc /\ \A v \in ImpWorker : v # w => wk'[v] = wk[v]
  BY <1>1, <1>3, <1>4 DEF QueuesOK, QueueRec
<1>6. Block \in Seq(Nat) /\ Cost(Block) \in 1 .. MaxCost /\ Cost(Block) = Len(Block) + 1
  BY <1>1, StackIs, Constants DEF Pushing, Cost, MaxCost
<1>7. \A s \in Slot : RankFrom(wk[w].head, s) \in Slot /\ (RankFrom(wk[w].head, s) = wk[w].count => s = h)
  <2>1. PICK e \in Slot : e = wk[w].head
    BY <1>3
  <2>2. \A s, t \in Slot : RankFrom(e, s) = RankFrom(e, t) => s = t
    BY RankAt, Zenon
  <2>3. \A s \in Slot : RankFrom(e, s) \in Slot
    BY RankAt, Zenon
  <2> QED
    BY <1>2, <2>1, <2>2, <2>3
<1>8. wk[w].pc = "pop" => wk[w].count > 0
  BY <1>1 DEF QueuesOK
<1>9. ~ Waits(w, h) /\ Waits(w, h)'
  BY <1>2, <1>3, <1>5, <1>8 DEF Waits, Slot
<1>10. \A s \in Slot : s # h => (Waits(w, s)' <=> Waits(w, s))
  BY <1>3, <1>5, <1>7 DEF Waits, Slot
<1>11. \A v \in ImpWorker, s \in Slot : /\ <<v, s>> # <<w, h>> => (Waits(v, s)' <=> Waits(v, s))
                                        /\ wk'[v].slots[s] = wk[v].slots[s]
  <2>1. \A v \in ImpWorker, s \in Slot : v # w => (Waits(v, s)' <=> Waits(v, s))
    BY <1>5 DEF Waits
  <2> QED
    BY <1>5, <1>10, <2>1
<1>12. Cardinality(Reserved') = Cardinality(Reserved) + Cost(Block)
  BY <1>1, <1>2, <1>6, <1>9, <1>11, OneMore
<1>13. imp'.pc \notin {"slot", "publish"}
  BY <1>4 DEF Pushed, ReaderOK
<1>14. OnItsWay' = 0 /\ OnItsWay = Cost(Block)
  BY <1>1, <1>13 DEF OnItsWay
<1>15. ReservationsTrue'
  BY <1>4, <1>6, <1>12, <1>14, ReservedFinite DEF AccountOK, ReservationsTrue
<1>16. \A v \in ImpWorker, s \in Slot :
         Waits(v, s)' => wk'[v].slots[s].cost = Len(wk'[v].slots[s].recs) + 1 /\ wk'[v].slots[s].cost <= MaxCost
  <2>1. wk'[w].slots[h].cost = Len(wk'[w].slots[h].recs) + 1 /\ wk'[w].slots[h].cost <= MaxCost
    BY <1>2, <1>5, <1>6 DEF MaxCost
  <2>2. ASSUME NEW v \in ImpWorker, NEW s \in Slot, <<v, s>> # <<w, h>>, Waits(v, s)'
        PROVE  wk'[v].slots[s].cost = Len(wk'[v].slots[s].recs) + 1 /\ wk'[v].slots[s].cost <= MaxCost
    <3>1. Waits(v, s) /\ wk'[v].slots[s] = wk[v].slots[s]
      BY <1>11, <2>2
    <3> QED
      BY <3>1 DEF AccountOK, JobsOK
  <2> QED
    BY <2>1, <2>2
<1> QED
  BY <1>13, <1>15, <1>16 DEF AccountOK, JobsOK

\* A thread takes its job out of the count of those that wait, and out of what is
\* reserved, in one step.
LEMMA LeaveKeepsAccount ==
  ASSUME ReaderOK, QueuesOK, AccountOK, NEW w \in ImpWorker, wk[w].pc \in {"build", "release"},
         wk' = [wk EXCEPT ![w].pc = "pop"], inflight' = inflight - Job(w).cost, UNCHANGED imp
  PROVE  AccountOK' /\ Job(w).cost = Len(Job(w).recs) + 1 /\ Job(w).cost <= inflight
<1>1. wk[w] \in QueueRec /\ wk[w].count > 0 /\ wk[w].pc # "pop"
  BY DEF QueuesOK, QueueRec
<1>2. PICK h \in Slot : h = wk[w].head
  BY <1>1 DEF QueueRec
<1>3. /\ wk'[w].slots = wk[w].slots /\ wk'[w].head = wk[w].head /\ wk'[w].count = wk[w].count
      /\ wk'[w].pc = "pop" /\ \A v \in ImpWorker : v # w => wk'[v] = wk[v]
  BY <1>1 DEF QueuesOK, QueueRec
<1>4. /\ RankFrom(h, h) = 0 /\ \A s \in Slot : RankFrom(h, s) \in Slot
      /\ \A s \in Slot : RankFrom(h, s) = 0 => s = h
  <2>1. \A s, t \in Slot : RankFrom(h, s) = RankFrom(h, t) => s = t
    BY RankAt, Zenon
  <2>2. RankFrom(h, h) = 0 /\ \A s \in Slot : RankFrom(h, s) \in Slot
    BY RankAt, Zenon
  <2> QED
    BY <2>1, <2>2
<1>5. Waits(w, h) /\ ~ Waits(w, h)'
  BY <1>1, <1>2, <1>3, <1>4 DEF Waits
<1>6. \A s \in Slot : s # h => (Waits(w, s)' <=> Waits(w, s))
  <2>1. ASSUME NEW s \in Slot, s # h PROVE RankFrom(h, s) > 0
    BY <1>4, <2>1 DEF Slot
  <2> QED
    BY <1>1, <1>2, <1>3, <2>1 DEF Waits
<1>7. \A v \in ImpWorker, s \in Slot : /\ <<v, s>> # <<w, h>> => (Waits(v, s)' <=> Waits(v, s))
                                       /\ wk'[v].slots[s] = wk[v].slots[s]
  <2>1. \A v \in ImpWorker, s \in Slot : v # w => (Waits(v, s)' <=> Waits(v, s))
    BY <1>3 DEF Waits
  <2> QED
    BY <1>3, <1>6, <2>1
<1>8. Job(w) = wk[w].slots[h] /\ Job(w) \in JobRec
  BY <1>2, JobIs DEF Job
<1>9. Job(w).cost = Len(Job(w).recs) + 1 /\ Job(w).cost \in 1 .. MaxCost
  <2>1. Job(w).cost = Len(Job(w).recs) + 1 /\ Job(w).cost <= MaxCost
    BY <1>5, <1>8 DEF AccountOK, JobsOK
  <2>2. Len(Job(w).recs) \in Nat
    BY <1>8 DEF JobRec
  <2> QED
    BY <2>1, <2>2, Constants DEF MaxCost
<1>10. Cardinality(Reserved') = Cardinality(Reserved) - Job(w).cost /\ Job(w).cost <= Cardinality(Reserved)
  BY <1>5, <1>7, <1>8, <1>9, OneLess
<1>11. OnItsWay' = OnItsWay /\ OnItsWay \in Nat
  <2>1. OnItsWay' = OnItsWay
    BY DEF OnItsWay, Cost, Block
  <2>2. imp.pc \in {"slot", "publish"} => Cost(Block) \in Nat
    BY StackIs, Constants DEF Pushing, Cost
  <2> QED
    BY <2>1, <2>2 DEF OnItsWay
<1>12. ReservationsTrue' /\ Job(w).cost <= inflight
  BY <1>9, <1>10, <1>11, ReservedFinite DEF AccountOK, ReservationsTrue, MaxCost
<1>13. \A v \in ImpWorker, s \in Slot :
         Waits(v, s)' => wk'[v].slots[s].cost = Len(wk'[v].slots[s].recs) + 1 /\ wk'[v].slots[s].cost <= MaxCost
  <2>1. ASSUME NEW v \in ImpWorker, NEW s \in Slot, Waits(v, s)'
        PROVE  Waits(v, s) /\ wk'[v].slots[s] = wk[v].slots[s]
    BY <1>5, <1>7, <2>1
  <2> QED
    BY <2>1 DEF AccountOK, JobsOK
<1>14. CASE imp.pc # "publish"
  BY <1>9, <1>12, <1>13, <1>14 DEF AccountOK, JobsOK
<1>15. CASE imp.pc = "publish"
  <2>1. imp.w \in ImpWorker
    BY <1>15 DEF ReaderOK, ImpWorker
  <2>2. StackOf' = StackOf /\ Block' = Block
    BY DEF StackOf, Block
  <2>3. wk'[imp.w].head = wk[imp.w].head /\ wk'[imp.w].count = wk[imp.w].count /\ wk'[imp.w].slots = wk[imp.w].slots
    BY <1>3, <2>1
  <2> QED
    BY <1>9, <1>12, <1>13, <1>15, <2>2, <2>3 DEF AccountOK, JobsOK, Cost
<1> QED
  BY <1>14, <1>15

\* The head of the queue moves on, past a job that waits no longer.
LEMMA PopKeepsAccount ==
  ASSUME ReaderOK, QueuesOK, AccountOK, NEW w \in ImpWorker, WorkerPops(w)
  PROVE  AccountOK'
<1>1. wk[w] \in QueueRec /\ wk[w].count > 0 /\ wk[w].pc = "pop"
  BY DEF QueuesOK, QueueRec, WorkerPops
<1>2. PICK h \in Slot : h = wk[w].head
  BY <1>1 DEF QueueRec
<1>3. /\ wk'[w].slots = wk[w].slots /\ wk'[w].head = (h + 1) % Depth /\ wk'[w].count = wk[w].count - 1
      /\ wk'[w].pc = "wait" /\ \A v \in ImpWorker : v # w => wk'[v] = wk[v]
  BY <1>1, <1>2 DEF QueuesOK, QueueRec, WorkerPops
<1>4. UNCHANGED <<imp, inflight>>
  BY DEF WorkerPops
<1>5. PICK n \in 1 .. Depth : n = wk[w].count
  BY <1>1, Constants DEF QueueRec
<1>6. ASSUME NEW s \in Slot
      PROVE  /\ RankFrom(h, s) \in Slot
             /\ RankFrom(h, s) > 0 => RankFrom(wk'[w].head, s) = RankFrom(h, s) - 1
             /\ RankFrom(h, s) = 0 => RankFrom(wk'[w].head, s) = Depth - 1
  <2>1. RankFrom(h, s) \in Slot
    BY RankAt, Zenon
  <2> QED
    BY <1>3, <2>1, RankNext
<1>7. ASSUME NEW s \in Slot PROVE Waits(w, s)' <=> Waits(w, s)
  <2>1. Waits(w, s)' <=> RankFrom(wk'[w].head, s) < n - 1
    BY <1>3, <1>5 DEF Waits
  <2>2. Waits(w, s) <=> RankFrom(h, s) < n /\ RankFrom(h, s) > 0
    BY <1>1, <1>2, <1>5 DEF Waits
  <2>3. PICK a \in Slot : a = RankFrom(h, s)
    BY <1>6
  <2>4. (a > 0 => RankFrom(wk'[w].head, s) = a - 1) /\ (a = 0 => RankFrom(wk'[w].head, s) = Depth - 1)
    BY <1>6, <2>3
  <2> QED
    BY <2>1, <2>2, <2>3, <2>4, Constants DEF Slot
<1>8. \A v \in ImpWorker, s \in Slot : (Waits(v, s)' <=> Waits(v, s)) /\ wk'[v].slots[s] = wk[v].slots[s]
  <2>1. \A v \in ImpWorker, s \in Slot : v # w => (Waits(v, s)' <=> Waits(v, s))
    BY <1>3 DEF Waits
  <2> QED
    BY <1>3, <1>7, <2>1
<1>9. Reserved' = Reserved
  BY <1>8, SameJobs
<1>10. ReservationsTrue'
  BY <1>4, <1>9 DEF AccountOK, ReservationsTrue, OnItsWay, Cost, Block
<1>11. \A v \in ImpWorker, s \in Slot :
         Waits(v, s)' => wk'[v].slots[s].cost = Len(wk'[v].slots[s].recs) + 1 /\ wk'[v].slots[s].cost <= MaxCost
  <2>1. ASSUME NEW v \in ImpWorker, NEW s \in Slot, Waits(v, s)'
        PROVE  Waits(v, s) /\ wk'[v].slots[s] = wk[v].slots[s]
    BY <1>8, <2>1
  <2>2. \A v \in ImpWorker, s \in Slot :
          Waits(v, s) => wk[v].slots[s].cost = Len(wk[v].slots[s].recs) + 1 /\ wk[v].slots[s].cost <= MaxCost
    BY DEF AccountOK, JobsOK
  <2>3. ASSUME NEW v \in ImpWorker, NEW s \in Slot, Waits(v, s)'
        PROVE  wk'[v].slots[s].cost = Len(wk'[v].slots[s].recs) + 1 /\ wk'[v].slots[s].cost <= MaxCost
    BY <2>1, <2>2, <2>3
  <2> QED
    BY <2>3, Zenon
<1>12. CASE imp.pc # "publish"
  BY <1>4, <1>10, <1>11, <1>12 DEF AccountOK, JobsOK
<1>13. CASE imp.pc = "publish"
  <2>1. PICK u \in ImpWorker : u = imp.w /\ u = imp'.w
    BY <1>4, <1>13 DEF ReaderOK, ImpWorker
  <2>2. PICK s \in Slot : RankFrom(wk[u].head, s) = wk[u].count
                          /\ wk[u].slots[s] = [stack |-> StackOf, recs |-> Block, cost |-> Cost(Block)]
    BY <1>13, <2>1 DEF AccountOK, JobsOK
  <2>3. StackOf' = StackOf /\ Block' = Block /\ imp'.pc = "publish"
    BY <1>4, <1>13 DEF StackOf, Block
  <2>4. wk[u].count < Depth
    BY <1>13, <2>1 DEF AccountOK, JobsOK
  <2>5. RankFrom(wk'[u].head, s) = wk'[u].count /\ wk'[u].count < Depth
    <3>1. CASE u # w
      BY <1>3, <2>2, <2>4, <3>1
    <3>2. CASE u = w
      <4>1. RankFrom(h, s) = n
        BY <1>2, <1>5, <2>2, <3>2
      <4>2. RankFrom(wk'[w].head, s) = n - 1
        BY <1>5, <1>6, <4>1
      <4> QED
        BY <1>3, <1>5, <2>4, <3>2, <4>2, Constants
    <3> QED
      BY <3>1, <3>2
  <2>6. wk'[u].slots[s] = [stack |-> StackOf', recs |-> Block', cost |-> Cost(Block')]
    BY <1>8, <2>2, <2>3
  <2> QED
    BY <1>10, <1>11, <2>1, <2>5, <2>6 DEF AccountOK, JobsOK, Cost
<1> QED
  BY <1>12, <1>13

LEMMA AccountNext ==
  ReaderOK /\ StockOK /\ QueuesOK /\ AccountOK /\ [ImpNext]_impVars => AccountOK'
<1> SUFFICES ASSUME ReaderOK, StockOK, QueuesOK, AccountOK, [ImpNext]_impVars PROVE AccountOK'
  OBVIOUS
<1>1. ASSUME UNCHANGED <<wk, inflight>>, imp.pc \notin {"slot", "publish"}, imp'.pc \notin {"slot", "publish"}
      PROVE  AccountOK'
  BY <1>1, AccountAlone
<1>2. imp.pc = "publish" => imp.w \in ImpWorker
  BY DEF ReaderOK, ImpWorker
<1>3. ASSUME NEW b \in Backups, RestoreBegins(b) PROVE AccountOK'
  BY <1>1, <1>3 DEF RestoreBegins, NotImporting
<1>4. CASE RestoreChecks \/ ReadRecord \/ ReadEnds \/ FinalFlush \/ LookInFlight \/ RoomFound \/ RoomMade \/ ImpNoRoom
           \/ Refused \/ WaitOne \/ Drained
  <2>1. UNCHANGED <<wk, inflight>> /\ imp.pc \notin {"slot", "publish"}
    BY <1>4 DEF RestoreChecks, ReadRecord, ReadEnds, FinalFlush, LookInFlight, RoomFound, RoomMade, ImpNoRoom, Refused,
       WaitOne, Drained
  <2>2. imp'.pc \notin {"slot", "publish"}
    BY <1>4, PcMoves
  <2> QED
    BY <1>1, <2>1, <2>2
<1>5. CASE PushDirect \/ ListAdds \/ ListRelief \/ ListAborts \/ ListEnds \/ RestoreAnalysed \/ RestoreLeaves
  <2>1. UNCHANGED <<wk, inflight>> /\ imp.pc \notin {"slot", "publish"}
    BY <1>5 DEF PushDirect, ListAdds, ListRelief, ListAborts, ListEnds, RestoreAnalysed, RestoreLeaves
  <2>2. imp'.pc \notin {"slot", "publish"}
    BY <1>5 DEF PushDirect, Pushed, ListAdds, ListRelief, ListAborts, ListEnds, RestoreAnalysed, RestoreLeaves,
       ToLists, ReaderOK
  <2> QED
    BY <1>1, <2>1, <2>2
<1>6. CASE Reserve
  <2>1. wk' = wk /\ inflight' = inflight + Cost(Block) /\ imp.pc = "push" /\ imp'.pc = "slot" /\ Block' = Block
    BY <1>6 DEF Reserve, ReaderOK, Block
  <2>2. Reserved' = Reserved
    BY <2>1, SameJobs DEF Waits
  <2>3. Cost(Block) \in Nat
    BY <2>1, StackIs, Constants DEF Cost, Pushing
  <2>4. ReservationsTrue'
    BY <2>1, <2>2, <2>3, ReservedFinite DEF AccountOK, ReservationsTrue, OnItsWay, Cost
  <2> QED
    BY <2>1, <2>4 DEF AccountOK, JobsOK, Waits
<1>7. CASE Finish
  <2>1. inflight' = inflight /\ imp.pc \notin {"slot", "publish"} /\ imp'.pc \notin {"slot", "publish"}
    BY <1>7 DEF Finish, ReaderOK
  <2>2. \A w \in ImpWorker : wk'[w] = IF w <= imp.nb THEN [wk[w] EXCEPT !.stop = TRUE] ELSE wk[w]
    BY <1>7 DEF Finish
  <2>3. \A w \in ImpWorker : /\ wk'[w].head = wk[w].head /\ wk'[w].count = wk[w].count /\ wk'[w].slots = wk[w].slots
                             /\ wk'[w].pc = "pop" <=> wk[w].pc = "pop"
    BY <2>2 DEF QueuesOK
  <2> QED
    BY <2>1, <2>3, AccountAlone
<1>8. ASSUME NEW w \in ImpWorker, WorkerStep(w) PROVE AccountOK'
  <2>1. CASE WorkerTakes(w) \/ WorkerRefills(w) \/ WorkerExits(w)
    <3>1. UNCHANGED <<imp, inflight>>
      BY <2>1 DEF WorkerTakes, WorkerRefills, WorkerExits
    <3>2. wk[w].pc # "pop" /\ \E pc \in {"build", "release", "exit"} : wk' = [wk EXCEPT ![w].pc = pc]
      BY <2>1 DEF WorkerTakes, WorkerRefills, WorkerExits
    <3>3. \A v \in ImpWorker : /\ wk'[v].head = wk[v].head /\ wk'[v].count = wk[v].count /\ wk'[v].slots = wk[v].slots
                               /\ wk'[v].pc = "pop" <=> wk[v].pc = "pop"
      BY <3>2 DEF QueuesOK
    <3> QED
      BY <1>2, <3>1, <3>3, AccountAlone
  <2>2. CASE WorkerLinks(w) \/ WorkerReleases(w)
    <3>1. /\ wk[w].pc \in {"build", "release"} /\ wk' = [wk EXCEPT ![w].pc = "pop"]
          /\ inflight' = inflight - Job(w).cost /\ UNCHANGED imp
      BY <2>2 DEF WorkerLinks, WorkerReleases, Released
    <3> QED
      BY <3>1, LeaveKeepsAccount
  <2>3. CASE WorkerPops(w)
    BY <2>3, PopKeepsAccount
  <2> QED
    BY <1>8, <2>1, <2>2, <2>3 DEF WorkerStep
<1>9. CASE OperatorStops \/ UNCHANGED impVars
  <2>1. UNCHANGED <<imp, wk, inflight>>
    BY <1>9 DEF OperatorStops, impVars
  <2> QED
    BY <1>2, <2>1, AccountAlone
<1> QED
  BY <1>3, <1>4, <1>5, <1>6, <1>7, <1>8, <1>9, StartAndJoin, FillKeepsAccount, PublishKeepsAccount
     DEF ImpNext, ReaderStep

-----------------------------------------------------------------------------
(* What is reserved, what is in the tier, and the limit.                   *)

LEMMA InflightIs == ReaderOK /\ AccountOK => inflight \in Nat /\ OnItsWay \in Nat
<1> SUFFICES ASSUME ReaderOK, AccountOK PROVE inflight \in Nat /\ OnItsWay \in Nat
  OBVIOUS
<1>1. imp.pc \in {"slot", "publish"} => Cost(Block) \in Nat
  BY StackIs, Constants DEF Pushing, Cost
<1> QED
  BY <1>1, ReservedFinite DEF AccountOK, ReservationsTrue, OnItsWay

LEMMA InflightThen == ReaderOK' /\ AccountOK' => inflight' \in Nat
<1> SUFFICES ASSUME ReaderOK', AccountOK' PROVE inflight' \in Nat
  OBVIOUS
<1>1. IsFiniteSet((ImpWorker \X Slot) \X (1 .. MaxCost))
  <2>1. IsFiniteSet(ImpWorker) /\ IsFiniteSet(Slot) /\ IsFiniteSet(1 .. MaxCost)
    BY FS_Interval, Constants DEF ImpWorker, Slot, MaxCost
  <2>2. IsFiniteSet(ImpWorker \X Slot)
    BY <2>1, FS_Product, Zenon
  <2> QED
    BY <2>1, <2>2, FS_Product, Zenon
<1>2. Reserved' \in SUBSET ((ImpWorker \X Slot) \X (1 .. MaxCost))
  BY DEF Reserved
<1>3. IsFiniteSet(Reserved')
  BY <1>1, <1>2, FS_Subset, Zenon
<1>4. Cardinality(Reserved') \in Nat
  BY <1>3, FS_CardinalityType
<1>5. imp'.pc \in {"slot", "publish"} => Cost(Block)' \in Nat
  <2>1. imp'.pc \in {"slot", "publish"} => imp'.pool \in ImpPool /\ imp'.buf \in [ImpPool -> Seq(Nat)]
    BY DEF ReaderOK, Pushing
  <2>2. imp'.pc \in {"slot", "publish"} => Block' \in Seq(Nat)
    BY <2>1 DEF Block
  <2> QED
    BY <2>2 DEF Cost
<1> QED
  BY <1>4, <1>5 DEF AccountOK, ReservationsTrue, OnItsWay

LEMMA TierIs == StockOK => TierSize \in Nat
BY FS_CardinalityType DEF StockOK, TierSize

\* A thread that compresses a block has its reservation.
LEMMA BusyCounted ==
  ASSUME ReaderOK, QueuesOK, AccountOK, NEW w \in ImpWorker, wk[w].pc \in {"build", "release"}
  PROVE  inflight >= 1
<1>1. wk[w] \in QueueRec /\ wk[w].count > 0 /\ wk[w].pc # "pop"
  BY DEF QueuesOK, QueueRec
<1>2. PICK h \in Slot : h = wk[w].head
  BY <1>1 DEF QueueRec
<1>3. RankFrom(h, h) = 0
  BY RankAt, Zenon
<1>4. Waits(w, h)
  BY <1>1, <1>2, <1>3 DEF Waits
<1>5. wk[w].slots[h].cost >= 1
  <2>1. wk[w].slots[h].cost = Len(wk[w].slots[h].recs) + 1
    BY <1>4 DEF AccountOK, JobsOK
  <2>2. wk[w].slots[h] \in JobRec
    BY <1>1 DEF QueueRec
  <2> QED
    BY <2>1, <2>2 DEF JobRec
<1>6. <<<<w, h>>, 1>> \in Reserved
  BY <1>4, <1>5, Constants DEF Reserved, MaxCost
<1>7. Cardinality(Reserved) # 0
  BY <1>6, ReservedFinite, FS_EmptySet
<1> QED
  BY <1>7, ReservedFinite, InflightIs DEF AccountOK, ReservationsTrue

\* Before the first block, nothing is in flight.
LEMMA NothingReserved ==
  ASSUME ReaderOK, QueuesOK, AccountOK, imp.nb = 0, imp.pc \notin {"slot", "publish"}
  PROVE  inflight = 0
<1>1. \A w \in ImpWorker : wk[w].count = 0
  BY DEF QueuesOK, ImpWorker
<1>2. Cardinality(Reserved) = 0
  BY <1>1, NothingWaits, NoJobs
<1> QED
  BY <1>2 DEF AccountOK, ReservationsTrue, OnItsWay

Guarded == imp.active /\ ~ srv.failed /\ imp.pc \notin {"idle", "check"} /\ imp.bk.readable

\* What is linked and reserved has not grown, and no block has been accepted.
LEMMA MemoryShrinks ==
  ASSUME MemoryOK, Guarded, TierSize \in Nat, TierSize' \in Nat, inflight \in Nat, inflight' \in Nat, srv.set.soft \in Nat,
         held'.lists = held.lists, srv'.set.soft = srv.set.soft,
         TierSize' + inflight' <= TierSize + inflight,
         TierSize' <= TierSize \/ TierSize' + inflight' < TierSize + inflight,
         imp'.pc = "push" => imp.pc = "push" /\ Block' = Block,
         imp.pc = "push" => Cost(Block) \in Int
  PROVE  MemoryOK'
<1>1. /\ held.lists = {}
      /\ Within(TierSize, srv.set.soft, ImpTarget) /\ Within(TierSize + inflight, srv.set.soft, MaxCost)
      /\ imp.pc = "push" => Within(TierSize + inflight + Cost(Block), srv.set.soft, MaxCost)
  BY DEF MemoryOK, Guarded
<1>2. PICK t \in Nat : t = TierSize
  OBVIOUS
<1>3. PICK u \in Nat : u = TierSize'
  OBVIOUS
<1>4. PICK i \in Nat : i = inflight
  OBVIOUS
<1>5. PICK j \in Nat : j = inflight'
  OBVIOUS
<1>6. PICK m \in Nat : m = srv.set.soft
  OBVIOUS
<1>7. u + j <= t + i /\ (u <= t \/ u + j < t + i)
  BY <1>2, <1>3, <1>4, <1>5
<1>8. Within(t, m, ImpTarget) /\ Within(t + i, m, MaxCost)
  BY <1>1, <1>2, <1>4, <1>6
<1>9. /\ Within(u, m, ImpTarget) /\ Within(u + j, m, MaxCost)
      /\ \A c \in Int : Within(t + i + c, m, MaxCost) => Within(u + j + c, m, MaxCost)
  BY <1>7, <1>8, Constants DEF Within, MaxCost
<1>10. imp'.pc = "push" => Within(u + j + Cost(Block)', m, MaxCost)
  <2>1. ASSUME imp'.pc = "push" PROVE Within(u + j + Cost(Block), m, MaxCost)
    BY <1>1, <1>2, <1>4, <1>6, <1>9, <2>1
  <2>2. imp'.pc = "push" => Cost(Block)' = Cost(Block)
    BY DEF Cost
  <2> QED
    BY <2>1, <2>2
<1>11. held'.lists = {} /\ srv'.set.soft = m
  BY <1>1, <1>6
<1> HIDE <1>1
<1> QED
  BY <1>3, <1>5, <1>9, <1>10, <1>11 DEF MemoryOK

\* A step that says nothing of the memory.
LEMMA MemoryAlone ==
  ASSUME ReaderOK, StockOK, AccountOK, MemoryOK,
         held'.lists = held.lists, held'.tier = held.tier, inflight' = inflight, srv'.set.soft = srv.set.soft,
         Guarded' => Guarded,
         imp'.pc = "push" => imp.pc = "push" /\ Block' = Block
  PROVE  MemoryOK'
<1>1. CASE ~ Guarded'
  BY <1>1 DEF MemoryOK, Guarded
<1>2. CASE Guarded
  <2>1. TierSize' = TierSize /\ TierSize \in Nat /\ inflight \in Nat /\ srv.set.soft \in Nat
    BY TierIs, InflightIs DEF TierSize, StockOK, SrvOK
  <2>2. CASE imp'.pc = "push"
    <3>1. Cost(Block) \in Int
      BY <2>2, StackIs, Constants DEF Pushing, Cost
    <3> QED
      BY <1>2, <2>1, <3>1, MemoryShrinks
  <2>3. CASE imp'.pc # "push"
    BY <1>2, <2>1, <2>3 DEF MemoryOK, Guarded
  <2> QED
    BY <2>2, <2>3
<1> QED
  BY <1>1, <1>2

LEMMA ResidentIs ==
  ASSUME StockOK, MemoryOK, Guarded PROVE ImpResident = TierSize /\ held.lists = {}
<1>1. held.lists = {}
  BY DEF MemoryOK, Guarded
<1>2. ListCost * Cardinality(held.lists) = 0
  BY <1>1, FS_EmptySet, Constants
<1> QED
  BY <1>1, <1>2, TierIs DEF ImpResident, TierSize

LEMMA MemoryNext ==
  ReaderOK /\ StockOK /\ StockOK' /\ QueuesOK /\ AccountOK /\ ReaderOK' /\ AccountOK' /\ MemoryOK /\ [ImpNext]_impVars => MemoryOK'
<1> SUFFICES ASSUME ReaderOK, StockOK, StockOK', QueuesOK, AccountOK, ReaderOK', AccountOK', MemoryOK, [ImpNext]_impVars
             PROVE  MemoryOK'
  OBVIOUS
<1>1. /\ TierSize \in Nat /\ TierSize' \in Nat /\ inflight \in Nat /\ inflight' \in Nat
      /\ srv.set.soft \in Nat /\ ImpTarget \in Nat \ {0}
  <2>1. TierSize \in Nat /\ inflight \in Nat /\ srv.set.soft \in Nat
    BY TierIs, InflightIs DEF StockOK, SrvOK
  <2>2. TierSize' \in Nat
    BY FS_CardinalityType DEF StockOK, TierSize
  <2>3. inflight' \in Nat
    BY InflightThen
  <2> QED
    BY <2>1, <2>2, <2>3, Constants
<1>2. ASSUME ~ Guarded' PROVE MemoryOK'
  BY <1>2 DEF MemoryOK, Guarded
<1>3. ASSUME NEW b \in Backups, RestoreBegins(b) PROVE MemoryOK'
  BY <1>2, <1>3 DEF RestoreBegins, NotImporting, Guarded
<1>4. CASE RestoreChecks
  <2>1. CASE imp.bk.readable
    <3>1. imp.nb = 0 /\ inflight' = inflight /\ imp.pc = "check" /\ imp'.pc = "read"
      BY <1>4, <2>1 DEF RestoreChecks, ReaderOK
    <3>2. inflight' = 0
      BY <3>1, NothingReserved
    <3>3. held'.lists = {} /\ held'.tier = Kept
      BY <1>4, <2>1 DEF RestoreChecks, StockOK
    <3>4. TierSize' = 0
      BY <3>3, EmptySize DEF TierSize
    <3>5. srv' = srv
      BY <1>4 DEF RestoreChecks
    <3> QED
      BY <1>1, <3>1, <3>2, <3>3, <3>4, <3>5 DEF MemoryOK, Within, MaxCost
  <2>2. CASE ~ imp.bk.readable
    <3>1. imp'.bk = imp.bk
      BY <1>4 DEF RestoreChecks, ReaderOK
    <3> QED
      BY <1>2, <2>2, <3>1 DEF Guarded
  <2> QED
    BY <2>1, <2>2
<1>5. CASE ReadRecord \/ ReadEnds \/ FinalFlush \/ LookInFlight \/ Refused \/ WaitOne \/ ListAborts \/ ListEnds
  <2>1. UNCHANGED <<inflight, held, srv>> /\ imp.pc \notin {"idle", "check"} /\ imp'.pc # "push"
    <3>1. UNCHANGED <<inflight, held, srv>> /\ imp.pc \notin {"idle", "check"}
      BY <1>5 DEF ReadRecord, ReadEnds, FinalFlush, LookInFlight, Refused, WaitOne, ListAborts, ListEnds
    <3> QED
      BY <1>5, <3>1, PcMoves
  <2>2. imp'.bk = imp.bk /\ (imp'.active => imp.active)
    <3>1. CASE ReadRecord
      <4>1. imp'.bk = imp.bk /\ imp'.active = imp.active
        BY <3>1, Fields DEF ReadRecord
      <4> QED
        BY <4>1
    <3>2. CASE FinalFlush
      <4>1. imp'.bk = imp.bk /\ (imp'.active = imp.active \/ imp'.active = FALSE)
        BY <3>2, Fields DEF FinalFlush, ToLists
      <4> QED
        BY <4>1
    <3>3. CASE ReadEnds \/ LookInFlight \/ Refused \/ WaitOne \/ ListAborts \/ ListEnds
      <4>1. imp'.bk = imp.bk /\ imp'.active = imp.active
        BY <3>3, Fields DEF ReadEnds, LookInFlight, Refused, WaitOne, ListAborts, ListEnds
      <4> QED
        BY <4>1
    <3> QED
      BY <1>5, <3>1, <3>2, <3>3
  <2> QED
    BY <2>1, <2>2, MemoryAlone DEF Guarded
<1>6. CASE Finish \/ Join \/ RestoreLeaves
  <2>1. /\ UNCHANGED <<inflight, held>> /\ imp.pc \notin {"idle", "check"} /\ imp'.pc # "push"
        /\ srv'.set = srv.set /\ srv'.failed = srv.failed
    <3>1. CASE Finish \/ Join
      BY <3>1 DEF Finish, Join, ReaderOK
    <3>2. CASE RestoreLeaves
      BY <3>2 DEF RestoreLeaves, ReaderOK, StockOK, SrvOK
    <3> QED
      BY <1>6, <3>1, <3>2
  <2>2. imp'.bk = imp.bk /\ imp'.active = imp.active
    BY <1>6, Fields DEF Finish, Join, RestoreLeaves
  <2> QED
    BY <2>1, <2>2, MemoryAlone DEF Guarded
<1>7. CASE RestoreAnalysed
  <2>1. /\ UNCHANGED <<inflight, srv>> /\ imp.pc \notin {"idle", "check"} /\ imp'.pc # "push"
        /\ imp'.bk = imp.bk /\ imp'.active = imp.active
    BY <1>7 DEF RestoreAnalysed, ReaderOK
  <2>2. held' = held \/ \E x : held' = [held EXCEPT !.analysed = x]
    BY <1>7 DEF RestoreAnalysed
  <2>3. held'.lists = held.lists /\ held'.tier = held.tier
    BY <2>2 DEF StockOK
  <2> QED
    BY <2>1, <2>3, MemoryAlone DEF Guarded
<1>8. CASE Drained \/ ListAdds \/ ListRelief
  <2>1. ~ imp'.active
    BY <1>8 DEF Drained, ToLists, ListAdds, ListRelief, ReaderOK
  <2> QED
    BY <1>2, <2>1 DEF Guarded
<1>9. CASE OperatorStops \/ UNCHANGED impVars
  <2>1. UNCHANGED <<imp, inflight, held>> /\ srv'.set = srv.set /\ srv'.failed = srv.failed
    BY <1>9 DEF OperatorStops, impVars, StockOK, SrvOK
  <2>2. Block' = Block /\ (Guarded' => Guarded)
    BY <2>1 DEF Block, Guarded
  <2> QED
    BY <2>1, <2>2, MemoryAlone
<1>10. CASE StartWorkers
  <2>1. UNCHANGED <<inflight, held, srv>> /\ imp' = [imp EXCEPT !.nb = srv.set.workers]
    BY <1>10 DEF StartWorkers
  <2>2. Block' = Block /\ imp'.pc = imp.pc /\ (Guarded' => Guarded)
    BY <2>1 DEF Block, Guarded, ReaderOK
  <2> QED
    BY <2>1, <2>2, MemoryAlone
<1>11. CASE FillSlot \/ PublishSlot
  <2>1. UNCHANGED <<inflight, held, srv>> /\ imp.pc \notin {"idle", "check"} /\ imp'.pc # "push"
        /\ imp'.bk = imp.bk /\ imp'.active = imp.active
    BY <1>11 DEF FillSlot, PublishSlot, Pushed, ReaderOK
  <2> QED
    BY <2>1, MemoryAlone DEF Guarded
<1>12. CASE RoomFound \/ RoomMade \/ ImpNoRoom
  <2>1. /\ UNCHANGED <<inflight, srv>> /\ imp.pc = "room" /\ imp'.pc \in {"push", "look", "refused"}
        /\ imp'.bk = imp.bk /\ imp'.active = imp.active /\ Block' = Block
    BY <1>12, Fields DEF RoomFound, RoomMade, ImpNoRoom, Block
  <2>2. CASE ~ Guarded
    BY <1>2, <2>1, <2>2 DEF Guarded
  <2>3. Cost(Block) \in 1 .. MaxCost /\ Cost(Block)' = Cost(Block)
    BY <2>1, StackIs, Constants DEF Pushing, Cost, MaxCost
  <2>4. CASE RoomMade /\ Guarded
    <3>1. PICK k \in ImpStack : held' = ToDisk(k)
      BY <2>4 DEF RoomMade
    <3>2. held'.lists = held.lists /\ TierSize' <= TierSize
      BY <3>1, ToDiskKeeps
    <3>3. imp'.pc # "push"
      BY <2>4 DEF RoomMade, ReaderOK
    <3>4. TierSize' + inflight' <= TierSize + inflight
      <4>1. PICK t \in Nat, u \in Nat, i \in Nat : t = TierSize /\ u = TierSize' /\ i = inflight /\ i = inflight'
        BY <1>1, <2>1
      <4>2. u <= t
        BY <3>2, <4>1
      <4>3. u + i <= t + i
        BY <4>2
      <4> QED
        BY <4>1, <4>3
    <3> QED
      BY <1>1, <2>1, <2>4, <3>2, <3>3, <3>4, MemoryShrinks
  <2>5. CASE ~ RoomMade /\ imp'.pc # "push" /\ Guarded
    <3>1. held' = held
      BY <1>12, <2>5 DEF RoomFound, ImpNoRoom
    <3> QED
      BY <2>1, <2>5, <3>1, MemoryAlone
  <2>6. CASE ~ RoomMade /\ imp'.pc = "push" /\ Guarded
    <3>1. held' = held /\ (import_occupancy + Cost(Block) <= srv.set.soft \/ import_occupancy = 0)
      BY <1>12, <2>6 DEF RoomFound, ImpNoRoom, ReaderOK
    <3>2. import_occupancy = TierSize + inflight
      BY <2>6, ResidentIs DEF import_occupancy
    <3>3. Within(TierSize + inflight + Cost(Block), srv.set.soft, MaxCost)
      BY <1>1, <2>3, <3>1, <3>2 DEF Within, MaxCost
    <3>4. TierSize' = TierSize
      BY <3>1 DEF TierSize
    <3> QED
      BY <2>1, <2>3, <2>6, <3>1, <3>3, <3>4 DEF MemoryOK, Guarded
  <2> QED
    BY <1>12, <2>2, <2>4, <2>5, <2>6
<1>13. CASE PushDirect
  <2>1. CASE Guarded'
    <3>1. held' = [held EXCEPT !.tier[StackOf] = Append(@, Block)] /\ imp' = Pushed(imp) /\ UNCHANGED srv
      BY <1>13, <2>1 DEF PushDirect, Guarded, StockOK, SrvOK
    <3>2. imp.pc = "push" /\ inflight' = inflight
      BY <1>13 DEF PushDirect
    <3>3. StackOf \in ImpStack /\ Block \in Seq(Nat) /\ Len(Block) \in 0 .. ImpTarget
      BY <3>2, StackIs DEF Pushing
    <3>4. held'.lists = held.lists /\ TierSize' = TierSize + Len(Block)
      BY <3>1, <3>3, LinkKeeps
    <3>5. imp'.pc # "push" /\ Guarded
      BY <2>1, <3>1, <3>2 DEF Pushed, ReaderOK, Guarded
    <3>6. /\ held.lists = {}
          /\ TierSize + inflight + (Len(Block) + 1) <= srv.set.soft \/ TierSize + inflight + (Len(Block) + 1) <= ImpTarget + 1
      BY <3>2, <3>5 DEF MemoryOK, Guarded, Within, MaxCost, Cost
    <3>7. PICK n \in 0 .. ImpTarget : n = Len(Block)
      BY <3>3
    <3>8. /\ TierSize' <= srv.set.soft \/ TierSize' <= ImpTarget
          /\ TierSize' + inflight' <= srv.set.soft \/ TierSize' + inflight' <= ImpTarget + 1
      BY <1>1, <3>2, <3>4, <3>6, <3>7
    <3> QED
      BY <3>1, <3>4, <3>5, <3>6, <3>8 DEF MemoryOK, Within, MaxCost
  <2> QED
    BY <1>2, <2>1
<1>14. CASE Reserve
  <2>1. CASE Guarded'
    <3>1. /\ UNCHANGED <<held, srv>> /\ imp.pc = "push" /\ imp'.pc = "slot" /\ Guarded
          /\ inflight' = inflight + Cost(Block)
      BY <1>14, <2>1 DEF Reserve, ReaderOK, Guarded
    <3>2. TierSize' = TierSize
      BY <3>1 DEF TierSize
    <3>3. Cost(Block) \in Nat
      BY <3>1, StackIs, Constants DEF Pushing, Cost
    <3>4. TierSize + inflight + Cost(Block) = TierSize' + inflight'
      BY <1>1, <3>1, <3>2, <3>3
    <3> QED
      BY <3>1, <3>2, <3>4 DEF MemoryOK, Guarded
  <2> QED
    BY <1>2, <2>1
<1>15. ASSUME NEW w \in ImpWorker, WorkerStep(w) PROVE MemoryOK'
  <2>1. CASE ~ Guarded'
    BY <1>2, <2>1
  <2>2. CASE Guarded'
    <3>1. UNCHANGED <<imp, srv>> /\ Guarded /\ Block' = Block /\ ~ WorkerRefills(w)
      BY <1>15, <2>2 DEF WorkerStep, WorkerTakes, WorkerLinks, WorkerRefills, WorkerReleases, WorkerPops, WorkerExits, Guarded,
         Block, StockOK, SrvOK
    <3>2. CASE WorkerTakes(w) \/ WorkerPops(w) \/ WorkerExits(w)
      BY <3>1, <3>2, MemoryAlone DEF WorkerTakes, WorkerPops, WorkerExits
    <3>3. Job(w) \in JobRec
      BY JobIs
    <3>4. ASSUME WorkerLinks(w) \/ WorkerReleases(w)
          PROVE  inflight' = inflight - Job(w).cost /\ Job(w).cost = Len(Job(w).recs) + 1
      <4>1. /\ wk[w].pc \in {"build", "release"} /\ wk' = [wk EXCEPT ![w].pc = "pop"]
            /\ inflight' = inflight - Job(w).cost /\ UNCHANGED imp
        BY <3>4 DEF WorkerLinks, WorkerReleases, Released
      <4> QED
        BY <4>1, LeaveKeepsAccount
    <3>5. Len(Job(w).recs) \in Nat /\ Job(w).recs \in Seq(Nat) /\ Job(w).stack \in ImpStack
      BY <3>3 DEF JobRec
    <3>6. imp.pc = "push" => Cost(Block) \in Int
      BY StackIs, Constants DEF Pushing, Cost
    <3>7. CASE WorkerLinks(w)
      <4>1. held'.lists = held.lists /\ TierSize' = TierSize + Len(Job(w).recs)
        BY <3>5, <3>7, LinkKeeps DEF WorkerLinks
      <4>2. TierSize' + inflight' < TierSize + inflight
        BY <1>1, <3>4, <3>5, <3>7, <4>1
      <4> QED
        BY <1>1, <3>1, <3>6, <4>1, <4>2, MemoryShrinks
    <3>8. CASE WorkerReleases(w)
      <4>1. held' = held /\ TierSize' = TierSize
        BY <3>8 DEF WorkerReleases, TierSize
      <4>2. PICK n \in Nat : n = Len(Job(w).recs)
        BY <3>5
      <4>3. inflight' = inflight - (n + 1)
        BY <3>4, <3>8, <4>2
      <4>4. TierSize' + inflight' < TierSize + inflight
        BY <1>1, <4>1, <4>3
      <4>5. TierSize' + inflight' <= TierSize + inflight
        BY <1>1, <4>1, <4>3
      <4>6. held'.lists = held.lists /\ srv'.set.soft = srv.set.soft /\ (imp'.pc = "push" => imp.pc = "push" /\ Block' = Block)
        BY <3>1, <4>1
      <4> QED
        BY <1>1, <3>1, <3>6, <4>4, <4>5, <4>6, MemoryShrinks
    <3> QED
      BY <1>15, <3>1, <3>2, <3>7, <3>8 DEF WorkerStep
  <2> QED
    BY <2>1, <2>2
<1> QED
  BY <1>3, <1>4, <1>5, <1>6, <1>7, <1>8, <1>9, <1>10, <1>11, <1>12, <1>13, <1>14, <1>15 DEF ImpNext, ReaderStep
-----------------------------------------------------------------------------
(* The tier is full when it is given up.                                   *)

\* What a refusal depends on is as it was.
LEMMA FullAlone ==
  ASSUME Full, inflight' = inflight, held' = held, Block' = Block,
         srv'.set.soft = srv.set.soft, srv'.set.spill = srv.set.spill
  PROVE  Full'
BY DEF Full, ImpResident, Cost, NoneInTier

\* With nothing in flight, no thread does anything to the stock.
LEMMA WorkersIdleWhenFull ==
  ASSUME ReaderOK, QueuesOK, AccountOK, NEW w \in ImpWorker, WorkerStep(w), inflight = 0
  PROVE  UNCHANGED <<inflight, held, srv>>
<1>1. wk[w].pc \notin {"build", "release"}
  BY BusyCounted
<1> QED
  BY <1>1 DEF WorkerStep, WorkerTakes, WorkerLinks, WorkerRefills, WorkerReleases, WorkerPops, WorkerExits

LEMMA InflightShrinks ==
  ASSUME ReaderOK, QueuesOK, AccountOK, NEW w \in ImpWorker, WorkerStep(w)
  PROVE  inflight' <= inflight
<1>1. inflight \in Nat
  BY InflightIs
<1>2. CASE WorkerLinks(w) \/ WorkerReleases(w)
  <2>1. /\ wk[w].pc \in {"build", "release"} /\ wk' = [wk EXCEPT ![w].pc = "pop"]
        /\ inflight' = inflight - Job(w).cost /\ UNCHANGED imp
    BY <1>2 DEF WorkerLinks, WorkerReleases, Released
  <2>2. Job(w).cost \in Nat
    BY JobIs DEF JobRec
  <2> QED
    BY <1>1, <2>1, <2>2
<1>3. CASE WorkerTakes(w) \/ WorkerRefills(w) \/ WorkerPops(w) \/ WorkerExits(w)
  <2>1. inflight' = inflight
    BY <1>3 DEF WorkerTakes, WorkerRefills, WorkerPops, WorkerExits
  <2> QED
    BY <1>1, <2>1
<1> QED
  BY <1>2, <1>3 DEF WorkerStep

LEMMA RefusalNext ==
  ReaderOK /\ StockOK /\ QueuesOK /\ AccountOK /\ RefusalOK /\ [ImpNext]_impVars => RefusalOK'
<1> SUFFICES ASSUME ReaderOK, StockOK, QueuesOK, AccountOK, RefusalOK, [ImpNext]_impVars PROVE RefusalOK'
  OBVIOUS
<1>1. inflight \in Nat /\ imp.seen \in Nat
  BY InflightIs DEF ReaderOK
<1>2. ASSUME imp'.pc \notin {"room", "refused", "drain"} PROVE RefusalOK'
  BY <1>2 DEF RefusalOK
<1>3. ASSUME NEW b \in Backups, RestoreBegins(b) PROVE RefusalOK'
  BY <1>2, <1>3 DEF RestoreBegins, NotImporting
<1>4. CASE RestoreChecks \/ ReadRecord \/ ReadEnds \/ FinalFlush \/ RoomFound \/ RoomMade \/ WaitOne \/ Drained
  <2>1. imp'.pc \notin {"room", "refused", "drain"}
    <3>1. RoomFound => imp'.pc = "push"
      BY Fields DEF RoomFound
    <3>2. RoomMade \/ WaitOne => imp'.pc = "look"
      BY Fields DEF RoomMade, WaitOne
    <3> QED
      BY <1>4, <3>1, <3>2, PcMoves
  <2> QED
    BY <1>2, <2>1
<1>5. CASE StartWorkers \/ PushDirect \/ Reserve \/ FillSlot \/ PublishSlot
  <2>1. imp'.pc \notin {"room", "refused", "drain"}
    BY <1>5 DEF StartWorkers, PushDirect, Reserve, FillSlot, PublishSlot, Pushed, ToLists, ReaderOK
  <2> QED
    BY <1>2, <2>1
<1>6. CASE ListAdds \/ ListRelief \/ ListAborts \/ ListEnds \/ Finish \/ Join \/ RestoreAnalysed \/ RestoreLeaves
  <2>1. imp'.pc \notin {"room", "refused", "drain"}
    BY <1>6, Fields DEF ListAdds, ListRelief, ListAborts, ListEnds, Finish, Join, RestoreAnalysed, RestoreLeaves
  <2> QED
    BY <1>2, <2>1
<1>7. CASE LookInFlight
  <2>1. imp'.pc = "room" /\ imp'.seen = inflight /\ inflight' = inflight
    BY <1>7 DEF LookInFlight, ReaderOK
  <2> QED
    BY <1>1, <2>1 DEF RefusalOK
<1>8. CASE ImpNoRoom
  <2>1. /\ imp.pc = "room" /\ imp'.pc \in {"push", "refused"} /\ imp'.seen = imp.seen
        /\ UNCHANGED <<inflight, held, srv>> /\ Block' = Block
        /\ import_occupancy + Cost(Block) > srv.set.soft /\ (srv.set.spill => NoneInTier)
    BY <1>8 DEF ImpNoRoom, ReaderOK, Block
  <2>2. inflight <= imp.seen
    BY <2>1 DEF RefusalOK
  <2>3. ASSUME imp.seen = 0 PROVE Full'
    <3>1. inflight = 0
      BY <1>1, <2>2, <2>3
    <3>2. ImpResident \in Nat
      <4>1. Cardinality(TierPlaces(held.tier)) \in Nat /\ Cardinality(held.lists) \in Nat
        BY FS_CardinalityType DEF StockOK
      <4> QED
        BY <4>1, Constants DEF ImpResident
    <3>3. import_occupancy = ImpResident
      BY <3>1, <3>2 DEF import_occupancy
    <3>4. Full
      BY <2>1, <3>1, <3>3 DEF Full
    <3> QED
      BY <2>1, <3>4, FullAlone
  <2> QED
    BY <2>1, <2>2, <2>3 DEF RefusalOK
<1>9. CASE Refused
  <2>1. UNCHANGED <<inflight, held, srv>> /\ Block' = Block /\ imp.pc = "refused"
    BY <1>9 DEF Refused, ReaderOK, Block
  <2>2. (imp.seen = 0 /\ imp'.pc = "drain") \/ imp'.pc = "waitOne"
    BY <1>9 DEF Refused, InFlightSeen, ReaderOK
  <2> QED
    BY <1>2, <2>1, <2>2, FullAlone DEF RefusalOK
<1>10. ASSUME NEW w \in ImpWorker, WorkerStep(w) PROVE RefusalOK'
  <2>1. imp' = imp /\ Block' = Block
    BY <1>10 DEF WorkerStep, WorkerTakes, WorkerLinks, WorkerRefills, WorkerReleases, WorkerPops, WorkerExits, Block
  <2>2. inflight' <= inflight
    BY <1>10, InflightShrinks
  <2>3. inflight' \in Int
    <3>1. Job(w).cost \in Nat
      BY JobIs DEF JobRec
    <3>2. inflight' = inflight \/ inflight' = inflight - Job(w).cost
      BY <1>10 DEF WorkerStep, WorkerTakes, WorkerLinks, WorkerRefills, WorkerReleases, WorkerPops, WorkerExits, Released
    <3> QED
      BY <1>1, <3>1, <3>2
  <2>4. imp'.pc \in {"room", "refused"} => inflight' <= imp'.seen
    <3>1. imp.pc \in {"room", "refused"} => inflight <= imp.seen
      BY DEF RefusalOK
    <3> QED
      BY <1>1, <2>1, <2>2, <2>3, <3>1
  <2>5. ASSUME Full PROVE Full'
    <3>1. UNCHANGED <<inflight, held, srv>>
      BY <1>10, <2>5, WorkersIdleWhenFull DEF Full
    <3> QED
      BY <2>1, <2>5, <3>1, FullAlone
  <2> QED
    BY <2>1, <2>4, <2>5 DEF RefusalOK
<1>11. CASE OperatorStops \/ UNCHANGED impVars
  <2>1. UNCHANGED <<imp, inflight, held>> /\ srv'.set = srv.set
    BY <1>11 DEF OperatorStops, impVars, StockOK, SrvOK
  <2>2. Block' = Block
    BY <2>1 DEF Block
  <2> QED
    BY <2>1, <2>2, FullAlone DEF RefusalOK
<1> QED
  BY <1>3, <1>4, <1>5, <1>6, <1>7, <1>8, <1>9, <1>10, <1>11 DEF ImpNext, ReaderStep

-----------------------------------------------------------------------------
(* The invariant of the restore, and what follows from it.                 *)

RestoreOK == ReaderOK /\ StockOK /\ QueuesOK /\ AccountOK /\ MemoryOK /\ RefusalOK

LEMMA RestoreInit == ImpInit => RestoreOK
<1> SUFFICES ASSUME ImpInit PROVE RestoreOK
  OBVIOUS
<1>1. imp = NotImporting /\ wk = [w \in ImpWorker |-> NoWorker] /\ inflight = 0
  BY DEF ImpInit
<1>2. ReaderOK
  <2>1. (CHOOSE b \in Backups : TRUE) \in Backups
    BY ImpAssumption
  <2>2. <<>> \in Seq(Nat) /\ Len(<<>>) = 0
    OBVIOUS
  <2> QED
    BY <1>1, <2>1, <2>2, Constants DEF ReaderOK, NotImporting, ImpPc, Pushing
<1>3. StockOK
  <2>1. PICK s \in ImpSettings : srv = [set |-> s, req |-> "continue", prev |-> "continue", maint |-> 0, failed |-> FALSE,
                                        result |-> "none"]
    BY DEF ImpInit
  <2>2. SrvOK
    BY <2>1, ImpAssumption DEF SrvOK
  <2>3. held = [lists |-> OldStock.lists, tier |-> Kept, disk |-> Kept, kept |-> OldStock.disk, analysed |-> OldStock.analysed]
    BY DEF ImpInit
  <2>4. OldStock.lists \in SUBSET Nat /\ IsFiniteSet(OldStock.lists)
    BY ImpAssumption
  <2> QED
    BY <2>2, <2>3, <2>4, EmptySize DEF StockOK
<1>4. QueuesOK /\ \A w \in ImpWorker : wk[w].count = 0
  <2>1. \A w \in ImpWorker : wk[w] = NoWorker
    BY <1>1
  <2> QED
    BY <1>1, <2>1, NoWorkerIs DEF QueuesOK, QueueRec
<1>5. AccountOK
  <2>1. \A w \in ImpWorker, s \in Slot : ~ Waits(w, s)
    BY <1>4, NothingWaits
  <2>2. Cardinality(Reserved) = 0
    BY <2>1, NoJobs
  <2> QED
    BY <1>1, <2>1, <2>2 DEF AccountOK, JobsOK, ReservationsTrue, OnItsWay, NotImporting
<1>6. MemoryOK /\ RefusalOK
  BY <1>1 DEF MemoryOK, RefusalOK, NotImporting
<1> QED
  BY <1>2, <1>3, <1>4, <1>5, <1>6 DEF RestoreOK

LEMMA RestoreNext == RestoreOK /\ [ImpNext]_impVars => RestoreOK'
<1> SUFFICES ASSUME RestoreOK, [ImpNext]_impVars PROVE RestoreOK'
  OBVIOUS
<1>1. ReaderOK /\ StockOK /\ QueuesOK /\ AccountOK /\ MemoryOK /\ RefusalOK
  BY DEF RestoreOK
<1>2. inflight \in Nat
  BY <1>1, InflightIs
<1>3. ReaderOK' /\ StockOK'
  BY <1>1, <1>2, ReaderNext, StockNext
<1>4. QueuesOK'
  BY <1>1, QueuesNext DEF AccountOK
<1>5. AccountOK'
  BY <1>1, AccountNext
<1>6. MemoryOK'
  BY <1>1, <1>3, <1>5, MemoryNext
<1>7. RefusalOK'
  BY <1>1, RefusalNext
<1> QED
  BY <1>3, <1>4, <1>5, <1>6, <1>7 DEF RestoreOK

\* The account of the reservations holds throughout a restore: g_import_inflight
\* is what the jobs of the queues and the block on its way reserve, whatever the
\* threads have done (import_build_and_link, import_enqueue).
THEOREM ImportInvariant == ImpSpec => []RestoreOK
<1>1. ImpInit => RestoreOK
  BY RestoreInit
<1>2. RestoreOK /\ [ImpNext]_impVars => RestoreOK'
  BY RestoreNext
<1> QED
  BY <1>1, <1>2, PTL DEF ImpSpec

LEMMA MaxIs == ASSUME NEW a \in Nat, NEW b \in Nat PROVE Max({a, b}) = IF a >= b THEN a ELSE b
<1> DEFINE m == IF a >= b THEN a ELSE b
<1>1. m \in {a, b} /\ \A y \in {a, b} : m >= y
  OBVIOUS
<1>2. \A x \in {a, b} : (\A y \in {a, b} : x >= y) => x = m
  OBVIOUS
<1> HIDE DEF m
<1>3. (CHOOSE x \in {a, b} : \A y \in {a, b} : x >= y) = m
  BY <1>1, <1>2
<1> QED
  BY <1>3 DEF Max, m

\* The memory of the stock stays under the soft limit while the blocks of a backup
\* go to the tier, or is that of one block: tier_hook_import_push tests the limit
\* before several threads link what was accepted, and none links more than was
\* reserved for it.
THEOREM ImportMemoryBounded == ImpSpec => []MemoryBounded
<1>1. RestoreOK => MemoryBounded
  <2> SUFFICES ASSUME RestoreOK, Guarded PROVE ImpResident <= Max({srv.set.soft, ImpTarget})
    BY DEF MemoryBounded, Guarded
  <2>1. ImpResident = TierSize /\ TierSize \in Nat /\ srv.set.soft \in Nat
    BY ResidentIs, TierIs DEF RestoreOK, StockOK, SrvOK
  <2>2. TierSize <= srv.set.soft \/ TierSize <= ImpTarget
    BY DEF RestoreOK, MemoryOK, Guarded, Within
  <2>3. Max({srv.set.soft, ImpTarget}) = IF srv.set.soft >= ImpTarget THEN srv.set.soft ELSE ImpTarget
    BY <2>1, Constants, MaxIs
  <2> QED
    BY <2>1, <2>2, <2>3, Constants
<1> QED
  BY <1>1, ImportInvariant, PTL

\* The tier is left only when it is full for good: nothing is in flight and no block
\* of it can go to the disk (the comment of tier_hook_import_push), or the memory of
\* a block could not be had.
THEOREM TierLeftWhenFull == ImpSpec => RefusedWhenFull
<1> DEFINE Leaves == imp.active /\ ~ imp'.active /\ ~ srv'.failed
<1>1. ASSUME RestoreOK, [ImpNext]_impVars, Leaves PROVE Full
  <2>1. StockOK /\ ReaderOK
    BY <1>1 DEF RestoreOK
  <2>2. ASSUME imp'.active = imp.active PROVE FALSE
    BY <1>1, <2>2
  <2>3. CASE Drained
    <3>1. imp.pc = "drain"
      BY <2>3 DEF Drained
    <3> QED
      BY <1>1, <3>1 DEF RestoreOK, RefusalOK
  <2>4. CASE PushDirect
    <3>1. CASE imp' = Pushed(imp)
      <4>1. imp'.active = imp.active
        BY <2>1, <3>1 DEF Pushed, ReaderOK
      <4> QED
        BY <2>2, <4>1
    <3>2. CASE srv' = [srv EXCEPT !.set.fails = @ - 1, !.failed = TRUE]
      <4>1. srv'.failed
        BY <2>1, <3>2 DEF StockOK, SrvOK
      <4> QED
        BY <1>1, <4>1
    <3> QED
      BY <2>4, <3>1, <3>2 DEF PushDirect
  <2>5. ASSUME NEW b \in Backups, RestoreBegins(b) PROVE Full
    <3>1. imp'.active
      BY <2>5 DEF RestoreBegins, NotImporting
    <3> QED
      BY <1>1, <3>1
  <2>6. CASE FinalFlush
    <3>1. imp'.active = imp.active \/ ~ imp.active
      BY <2>1, <2>6 DEF FinalFlush, ReaderOK
    <3> QED
      BY <1>1, <2>2, <3>1
  <2>7. CASE RestoreChecks \/ ReadRecord \/ ReadEnds \/ LookInFlight \/ RoomFound \/ RoomMade \/ ImpNoRoom \/ Refused \/ WaitOne
    <3>1. imp'.active = imp.active
      BY <2>1, <2>7, Fields DEF RestoreChecks, ReadRecord, ReadEnds, LookInFlight, RoomFound, RoomMade, ImpNoRoom, Refused,
         WaitOne
    <3> QED
      BY <2>2, <3>1
  <2>8. CASE StartWorkers \/ Reserve \/ FillSlot \/ PublishSlot \/ Finish \/ Join
    <3>1. imp'.active = imp.active
      BY <2>1, <2>8 DEF StartWorkers, Reserve, FillSlot, PublishSlot, Pushed, Finish, Join, ReaderOK
    <3> QED
      BY <2>2, <3>1
  <2>9. CASE ListAdds \/ ListRelief \/ ListAborts \/ ListEnds \/ RestoreAnalysed \/ RestoreLeaves
    <3>1. imp'.active = imp.active
      BY <2>1, <2>9 DEF ListAdds, ListRelief, ListAborts, ListEnds, RestoreAnalysed, RestoreLeaves, ReaderOK
    <3> QED
      BY <2>2, <3>1
  <2>10. CASE OperatorStops \/ UNCHANGED impVars
    <3>1. imp' = imp
      BY <2>10 DEF OperatorStops, impVars
    <3> QED
      BY <2>2, <3>1
  <2>11. ASSUME NEW w \in ImpWorker, WorkerStep(w) PROVE Full
    <3>1. imp' = imp
      BY <2>11 DEF WorkerStep, WorkerTakes, WorkerLinks, WorkerRefills, WorkerReleases, WorkerPops, WorkerExits
    <3> QED
      BY <2>2, <3>1
  <2> QED
    BY <1>1, <2>3, <2>4, <2>5, <2>6, <2>7, <2>8, <2>9, <2>10, <2>11 DEF ImpNext, ReaderStep
<1>2. RestoreOK /\ [ImpNext]_impVars => [Leaves => Full]_impVars
  BY <1>1
<1> HIDE DEF Leaves
<1>3. ImpSpec => [][Leaves => Full]_impVars
  BY <1>2, ImportInvariant, PTL DEF ImpSpec
<1>4. (Leaves => Full) <=> (imp.active /\ ~ imp'.active /\ ~ srv'.failed =>
        inflight = 0 /\ ImpResident + Cost(Block) > srv.set.soft /\ (srv.set.spill => NoneInTier))
  BY DEF Leaves, Full
<1> QED
  BY <1>3, <1>4, PTL DEF RefusedWhenFull

-----------------------------------------------------------------------------
(* checkOrigin. *)

\* q is a copy or a root of p.
Covers(q, p) == Same(q, p) \/ is_origin_of(q, p)
StockOf(s) == /\ DOMAIN s = AudFile
              /\ \A f \in AudFile : s[f] \in Seq(ToSet(s[f])) /\ \A p \in ToSet(s[f]) : IsFiniteSet(p.cells)

NbEntries == Len(ori.entries)
Entry == 1 .. NbEntries
\* The entries are the possibilities of the lists, each once, by number of pieces.
EntriesOK ==
  /\ NbEntries \in Nat /\ ori.entries \in [Entry -> ori.before]
  /\ \A i, j \in Entry : ori.entries[i] = ori.entries[j] => i = j
  /\ \A p \in ori.before : (\E i \in Entry : ori.entries[i] = p) /\ IsFiniteSet(p.cells)
  /\ \A i, j \in Entry : i < j => Alloc(ori.entries[i]) <= Alloc(ori.entries[j])
Flagged == ori.dups \cup ori.descs
CoversAt(i, j) == Covers(ori.entries[i], ori.entries[j])
FlagsOK ==
  /\ ori.dups \subseteq Entry /\ ori.descs \subseteq Entry
  /\ ori.found = Cardinality(ori.dups) + Cardinality(ori.descs)
  /\ \A j \in Flagged : \E i \in Entry : i < j /\ CoversAt(i, j)
OriThreadT == [pc : {"look", "mark", "end"}, i : Nat, j : Nat]
PlaceOK(th) ==
  th.pc # "end" =>
    /\ th.i \in Entry /\ th.j \in (th.i + 1) .. (NbEntries + 1)
    /\ th.pc = "mark" => th.j \in Entry /\ CoversAt(th.i, th.j)
\* Thread t has the pair (i, j) before it.
Ahead(th, i, j) == \E k \in Nat : i = th.i + k * OriginThreads /\ (k = 0 => j >= th.j)
PairsSeen ==
  \A i, j \in Entry : i < j /\ CoversAt(i, j) =>
    j \in Flagged \/ \E t \in OriThread : ori.threads[t].pc # "end" /\ Ahead(ori.threads[t], i, j)
ScanOK ==
  /\ DOMAIN ori = {"pc", "entries", "purge", "found", "result", "dups", "descs", "before", "threads"}
  /\ ori.purge \in BOOLEAN
  /\ StockOf(lists) /\ ori.before = Collected
  /\ EntriesOK /\ FlagsOK
  /\ ori.threads \in [OriThread -> OriThreadT]
  /\ \A t \in OriThread : PlaceOK(ori.threads[t])
  /\ PairsSeen
AInv ==
  /\ ori.pc \in {"idle", "start", "scan", "end"}
  /\ ori.pc = "start" => StockOf(lists)
  /\ ori.pc = "scan" => ScanOK
  /\ ori.pc = "end" => OriginsRight

-----------------------------------------------------------------------------
(* What the purge leaves of a list. *)

PurgeOp(gone, y, u, p) == IF p \in gone THEN u ELSE Append(u, p)
\* The first n of the list x[1], less those of x[2], have been copied.
Purged(x, n, u) == u \in Seq(ToSet(x[1])) /\ ToSet(u) = {x[1][i] : i \in 1 .. n} \ x[2]
Purge == INSTANCE Iteration WITH Op <- PurgeOp, P <- Purged

LEMMA WithoutAllIs ==
  ASSUME NEW s, s \in Seq(ToSet(s)), NEW gone
  PROVE  WithoutAll(s, gone) \in Seq(ToSet(s)) /\ ToSet(WithoutAll(s, gone)) = ToSet(s) \ gone
<1> DEFINE g == CHOOSE g : Purge!IsFold(gone, 0, <<>>, s, g)
           x == <<s, gone>>
<1>1. Len(s) \in Nat /\ DOMAIN s = 1 .. Len(s) OBVIOUS
<1>2. Purge!IsFold(gone, 0, <<>>, s, g) BY <1>1, Purge!FoldExists
<1>3. WithoutAll(s, gone) = g[DOMAIN s]
  BY DEF WithoutAll, FoldLeft, MapThenFoldSet, Purge!IsFold, Purge!Step, PurgeOp, Purge!Last, Max
<1> HIDE DEF g
<1>4. Purged(x, 0, <<>>) BY DEF Purged, ToSet
<1>5. \A k \in 1 .. Len(s) : \A v : Purged(x, k - 1, v) => Purged(x, k, PurgeOp(gone, 0, v, s[k]))
  <2> SUFFICES ASSUME NEW k \in 1 .. Len(s), NEW v, Purged(x, k - 1, v)
               PROVE  Purged(x, k, PurgeOp(gone, 0, v, s[k]))
    OBVIOUS
  <2>1. v \in Seq(ToSet(s)) /\ ToSet(v) = {s[i] : i \in 1 .. k - 1} \ gone BY DEF Purged
  <2>2. s[k] \in ToSet(s) BY <1>1 DEF ToSet
  <2>3. {s[i] : i \in 1 .. k} = {s[i] : i \in 1 .. k - 1} \cup {s[k]}
    <3>1. 1 .. k = (1 .. k - 1) \cup {k} OBVIOUS
    <3> QED BY <3>1, Zenon
  <2>4. CASE s[k] \in gone BY <2>1, <2>3, <2>4 DEF Purged, PurgeOp
  <2>5. CASE s[k] \notin gone
    <3>1. Append(v, s[k]) \in Seq(ToSet(s)) BY <2>1, <2>2
    <3>2. ToSet(Append(v, s[k])) = ToSet(v) \cup {s[k]}
      <4> DEFINE w == Append(v, s[k])
      <4>1. DOMAIN w = 1 .. Len(v) + 1 /\ DOMAIN v = 1 .. Len(v) /\ Len(v) \in Nat BY <2>1, <2>2
      <4>2. \A i \in 1 .. Len(v) : w[i] = v[i] BY <2>1, <2>2
      <4>3. w[Len(v) + 1] = s[k] BY <2>1, <2>2
      <4> HIDE DEF w
      <4> QED BY <4>1, <4>2, <4>3 DEF ToSet
    <3>3. ToSet(Append(v, s[k])) = {s[i] : i \in 1 .. k} \ gone BY <2>1, <2>3, <2>5, <3>2
    <3> QED BY <2>5, <3>1, <3>3 DEF Purged, PurgeOp
  <2> QED BY <2>4, <2>5
<1>6. Purged(x, Len(s), g[DOMAIN s]) BY <1>1, <1>2, <1>4, <1>5, Purge!FoldInduction
<1>7. ToSet(s) = {s[i] : i \in 1 .. Len(s)} BY <1>1 DEF ToSet
<1> QED BY <1>3, <1>6, <1>7 DEF Purged

-----------------------------------------------------------------------------
(* The entries. *)

\* The lists hold finitely many possibilities.
LEMMA CollectedFinite ==
  ASSUME StockOf(lists)
  PROVE  IsFiniteSet(Collected) /\ \A p \in Collected : IsFiniteSet(p.cells)
<1>1. ASSUME NEW f \in AudFile PROVE IsFiniteSet(ToSet(lists[f]))
  <2> DEFINE s == lists[f]
  <2>1. s \in Seq(ToSet(s)) BY DEF StockOf
  <2>2. Len(s) \in Nat /\ DOMAIN s = 1 .. Len(s) BY <2>1
  <2>3. s \in Surjection(1 .. Len(s), ToSet(s))
    <3>1. s \in [1 .. Len(s) -> ToSet(s)] BY <2>1, <2>2
    <3> QED BY <2>2, <3>1 DEF Surjection, ToSet
  <2>4. IsFiniteSet(1 .. Len(s)) BY <2>2, FS_Interval
  <2> QED BY <2>3, <2>4, FS_Surjection
<1> DEFINE T == {ToSet(lists[f]) : f \in AudFile}
           h == [f \in AudFile |-> ToSet(lists[f])]
<1>2. h \in Surjection(AudFile, T) BY DEF Surjection
<1>3. IsFiniteSet(AudFile) BY AudAssumption, FS_Interval DEF AudFile
<1>4. IsFiniteSet(T) BY <1>2, <1>3, FS_Surjection
<1>5. IsFiniteSet(UNION T) BY <1>1, <1>4, FS_UNION
<1> QED BY <1>5 DEF Collected, StockOf

LEMMA AllocIs ==
  ASSUME NEW p, IsFiniteSet(p.cells)
  PROVE  Alloc(p) \in Nat
BY FS_CardinalityType DEF Alloc

\* A root, or a copy, has no more pieces; what it covers is covered by what covers it.
LEMMA CoversIs ==
  ASSUME NEW o, NEW p, NEW q
  PROVE  /\ Same(p, q) => Alloc(p) = Alloc(q)
         /\ (Covers(o, p) /\ Covers(p, q) /\ {Alloc(o), Alloc(p), Alloc(q)} \subseteq Nat) => Covers(o, q)
<1>1. Same(p, q) => Alloc(p) = Alloc(q) BY DEF Same, Alloc
<1>2. ASSUME Covers(o, p), Covers(p, q), {Alloc(o), Alloc(p), Alloc(q)} \subseteq Nat PROVE Covers(o, q)
  <2>1. CASE Same(o, p) /\ Same(p, q) BY <2>1 DEF Same, Covers
  <2>2. CASE Same(o, p) /\ is_origin_of(p, q) BY <2>2 DEF Same, Covers, is_origin_of, Alloc
  <2>3. CASE is_origin_of(o, p) /\ Same(p, q) BY <2>3 DEF Same, Covers, is_origin_of, Alloc
  <2>4. CASE is_origin_of(o, p) /\ is_origin_of(p, q)
    <3>1. Alloc(o) < Alloc(q) BY <1>2, <2>4 DEF is_origin_of
    <3>2. o.cells \subseteq q.cells BY <2>4 DEF is_origin_of
    <3> QED BY <3>1, <3>2 DEF Covers, is_origin_of
  <2> QED BY <1>2, <2>1, <2>2, <2>3, <2>4 DEF Covers
<1> QED BY <1>1, <1>2

\* The array that is sorted holds each possibility once.
LEMMA SortedEntriesAre ==
  ASSUME StockOf(lists), NEW s \in SortedEntries
  PROVE  /\ Len(s) \in Nat /\ s \in [1 .. Len(s) -> Collected]
         /\ \A i, j \in 1 .. Len(s) : s[i] = s[j] => i = j
         /\ \A p \in Collected : \E i \in 1 .. Len(s) : s[i] = p
         /\ \A i, j \in 1 .. Len(s) : i < j => Alloc(s[i]) <= Alloc(s[j])
<1> DEFINE C == Cardinality(Collected)
<1>1. IsFiniteSet(Collected) /\ C \in Nat BY CollectedFinite, FS_CardinalityType
<1>2. s \in [1 .. C -> Collected] /\ \A i, j \in 1 .. C : i # j => s[i] # s[j] BY DEF SortedEntries, SetToSeqs
<1>3. Len(s) = C /\ DOMAIN s = 1 .. C
  <2>1. s \in Seq(Collected) BY <1>1, <1>2, SeqDef
  <2> QED BY <1>1, <1>2, <2>1
<1>4. s \in Surjection(1 .. C, Collected)
  <2>1. s \in Injection(1 .. C, Collected) BY <1>2 DEF Injection, IsInjective
  <2>2. IsFiniteSet(1 .. C) /\ Cardinality(1 .. C) = C BY <1>1, FS_Interval
  <2> QED BY <1>1, <2>1, <2>2, FS_Injection
<1>5. \A p \in Collected : \E i \in 1 .. C : s[i] = p BY <1>4 DEF Surjection
<1>6. ASSUME NEW i \in 1 .. C, NEW j \in 1 .. C, i < j PROVE Alloc(s[i]) <= Alloc(s[j])
  <2> DEFINE S == {k \in Nat : i + k <= C => Alloc(s[i]) <= Alloc(s[i + k])}
  <2>0. \A k \in 1 .. C : Alloc(s[k]) \in Nat
    <3>1. \A k \in 1 .. C : s[k] \in Collected BY <1>2
    <3> QED BY <3>1, CollectedFinite, AllocIs
  <2>1. 0 \in S BY <1>1, <2>0
  <2>2. ASSUME NEW k \in 0 .. (j - i) - 1, k \in S PROVE k + 1 \in S
    <3>1. i + k \in 1 .. C /\ i + (k + 1) \in 1 .. C /\ i + k \in 1 .. C - 1 /\ (i + k) + 1 = i + (k + 1) BY <1>1
    <3>2. Alloc(s[i]) <= Alloc(s[i + k]) BY <2>2, <3>1
    <3>3. Alloc(s[i + k]) <= Alloc(s[i + (k + 1)]) BY <1>3, <3>1 DEF SortedEntries
    <3>4. Alloc(s[i]) <= Alloc(s[i + (k + 1)]) BY <2>0, <3>1, <3>2, <3>3
    <3> QED BY <3>4
  <2>3. j - i \in Nat BY <1>6
  <2> HIDE DEF S
  <2>4. 0 .. j - i \subseteq S BY <2>1, <2>2, <2>3, Purge!UpTo
  <2>5. j - i \in S BY <2>3, <2>4
  <2>6. i + (j - i) = j OBVIOUS
  <2> QED BY <1>1, <2>5, <2>6 DEF S
<1> QED BY <1>1, <1>2, <1>3, <1>5, <1>6

-----------------------------------------------------------------------------
(* The scan. *)

LEMMA CollectOriginsStarts ==
  ASSUME StockOf(lists), NEW purge \in BOOLEAN, CollectOrigins(purge)
  PROVE  ScanOK'
<1>1. PICK s \in SortedEntries :
        ori' = [pc |-> "scan", entries |-> s, purge |-> purge, found |-> 0, result |-> 0,
                dups |-> {}, descs |-> {}, before |-> Collected,
                threads |-> [t \in OriThread |->
                  IF t < Len(s) THEN [pc |-> "look", i |-> t + 1, j |-> t + 2] ELSE Nobody]]
  BY DEF CollectOrigins
<1>2. lists' = lists BY DEF CollectOrigins
<1>3. Collected' = Collected BY <1>2 DEF Collected
<1>4. /\ Len(s) \in Nat /\ s \in [1 .. Len(s) -> Collected]
      /\ \A i, j \in 1 .. Len(s) : s[i] = s[j] => i = j
      /\ \A p \in Collected : \E i \in 1 .. Len(s) : s[i] = p
      /\ \A i, j \in 1 .. Len(s) : i < j => Alloc(s[i]) <= Alloc(s[j])
  BY SortedEntriesAre
<1>5. \A p \in Collected : IsFiniteSet(p.cells) BY CollectedFinite
<1> DEFINE st(t) == IF t < Len(s) THEN [pc |-> "look", i |-> t + 1, j |-> t + 2] ELSE Nobody
<1>6. /\ ori'.entries = s /\ ori'.before = Collected /\ ori'.dups = {} /\ ori'.descs = {} /\ ori'.found = 0
      /\ ori'.purge = purge
      /\ \A t \in OriThread : ori'.threads[t] = st(t)
      /\ ori'.threads = [t \in OriThread |-> st(t)]
      /\ DOMAIN ori' = {"pc", "entries", "purge", "found", "result", "dups", "descs", "before", "threads"}
  BY <1>1
<1>7. OriginThreads \in Nat \ {0} BY AudAssumption
<1>8. \A t \in OriThread : t \in Nat BY <1>7 DEF OriThread
<1>9. (StockOf(lists))' BY <1>2 DEF StockOf
<1>10. EntriesOK' BY <1>4, <1>5, <1>6 DEF EntriesOK, NbEntries, Entry
<1>11. FlagsOK' BY <1>6, FS_EmptySet DEF FlagsOK, Flagged, Entry, NbEntries
<1>12. ori'.threads \in [OriThread -> OriThreadT] BY <1>4, <1>6, <1>8 DEF OriThreadT, Nobody
<1>13. ASSUME NEW t \in OriThread PROVE PlaceOK(ori.threads[t])'
  <2>1. ori'.threads[t] = st(t) BY <1>6
  <2> QED BY <1>4, <1>6, <1>8, <2>1 DEF PlaceOK, NbEntries, Entry, Nobody
<1>14. PairsSeen'
  <2> SUFFICES ASSUME NEW i \in 1 .. Len(s), NEW j \in 1 .. Len(s), i < j
               PROVE  \E t \in OriThread : ori'.threads[t].pc # "end" /\ Ahead(ori'.threads[t], i, j)
    BY <1>6 DEF PairsSeen, Entry, NbEntries, Ahead
  <2> DEFINE t == (i - 1) % OriginThreads
             k == (i - 1) \div OriginThreads
  <2>1. k \in Nat /\ t \in 0 .. OriginThreads - 1 /\ i - 1 = k * OriginThreads + t BY <1>4, <1>7
  <2>2. 0 <= k * OriginThreads /\ k * OriginThreads \in Nat BY <1>7, <2>1
  <2>3. t \in OriThread /\ t < Len(s) BY <1>4, <2>1, <2>2 DEF OriThread
  <2>4. ori'.threads[t] = [pc |-> "look", i |-> t + 1, j |-> t + 2] BY <1>6, <2>3
  <2>5. i = (t + 1) + k * OriginThreads
    <3>1. PICK m \in Nat : m = k * OriginThreads BY <2>2
    <3>2. i - 1 = m + t /\ t \in Int /\ i \in Int BY <1>4, <1>7, <2>1, <3>1
    <3> HIDE DEF t, k
    <3>3. i = (t + 1) + m BY <3>1, <3>2
    <3> QED BY <3>1, <3>3
  <2>6. k = 0 => j >= t + 2
    <3> SUFFICES ASSUME k = 0 PROVE j >= t + 2 OBVIOUS
    <3>1. k * OriginThreads = 0 BY <1>7
    <3> QED BY <2>3, <2>5, <3>1, <1>4, <2>1
  <2> HIDE DEF t, k
  <2> QED BY <2>1, <2>3, <2>4, <2>5, <2>6 DEF Ahead
<1> QED BY <1>3, <1>6, <1>9, <1>10, <1>11, <1>12, <1>13, <1>14 DEF ScanOK

LEMMA AllocOf ==
  ASSUME ScanOK
  PROVE  \A i \in Entry : Alloc(ori.entries[i]) \in Nat
<1>1. \A i \in Entry : IsFiniteSet(ori.entries[i].cells) BY DEF ScanOK, EntriesOK
<1> QED BY <1>1, AllocIs

LEMMA UpperBoundIs ==
  ASSUME ScanOK, NEW a \in Nat
  PROVE  /\ origin_upper_bound(a) \in 1 .. (NbEntries + 1)
         /\ \A j \in Entry : IF j < origin_upper_bound(a) THEN Alloc(ori.entries[j]) <= a ELSE Alloc(ori.entries[j]) > a
<1> DEFINE S == {i \in DOMAIN ori.entries : Alloc(ori.entries[i]) > a} \cup {Len(ori.entries) + 1}
<1>1. NbEntries \in Nat /\ DOMAIN ori.entries = Entry BY DEF ScanOK, EntriesOK
<1>2. S \in SUBSET Nat /\ S # {} /\ S \subseteq 1 .. (NbEntries + 1) BY <1>1 DEF Entry, NbEntries
<1>3. PICK m \in S : \A i \in S : m <= i BY <1>2, Purge!Least
<1>4. origin_upper_bound(a) = Min(S) BY DEF origin_upper_bound
<1>5. \E x \in S : \A y \in S : x =< y BY <1>3
<1> DEFINE u == origin_upper_bound(a)
<1>6. u \in S /\ \A i \in S : u <= i
  <2> HIDE DEF S
  <2> QED BY <1>4, <1>5 DEF Min
<1>7. u \in 1 .. (NbEntries + 1) BY <1>2, <1>6
<1>8. ASSUME NEW j \in Entry PROVE IF j < u THEN Alloc(ori.entries[j]) <= a ELSE Alloc(ori.entries[j]) > a
  <2>1. Alloc(ori.entries[j]) \in Nat BY AllocOf
  <2>2. CASE j < u
    <3>1. j \notin S BY <1>1, <1>2, <1>6, <2>2 DEF Entry
    <3>2. ~ (Alloc(ori.entries[j]) > a) BY <1>1, <3>1
    <3> QED BY <2>1, <2>2, <3>2
  <2>3. CASE ~ (j < u)
    <3>1. u \in Entry /\ u <= j BY <1>1, <1>7, <2>3 DEF Entry
    <3>2. u # NbEntries + 1 BY <1>1, <3>1 DEF Entry
    <3>3. Alloc(ori.entries[u]) > a BY <1>6, <3>2 DEF NbEntries
    <3>4. Alloc(ori.entries[u]) <= Alloc(ori.entries[j])
      <4>1. CASE u = j BY <4>1, <2>1
      <4>2. CASE u # j
        <5>1. u < j BY <1>1, <3>1, <4>2 DEF Entry
        <5> QED BY <3>1, <5>1 DEF ScanOK, EntriesOK
      <4> QED BY <4>1, <4>2
    <3>5. Alloc(ori.entries[u]) \in Nat BY <3>1, AllocOf
    <3> QED BY <2>1, <2>3, <3>3, <3>4, <3>5
  <2> QED BY <2>2, <2>3
<1> QED BY <1>7, <1>8

\* The two loops of check_origin_thread look for what covers an entry.
LEMMA RelatedIs ==
  ASSUME ScanOK, NEW t \in OriThread, ori.threads[t].pc # "end", ori.threads[t].j \in Entry
  PROVE  Related(t) <=> CoversAt(ori.threads[t].i, ori.threads[t].j)
<1> DEFINE i == ori.threads[t].i
           j == ori.threads[t].j
           a == Alloc(ori.entries[i])
           b == Alloc(ori.entries[j])
<1>1. i \in Entry /\ i < j /\ i \in Nat /\ j \in Nat
  BY DEF ScanOK, PlaceOK, Entry, EntriesOK, OriThreadT
<1>2. a \in Nat /\ b \in Nat BY <1>1, AllocOf
<1>3. a <= b BY <1>1 DEF ScanOK, EntriesOK
<1>4. Same(ori.entries[i], ori.entries[j]) => a = b BY CoversIs
<1>5. EqualBand(t) <=> j < origin_upper_bound(a) BY DEF EqualBand, RootOf
<1>6. IF j < origin_upper_bound(a) THEN b <= a ELSE b > a BY <1>1, <1>2, UpperBoundIs
<1>7. Related(t) = IF EqualBand(t) THEN Same(ori.entries[i], ori.entries[j]) ELSE is_origin_of(ori.entries[i], ori.entries[j])
  BY DEF Related, RootOf
<1>8. is_origin_of(ori.entries[i], ori.entries[j]) => a < b BY DEF is_origin_of
<1>9. CoversAt(i, j) = (Same(ori.entries[i], ori.entries[j]) \/ is_origin_of(ori.entries[i], ori.entries[j]))
  BY DEF CoversAt, Covers
<1> HIDE DEF a, b
<1>10. CASE EqualBand(t)
  <2>0. j < origin_upper_bound(a) BY <1>5, <1>10
  <2>1. ~ (a < b) BY <1>2, <1>6, <2>0
  <2> QED BY <1>7, <1>8, <1>9, <1>10, <2>1, Zenon
<1>11. CASE ~ EqualBand(t)
  <2>0. ~ (j < origin_upper_bound(a)) BY <1>5, <1>11
  <2>1. a # b BY <1>2, <1>6, <2>0
  <2> QED BY <1>4, <1>7, <1>9, <1>11, <2>1, Zenon
<1> QED BY <1>10, <1>11

-----------------------------------------------------------------------------
(* The scan. *)

\* A step of one thread: it leaves no pair behind.
LEMMA ThreadMoves ==
  ASSUME ScanOK, lists' = lists, NEW t \in OriThread, NEW th \in OriThreadT, PlaceOK(th),
         ori' = [ori EXCEPT !.dups = ori'.dups, !.descs = ori'.descs, !.found = ori'.found, !.threads[t] = th],
         FlagsOK', Flagged \subseteq Flagged',
         \A i, j \in Entry : i < j /\ CoversAt(i, j) /\ j \notin Flagged' /\ Ahead(ori.threads[t], i, j) =>
           ori.threads[t].pc = "end" \/ (th.pc # "end" /\ Ahead(th, i, j))
  PROVE  ScanOK'
<1>1. /\ ori'.entries = ori.entries /\ ori'.before = ori.before /\ ori'.purge = ori.purge
      /\ ori'.threads = [ori.threads EXCEPT ![t] = th] /\ DOMAIN ori' = DOMAIN ori
  <2>1. {"entries", "before", "purge", "threads"} \subseteq DOMAIN ori BY DEF ScanOK
  <2> QED BY <2>1
<1>2. Collected' = Collected /\ (StockOf(lists))' BY DEF Collected, StockOf, ScanOK
<1>3. NbEntries' = NbEntries /\ Entry' = Entry BY <1>1 DEF NbEntries, Entry
<1>4. EntriesOK'
  <2>1. EntriesOK BY DEF ScanOK
  <2> QED BY <1>1, <1>3, <2>1 DEF EntriesOK
<1>5. /\ ori'.threads \in [OriThread -> OriThreadT] /\ ori'.threads[t] = th
      /\ \A u \in OriThread : u # t => ori'.threads[u] = ori.threads[u]
  BY <1>1 DEF ScanOK
<1>6. \A u, i, j : CoversAt(i, j)' = CoversAt(i, j) BY <1>1 DEF CoversAt
<1>7. ASSUME NEW u \in OriThread PROVE PlaceOK(ori.threads[u])'
  <2>1. CASE u = t BY <1>3, <1>5, <1>6, <2>1 DEF PlaceOK
  <2>2. CASE u # t
    <3>1. PlaceOK(ori.threads[u]) BY DEF ScanOK
    <3> QED BY <1>3, <1>5, <1>6, <2>2, <3>1 DEF PlaceOK
  <2> QED BY <2>1, <2>2
<1>8. PairsSeen'
  <2> SUFFICES ASSUME NEW i \in Entry, NEW j \in Entry, i < j, CoversAt(i, j), j \notin Flagged'
               PROVE  \E u \in OriThread : ori'.threads[u].pc # "end" /\ Ahead(ori'.threads[u], i, j)
    BY <1>3, <1>6 DEF PairsSeen, Ahead
  <2>1. PICK u \in OriThread : ori.threads[u].pc # "end" /\ Ahead(ori.threads[u], i, j)
    BY DEF ScanOK, PairsSeen
  <2>2. CASE u = t BY <1>5, <2>1, <2>2
  <2>3. CASE u # t BY <1>5, <2>1, <2>3
  <2> QED BY <2>2, <2>3
<1> QED BY <1>1, <1>2, <1>4, <1>5, <1>7, <1>8 DEF ScanOK

\* What is before a thread, once it has passed the entry of its j.
LEMMA AheadMoves ==
  ASSUME NEW th \in OriThreadT, NEW i \in Nat, NEW j \in Nat, Ahead(th, i, j), ~ (i = th.i /\ j = th.j),
         NEW n \in OriThreadT, n.i = th.i, n.j = th.j + 1
  PROVE  Ahead(n, i, j)
<1>1. PICK k \in Nat : i = th.i + k * OriginThreads /\ (k = 0 => j >= th.j) BY DEF Ahead
<1>2. OriginThreads \in Nat BY AudAssumption
<1>3. k = 0 => j >= n.j
  <2> SUFFICES ASSUME k = 0 PROVE j >= n.j OBVIOUS
  <2>1. k * OriginThreads = 0 BY <1>2
  <2>2. i = th.i BY <1>1, <2>1 DEF OriThreadT
  <2> QED BY <1>1, <2>2 DEF OriThreadT
<1> QED BY <1>1, <1>3 DEF Ahead

LEMMA OriginLooksKeeps ==
  ASSUME ScanOK, NEW t \in OriThread, OriginLooks(t)
  PROVE  ScanOK'
<1> DEFINE th == ori.threads[t]
<1>1. /\ th \in OriThreadT /\ th.pc = "look" /\ th.i \in Entry /\ th.j \in (th.i + 1) .. (NbEntries + 1)
      /\ NbEntries \in Nat /\ lists' = lists
  BY DEF ScanOK, OriginLooks, PlaceOK, EntriesOK
<1>2. OriginThreads \in Nat \ {0} BY AudAssumption
<1>3. ASSUME NEW n, ori' = [ori EXCEPT !.threads[t] = n]
      PROVE  /\ ori' = [ori EXCEPT !.dups = ori'.dups, !.descs = ori'.descs, !.found = ori'.found, !.threads[t] = n]
             /\ FlagsOK' /\ Flagged' = Flagged
  <2>1. DOMAIN ori = {"pc", "entries", "purge", "found", "result", "dups", "descs", "before", "threads"} BY DEF ScanOK
  <2>2. ori'.dups = ori.dups /\ ori'.descs = ori.descs /\ ori'.found = ori.found /\ ori'.entries = ori.entries
    BY <1>3, <2>1
  <2>3. FlagsOK BY DEF ScanOK
  <2>4. Flagged' = Flagged /\ Entry' = Entry BY <2>2 DEF Flagged, Entry, NbEntries
  <2>5. \A i, j : CoversAt(i, j)' = CoversAt(i, j) BY <2>2 DEF CoversAt
  <2> QED BY <1>3, <2>1, <2>2, <2>3, <2>4, <2>5 DEF FlagsOK
<1>4. CASE th.j > Len(ori.entries)
  <2> DEFINE n == NextRoot(th)
  <2>0. ~ (th.j <= Len(ori.entries)) BY <1>1, <1>4 DEF NbEntries, OriThreadT
  <2>1. ori' = [ori EXCEPT !.threads[t] = n] BY <1>4, <2>0 DEF OriginLooks
  <2>2. n = IF th.i + OriginThreads > NbEntries THEN Nobody
            ELSE [pc |-> "look", i |-> th.i + OriginThreads, j |-> th.i + OriginThreads + 1]
    BY DEF NextRoot, NbEntries
  <2>3. th.i \in Nat /\ th.i + OriginThreads \in Nat \ {0} BY <1>1, <1>2 DEF OriThreadT
  <2>4. n \in OriThreadT /\ PlaceOK(n)
    <3>1. CASE th.i + OriginThreads > NbEntries BY <2>2, <3>1 DEF PlaceOK, OriThreadT, Nobody
    <3>2. CASE ~ (th.i + OriginThreads > NbEntries)
      <4>1. th.i + OriginThreads \in Entry BY <1>1, <2>3, <3>2 DEF Entry
      <4> QED BY <1>1, <2>2, <2>3, <3>2, <4>1 DEF PlaceOK, OriThreadT
    <3> QED BY <3>1, <3>2
  <2>5. ASSUME NEW i \in Entry, NEW j \in Entry, i < j, Ahead(th, i, j) PROVE n.pc # "end" /\ Ahead(n, i, j)
    <3>1. PICK k \in Nat : i = th.i + k * OriginThreads /\ (k = 0 => j >= th.j) BY <2>5 DEF Ahead
    <3>2. i \in Nat /\ j \in Nat /\ i <= NbEntries /\ j <= NbEntries BY <1>1 DEF Entry
    <3>3. k # 0
      <4>1. ~ (j >= th.j) BY <1>1, <1>4, <3>2 DEF NbEntries
      <4> QED BY <3>1, <4>1
    <3>4. k - 1 \in Nat /\ k * OriginThreads = (k - 1) * OriginThreads + OriginThreads BY <1>2, <3>3
    <3>5. (k - 1) * OriginThreads \in Nat BY <1>2, <3>4
    <3>6. i = (th.i + OriginThreads) + (k - 1) * OriginThreads BY <1>2, <2>3, <3>1, <3>4, <3>5
    <3>7. ~ (th.i + OriginThreads > NbEntries) BY <1>1, <2>3, <3>2, <3>5, <3>6
    <3>8. n.pc = "look" /\ n.i = th.i + OriginThreads /\ n.j = n.i + 1 BY <2>2, <3>7
    <3>9. k - 1 = 0 => j >= n.j
      <4> SUFFICES ASSUME k - 1 = 0 PROVE j >= n.j OBVIOUS
      <4>1. (k - 1) * OriginThreads = 0 BY <1>2
      <4> QED BY <2>3, <2>5, <3>2, <3>6, <3>8, <4>1
    <3> HIDE DEF n
    <3> QED BY <3>4, <3>6, <3>8, <3>9 DEF Ahead
  <2> HIDE DEF n
  <2>6. ori' = [ori EXCEPT !.dups = ori'.dups, !.descs = ori'.descs, !.found = ori'.found, !.threads[t] = n]
    BY <1>3, <2>1
  <2>7. FlagsOK' /\ Flagged \subseteq Flagged' BY <1>3, <2>1
  <2> QED BY <1>1, <2>4, <2>5, <2>6, <2>7, ThreadMoves
<1>5. CASE th.j <= Len(ori.entries) /\ th.j \notin Flags(t) /\ Related(t)
  <2> DEFINE n == [th EXCEPT !.pc = "mark"]
  <2>0. ~ (th.j > Len(ori.entries)) BY <1>1, <1>5 DEF NbEntries, OriThreadT
  <2>1. ori' = [ori EXCEPT !.threads[t] = n] BY <1>5, <2>0 DEF OriginLooks
  <2>2. n \in OriThreadT /\ n.pc = "mark" /\ n.i = th.i /\ n.j = th.j BY <1>1 DEF OriThreadT
  <2>3. th.j \in Entry BY <1>1, <1>5 DEF Entry, NbEntries, OriThreadT
  <2>4. CoversAt(th.i, th.j) BY <1>1, <1>5, <2>3, RelatedIs
  <2> HIDE DEF n
  <2>5. PlaceOK(n) BY <1>1, <2>2, <2>3, <2>4 DEF PlaceOK
  <2>6. \A i, j : Ahead(th, i, j) => Ahead(n, i, j) BY <2>2 DEF Ahead
  <2>7. ori' = [ori EXCEPT !.dups = ori'.dups, !.descs = ori'.descs, !.found = ori'.found, !.threads[t] = n]
    BY <1>3, <2>1
  <2>8. FlagsOK' /\ Flagged \subseteq Flagged' BY <1>3, <2>1
  <2> QED BY <1>1, <2>2, <2>5, <2>6, <2>7, <2>8, ThreadMoves
<1>6. CASE th.j <= Len(ori.entries) /\ ~ (th.j \notin Flags(t) /\ Related(t))
  <2> DEFINE n == [th EXCEPT !.j = th.j + 1]
  <2>0. ~ (th.j > Len(ori.entries)) BY <1>1, <1>6 DEF NbEntries, OriThreadT
  <2>1. ori' = [ori EXCEPT !.threads[t] = n] BY <1>6, <2>0 DEF OriginLooks
  <2>2. n \in OriThreadT /\ n.pc = "look" /\ n.i = th.i /\ n.j = th.j + 1 BY <1>1 DEF OriThreadT
  <2>3. th.j \in Entry BY <1>1, <1>6 DEF Entry, NbEntries, OriThreadT
  <2>4. CoversAt(th.i, th.j) => th.j \in Flagged
    <3>1. Related(t) <=> CoversAt(th.i, th.j) BY <1>1, <2>3, RelatedIs
    <3>2. Flags(t) \subseteq Flagged BY DEF Flags, Flagged
    <3> QED BY <1>6, <3>1, <3>2
  <2> HIDE DEF n
  <2>5. PlaceOK(n) BY <1>1, <2>2, <2>3 DEF PlaceOK, Entry, OriThreadT
  <2>6. ASSUME NEW i \in Entry, NEW j \in Entry, CoversAt(i, j), j \notin Flagged, Ahead(th, i, j) PROVE Ahead(n, i, j)
    <3>1. ~ (i = th.i /\ j = th.j) BY <2>4, <2>6
    <3>2. i \in Nat /\ j \in Nat BY DEF Entry
    <3> HIDE DEF th
    <3> QED BY <1>1, <2>2, <2>6, <3>1, <3>2, AheadMoves
  <2>7. ori' = [ori EXCEPT !.dups = ori'.dups, !.descs = ori'.descs, !.found = ori'.found, !.threads[t] = n]
    BY <1>3, <2>1
  <2>8. FlagsOK' /\ Flagged \subseteq Flagged' /\ Flagged' = Flagged BY <1>3, <2>1
  <2> QED BY <1>1, <2>2, <2>5, <2>6, <2>7, <2>8, ThreadMoves
<1> QED BY <1>1, <1>4, <1>5, <1>6 DEF OriThreadT, NbEntries

LEMMA OriginMarksKeeps ==
  ASSUME ScanOK, NEW t \in OriThread, OriginMarks(t)
  PROVE  ScanOK'
<1> DEFINE th == ori.threads[t]
           n == [th EXCEPT !.pc = "look", !.j = th.j + 1]
<1>1. /\ th \in OriThreadT /\ th.pc = "mark" /\ th.i \in Entry /\ th.j \in (th.i + 1) .. (NbEntries + 1)
      /\ NbEntries \in Nat /\ lists' = lists /\ th.j \in Entry /\ CoversAt(th.i, th.j)
  BY DEF ScanOK, OriginMarks, PlaceOK, EntriesOK
<1>2. /\ n \in OriThreadT /\ n.pc = "look" /\ n.i = th.i /\ n.j = th.j + 1
  <2>1. PICK k \in Nat : k = th.j + 1 BY <1>1 DEF OriThreadT
  <2>2. n = [[th EXCEPT !.pc = "look"] EXCEPT !.j = k] BY <2>1
  <2> HIDE DEF th, n
  <2> QED BY <1>1, <2>1, <2>2 DEF OriThreadT
<1>3. DOMAIN ori = {"pc", "entries", "purge", "found", "result", "dups", "descs", "before", "threads"} BY DEF ScanOK
<1> DEFINE D == IF EqualBand(t) THEN ori.dups \cup {th.j} ELSE ori.dups
           E == IF EqualBand(t) THEN ori.descs ELSE ori.descs \cup {th.j}
           m == IF FirstToFlag(t) THEN ori.found + 1 ELSE ori.found
<1>4. ori' = [ori EXCEPT !.dups = D, !.descs = E, !.found = m, !.threads[t] = n] BY DEF OriginMarks
<1> HIDE DEF n
<1>5. ori'.dups = D /\ ori'.descs = E /\ ori'.found = m /\ ori'.entries = ori.entries BY <1>3, <1>4
<1>6. FlagsOK BY DEF ScanOK
<1>7. IsFiniteSet(ori.dups) /\ IsFiniteSet(ori.descs)
  <2>1. IsFiniteSet(Entry) BY <1>1, FS_Interval DEF Entry
  <2> QED BY <1>6, <2>1, FS_Subset DEF FlagsOK
<1>8. m = Cardinality(D) + Cardinality(E)
  <2>0. Cardinality(ori.dups) \in Nat /\ Cardinality(ori.descs) \in Nat BY <1>7, FS_CardinalityType
  <2>1. CASE EqualBand(t)
    <3>1. FirstToFlag(t) <=> th.j \notin ori.dups BY <2>1 DEF FirstToFlag, Flags
    <3>2. Cardinality(D) = IF th.j \in ori.dups THEN Cardinality(ori.dups) ELSE Cardinality(ori.dups) + 1
      BY <1>7, <2>1, FS_AddElement
    <3>3. E = ori.descs BY <2>1
    <3> HIDE DEF D, E
    <3>4. CASE th.j \in ori.dups BY <1>6, <2>0, <3>1, <3>2, <3>3, <3>4 DEF FlagsOK
    <3>5. CASE th.j \notin ori.dups BY <1>6, <2>0, <3>1, <3>2, <3>3, <3>5 DEF FlagsOK
    <3> QED BY <3>4, <3>5
  <2>2. CASE ~ EqualBand(t)
    <3>1. FirstToFlag(t) <=> th.j \notin ori.descs BY <2>2 DEF FirstToFlag, Flags
    <3>2. Cardinality(E) = IF th.j \in ori.descs THEN Cardinality(ori.descs) ELSE Cardinality(ori.descs) + 1
      BY <1>7, <2>2, FS_AddElement
    <3>3. D = ori.dups BY <2>2
    <3> HIDE DEF D, E
    <3>4. CASE th.j \in ori.descs BY <1>6, <2>0, <3>1, <3>2, <3>3, <3>4 DEF FlagsOK
    <3>5. CASE th.j \notin ori.descs BY <1>6, <2>0, <3>1, <3>2, <3>3, <3>5 DEF FlagsOK
    <3> QED BY <3>4, <3>5
  <2> QED BY <2>1, <2>2
<1>9. D \cup E = Flagged \cup {th.j}
  <2>1. CASE EqualBand(t) BY <2>1 DEF Flagged
  <2>2. CASE ~ EqualBand(t) BY <2>2 DEF Flagged
  <2> QED BY <2>1, <2>2
<1> HIDE DEF D, E, m
<1>10. Flagged' = Flagged \cup {th.j} BY <1>5, <1>9 DEF Flagged
<1>11. Entry' = Entry /\ \A i, j : CoversAt(i, j)' = CoversAt(i, j) BY <1>5 DEF Entry, NbEntries, CoversAt
<1>12. FlagsOK'
  <2>1. D \subseteq Entry /\ E \subseteq Entry BY <1>1, <1>6, <1>9 DEF FlagsOK, Flagged
  <2>2. \A j \in Flagged' : \E i \in Entry : i < j /\ CoversAt(i, j)
    <3>1. th.i < th.j BY <1>1 DEF Entry, OriThreadT
    <3> QED BY <1>1, <1>6, <1>10, <3>1 DEF FlagsOK
  <2> QED BY <1>5, <1>8, <1>11, <2>1, <2>2 DEF FlagsOK
<1>13. ori' = [ori EXCEPT !.dups = ori'.dups, !.descs = ori'.descs, !.found = ori'.found, !.threads[t] = n]
  BY <1>4, <1>5
<1>14. PlaceOK(n) BY <1>1, <1>2 DEF PlaceOK, Entry, OriThreadT
<1>15. ASSUME NEW i \in Entry, NEW j \in Entry, j \notin Flagged', Ahead(th, i, j) PROVE Ahead(n, i, j)
  <2>1. ~ (i = th.i /\ j = th.j) BY <1>10, <1>15
  <2>2. i \in Nat /\ j \in Nat BY DEF Entry
  <2> HIDE DEF th
  <2> QED BY <1>1, <1>2, <1>15, <2>1, <2>2, AheadMoves
<1> QED BY <1>1, <1>2, <1>10, <1>12, <1>13, <1>14, <1>15, ThreadMoves

\* The purge removes what has a root, or a copy, before it, and nothing else.
LEMMA OriginEndsRight ==
  ASSUME ScanOK, OriginEnds
  PROVE  OriginsRight' /\ ori'.pc = "end"
<1> DEFINE gone == {ori.entries[i] : i \in Flagged}
<1>1. ori' = [ori EXCEPT !.pc = "end", !.result = IF ori.found > 0 THEN -1 ELSE 0] BY DEF OriginEnds
<1>2. /\ ori'.pc = "end" /\ ori'.purge = ori.purge /\ ori'.before = ori.before /\ ori'.dups = ori.dups
      /\ ori'.descs = ori.descs /\ ori'.found = ori.found
  <2>1. DOMAIN ori = {"pc", "entries", "purge", "found", "result", "dups", "descs", "before", "threads"} BY DEF ScanOK
  <2> QED BY <1>1, <2>1
<1>3. FindsCountedOnce' BY <1>2 DEF FindsCountedOnce, ScanOK, FlagsOK
<1>4. ASSUME NEW i \in Entry, NEW j \in Entry, i < j, CoversAt(i, j) PROVE j \in Flagged
  BY <1>4 DEF OriginEnds, ScanOK, PairsSeen
<1>5. ASSUME ori.purge PROVE Collected' = ori.before \ gone
  <2>1. lists' = [f \in AudFile |-> WithoutAll(lists[f], gone)] BY <1>5 DEF OriginEnds, Flagged
  <2> HIDE DEF gone
  <2>2. \A f \in AudFile : ToSet(lists'[f]) = ToSet(lists[f]) \ gone
    <3>1. \A f \in AudFile : lists[f] \in Seq(ToSet(lists[f])) BY DEF ScanOK, StockOf
    <3>2. \A f \in AudFile : lists'[f] = WithoutAll(lists[f], gone) BY <2>1
    <3> QED BY <3>1, <3>2, WithoutAllIs
  <2>3. Collected = ori.before BY DEF ScanOK
  <2>4. Collected' = UNION {ToSet(lists'[f]) : f \in AudFile} BY DEF Collected
  <2> QED BY <2>2, <2>3, <2>4 DEF Collected
<1>6. ASSUME NEW i \in Entry PROVE ori.entries[i] \in gone <=> i \in Flagged
  BY DEF ScanOK, EntriesOK, FlagsOK, Flagged
<1>7. ASSUME NEW p \in gone PROVE \E q \in ori.before \ gone : Covers(q, p)
  <2>1. PICK j \in Flagged : p = ori.entries[j] OBVIOUS
  <2>2. j \in Entry BY DEF ScanOK, FlagsOK, Flagged
  <2> DEFINE S == {i \in Entry : CoversAt(i, j)}
  <2>3. S \in SUBSET Nat BY DEF Entry
  <2>4. j \in S BY <2>2 DEF CoversAt, Covers, Same
  <2>5. PICK m \in S : \A i \in S : m <= i BY <2>3, <2>4, Purge!Least
  <2>6. m \in Entry /\ m \in Nat /\ CoversAt(m, j) BY <2>3
  <2>7. m \notin Flagged
    <3> SUFFICES ASSUME m \in Flagged PROVE FALSE OBVIOUS
    <3>1. PICK i \in Entry : i < m /\ CoversAt(i, m) BY DEF ScanOK, FlagsOK
    <3>2. Alloc(ori.entries[i]) \in Nat /\ Alloc(ori.entries[m]) \in Nat /\ Alloc(ori.entries[j]) \in Nat
      BY <2>2, <2>6, AllocOf
    <3>3. CoversAt(i, j) BY <2>6, <3>1, <3>2, CoversIs DEF CoversAt
    <3>4. i \in Nat BY DEF Entry
    <3> QED BY <2>5, <2>6, <3>1, <3>3, <3>4
  <2> HIDE DEF S, gone
  <2>8. ori.entries[m] \in ori.before BY <2>6 DEF ScanOK, EntriesOK
  <2>9. ori.entries[m] \notin gone BY <1>6, <2>6, <2>7
  <2> QED BY <2>1, <2>6, <2>8, <2>9 DEF CoversAt
<1> HIDE DEF gone
<1>8. ASSUME NEW p \in ori.before \ gone, NEW q \in ori.before \ gone, p # q PROVE ~ Covers(p, q)
  <2>1. PICK i \in Entry, j \in Entry : p = ori.entries[i] /\ q = ori.entries[j] BY DEF ScanOK, EntriesOK
  <2>2. i \notin Flagged /\ j \notin Flagged BY <1>6, <2>1
  <2>3. i # j /\ i \in Int /\ j \in Int BY <1>8, <2>1 DEF Entry
  <2>4. ~ CoversAt(j, i) \/ ~ (j < i) BY <1>4, <2>2
  <2>5. ~ CoversAt(i, j) \/ ~ (i < j) BY <1>4, <2>2
  <2>6. CASE i < j BY <2>1, <2>5, <2>6 DEF CoversAt
  <2>7. CASE j < i
    <3>1. ~ Same(p, q) BY <2>1, <2>4, <2>7 DEF CoversAt, Covers, Same
    <3>2. Alloc(q) <= Alloc(p) BY <2>1, <2>7 DEF ScanOK, EntriesOK
    <3>3. Alloc(p) \in Nat /\ Alloc(q) \in Nat BY <2>1, AllocOf
    <3>4. ~ is_origin_of(p, q) BY <3>2, <3>3 DEF is_origin_of
    <3> QED BY <3>1, <3>4 DEF Covers
  <2> QED BY <2>3, <2>6, <2>7
<1>9. RootsKept'
  <2> SUFFICES ASSUME ori.purge
               PROVE  /\ Collected' \subseteq ori.before
                      /\ \A p \in ori.before \ Collected' : \E q \in Collected' : Same(q, p) \/ is_origin_of(q, p)
                      /\ \A p, q \in Collected' : p # q => ~ Same(p, q) /\ ~ is_origin_of(p, q)
    BY <1>2 DEF RootsKept
  <2>1. Collected' = ori.before \ gone BY <1>5
  <2>2. \A p \in ori.before \ Collected' : p \in gone BY <2>1
  <2>3. \A p \in ori.before \ Collected' : \E q \in Collected' : Same(q, p) \/ is_origin_of(q, p)
    BY <1>7, <2>1, <2>2 DEF Covers
  <2> QED BY <1>8, <2>1, <2>3 DEF Covers
<1> QED BY <1>2, <1>3, <1>9 DEF OriginsRight

-----------------------------------------------------------------------------
LEMMA AInvInit ==
  ASSUME AudInit
  PROVE  AInv
<1>1. StockOf(lists) BY AudAssumption DEF AudInit, StockOf
<1>2. ori.pc \in {"idle", "start"} BY DEF AudInit, NotAsked
<1> QED BY <1>1, <1>2 DEF AInv

\* What leaves check_origin and the lists alone.
LEMMA AInvSame ==
  ASSUME AInv, UNCHANGED <<lists, ori>>
  PROVE  AInv'
<1>1. \A f \in AudFile : lists'[f] = lists[f] OBVIOUS
<1>2. Collected' = Collected BY DEF Collected
<1>3. \A th, i, j : Ahead(th, i, j)' = Ahead(th, i, j) BY DEF Ahead
<1>4. \A i, j : CoversAt(i, j)' = CoversAt(i, j) BY DEF CoversAt
<1>5. Entry' = Entry /\ NbEntries' = NbEntries /\ Flagged' = Flagged BY DEF Entry, NbEntries, Flagged
<1>6. EntriesOK' = EntriesOK BY <1>5 DEF EntriesOK
<1>7. FlagsOK' = FlagsOK BY <1>4, <1>5 DEF FlagsOK
<1>8. \A th : PlaceOK(th)' = PlaceOK(th) BY <1>4, <1>5 DEF PlaceOK
<1>9. PairsSeen' = PairsSeen BY <1>4, <1>5 DEF PairsSeen, Ahead
<1>10. (StockOf(lists))' = StockOf(lists) BY DEF StockOf
<1>11. ScanOK => ScanOK' BY <1>2, <1>6, <1>7, <1>8, <1>9, <1>10 DEF ScanOK
<1>12. OriginsRight' = OriginsRight BY <1>2 DEF OriginsRight, RootsKept, FindsCountedOnce
<1> QED BY <1>10, <1>11, <1>12 DEF AInv

LEMMA AInvNext ==
  ASSUME AInv, [AudNext]_audVars
  PROVE  AInv'
<1>1. CASE UNCHANGED audVars BY <1>1, AInvSame DEF audVars
<1>2. CASE DupStep BY <1>2, AInvSame DEF DupStep, DuplicateStarts, SpawnDuplicate, AdvanceStart, SpawnEnds, JoinDuplicate
<1>3. CASE \E t \in AudThread : check_duplicate_thread(t) BY <1>3, AInvSame DEF check_duplicate_thread
<1>4. ASSUME NEW purge \in BOOLEAN, CollectOrigins(purge) PROVE AInv'
  <2>1. ScanOK' BY <1>4, CollectOriginsStarts DEF AInv, CollectOrigins
  <2>2. ori'.pc = "scan" BY <1>4 DEF CollectOrigins
  <2> QED BY <2>1, <2>2 DEF AInv
<1>5. CASE OriginEnds
  <2>1. ori.pc = "scan" BY <1>5 DEF OriginEnds
  <2>2. OriginsRight' /\ ori'.pc = "end" BY <1>5, <2>1, OriginEndsRight DEF AInv
  <2> QED BY <2>2 DEF AInv
<1>6. ASSUME NEW t \in OriThread, OriginLooks(t) PROVE AInv'
  <2>1. ori.pc = "scan" BY <1>6 DEF OriginLooks
  <2>2. ScanOK BY <2>1 DEF AInv
  <2>3. ScanOK' BY <1>6, <2>2, OriginLooksKeeps
  <2>4. ori'.pc = "scan" BY <1>6, <2>1, <2>2 DEF OriginLooks, ScanOK
  <2> QED BY <2>3, <2>4 DEF AInv
<1>7. ASSUME NEW t \in OriThread, OriginMarks(t) PROVE AInv'
  <2>1. ori.pc = "scan" BY <1>7 DEF OriginMarks
  <2>2. ScanOK BY <2>1 DEF AInv
  <2>3. ScanOK' BY <1>7, <2>2, OriginMarksKeeps
  <2>4. ori'.pc = "scan" BY <1>7, <2>1, <2>2 DEF OriginMarks, ScanOK
  <2> QED BY <2>3, <2>4 DEF AInv
<1>8. CASE sort_one_file
  <2>1. UNCHANGED <<lists, ori>> BY <1>8 DEF sort_one_file
  <2> QED BY <2>1, AInvSame
<1>9. CASE SegStep
  <2>1. UNCHANGED <<lists, ori>>
    BY <1>9, Zenon DEF SegStep, SegInsert, SegServe, SegLooks, SegSorts, SegSortFiles, SegSortAll, SegResetChecked
  <2> QED BY <2>1, AInvSame
<1> QED BY <1>1, <1>2, <1>3, <1>4, <1>5, <1>6, <1>7, <1>8, <1>9 DEF AudNext, OriStep

\* checkOrigin (check_origin, check_origin_thread, datamanager.c:6734): what its purge
\* removes has a root or a copy among what is kept, nothing that is kept covers another,
\* and each find is counted once, whatever the lists, the number of threads and the
\* order in which they flag the entries.
THEOREM OriginsAreRight == AudSpec => []OriginsRight
<1>1. AInv => OriginsRight
  <2>1. CASE ori.pc = "scan" BY <2>1 DEF AInv, ScanOK, FlagsOK, OriginsRight, RootsKept, FindsCountedOnce
  <2>2. CASE ori.pc # "scan" BY <2>2 DEF AInv, OriginsRight, RootsKept, FindsCountedOnce
  <2> QED BY <2>1, <2>2
<1>2. AudInit => AInv BY AInvInit
<1>3. AInv /\ [AudNext]_audVars => AInv' BY AInvNext
<1> QED BY <1>1, <1>2, <1>3, PTL DEF AudSpec

-----------------------------------------------------------------------------
(* Sequences with one element more, or less. *)

LEMMA CutIs ==
  ASSUME NEW S, NEW s \in Seq(S), NEW n \in 0 .. Len(s)
  PROVE  /\ SubSeq(s, 1, n) \in Seq(S) /\ Len(SubSeq(s, 1, n)) = n
         /\ \A i \in 1 .. n : SubSeq(s, 1, n)[i] = s[i]
         /\ SubSeq(s, n + 1, Len(s)) \in Seq(S) /\ Len(SubSeq(s, n + 1, Len(s))) = Len(s) - n
         /\ \A i \in 1 .. Len(s) - n : SubSeq(s, n + 1, Len(s))[i] = s[n + i]
<1>1. Len(s) \in Nat /\ s \in [1 .. Len(s) -> S] BY LenProperties
<1>2. n \in Nat /\ n <= Len(s) BY <1>1
<1> DEFINE a == SubSeq(s, 1, n)
           b == SubSeq(s, n + 1, Len(s))
           m == Len(s)
<1>3. \A i \in 1 .. n : s[i] \in S BY <1>1, <1>2
<1>4. \A i \in n + 1 .. m : s[i] \in S BY <1>1, <1>2
<1>5. a \in Seq(S) /\ (Len(a) = IF 1 <= n THEN n - 1 + 1 ELSE 0) /\ \A i \in 1 .. n - 1 + 1 : a[i] = s[1 + i - 1]
  BY <1>2, <1>3, SubSeqProperties
<1>6. n + 1 \in Int /\ m \in Int BY <1>1, <1>2
<1> HIDE DEF m
<1>7. SubSeq(s, n + 1, m) \in Seq(S) /\ (Len(SubSeq(s, n + 1, m)) = IF n + 1 <= m THEN m - (n + 1) + 1 ELSE 0)
      /\ \A i \in 1 .. m - (n + 1) + 1 : SubSeq(s, n + 1, m)[i] = s[(n + 1) + i - 1]
  BY <1>4, <1>6, SubSeqProperties
<1>8. b = SubSeq(s, n + 1, m) BY DEF m
<1>9. n <= m BY <1>2 DEF m
<1> HIDE DEF a, b
<1>10. Len(a) = n /\ \A i \in 1 .. n : a[i] = s[i] BY <1>2, <1>5
<1>11. Len(b) = m - n
  <2>1. CASE n + 1 <= m BY <1>2, <1>6, <1>7, <1>8, <2>1
  <2>2. CASE ~ (n + 1 <= m) BY <1>2, <1>6, <1>7, <1>8, <1>9, <2>2
  <2> QED BY <2>1, <2>2
<1>12. \A i \in 1 .. m - n : b[i] = s[n + i] BY <1>2, <1>6, <1>7, <1>8
<1> QED BY <1>5, <1>7, <1>8, <1>10, <1>11, <1>12 DEF a, b, m

LEMMA JoinIs ==
  ASSUME NEW S, NEW s \in Seq(S), NEW u \in Seq(S)
  PROVE  /\ s \o u \in Seq(S) /\ Len(s) \in Nat /\ Len(u) \in Nat /\ Len(s \o u) = Len(s) + Len(u)
         /\ \A i \in 1 .. Len(s) + Len(u) : (s \o u)[i] = IF i <= Len(s) THEN s[i] ELSE u[i - Len(s)]
BY ConcatProperties, LenProperties

LEMMA RemoveAtIs ==
  ASSUME NEW S, NEW s \in Seq(S), NEW p \in 1 .. Len(s)
  PROVE  /\ RemoveAt(s, p) \in Seq(S) /\ Len(RemoveAt(s, p)) = Len(s) - 1
         /\ \A k \in 1 .. Len(s) - 1 : RemoveAt(s, p)[k] = IF k < p THEN s[k] ELSE s[k + 1]
<1> DEFINE a == SubSeq(s, 1, p - 1)
           b == SubSeq(s, p + 1, Len(s))
<1>1. Len(s) \in Nat /\ p \in Nat /\ p - 1 \in 0 .. Len(s) /\ p \in 0 .. Len(s) BY LenProperties
<1>2. a \in Seq(S) /\ Len(a) = p - 1 /\ \A i \in 1 .. p - 1 : a[i] = s[i] BY <1>1, CutIs
<1>3. b \in Seq(S) /\ Len(b) = Len(s) - p /\ \A i \in 1 .. Len(s) - p : b[i] = s[p + i] BY <1>1, CutIs
<1>4. RemoveAt(s, p) = a \o b BY DEF RemoveAt
<1> HIDE DEF a, b
<1>5. /\ a \o b \in Seq(S) /\ Len(a \o b) = Len(a) + Len(b)
      /\ \A i \in 1 .. Len(a) + Len(b) : (a \o b)[i] = IF i <= Len(a) THEN a[i] ELSE b[i - Len(a)]
  BY <1>2, <1>3, JoinIs
<1>6. ASSUME NEW k \in 1 .. Len(s) - 1 PROVE (a \o b)[k] = IF k < p THEN s[k] ELSE s[k + 1]
  <2>1. k \in 1 .. Len(a) + Len(b) BY <1>1, <1>2, <1>3
  <2>2. CASE k < p
    <3>1. k <= Len(a) /\ k \in 1 .. p - 1 BY <1>1, <1>2, <2>2
    <3> QED BY <1>2, <1>5, <2>1, <2>2, <3>1
  <2>3. CASE ~ (k < p)
    <3>1. ~ (k <= Len(a)) /\ k - Len(a) \in 1 .. Len(s) - p /\ p + (k - Len(a)) = k + 1 BY <1>1, <1>2, <2>3
    <3>2. b[k - Len(a)] = s[k + 1] BY <1>3, <3>1
    <3> QED BY <1>5, <2>1, <2>3, <3>1, <3>2
  <2> QED BY <2>2, <2>3
<1>7. Len(a \o b) = Len(s) - 1 BY <1>1, <1>2, <1>3, <1>5
<1> QED BY <1>4, <1>5, <1>6, <1>7

LEMMA InsertAtIs ==
  ASSUME NEW S, NEW s \in Seq(S), NEW p \in 1 .. Len(s) + 1, NEW e \in S
  PROVE  /\ InsertAt(s, p, e) \in Seq(S) /\ Len(InsertAt(s, p, e)) = Len(s) + 1
         /\ \A k \in 1 .. Len(s) + 1 : InsertAt(s, p, e)[k] = IF k < p THEN s[k] ELSE IF k = p THEN e ELSE s[k - 1]
<1> DEFINE n == p - 1
           a == SubSeq(s, 1, n)
           b == SubSeq(s, n + 1, Len(s))
           c == a \o <<e>>
<1>1. Len(s) \in Nat /\ p \in Nat /\ n \in 0 .. Len(s) /\ p = n + 1 BY LenProperties
<1>2. InsertAt(s, p, e) = c \o b BY <1>1 DEF InsertAt
<1> HIDE DEF n
<1>3. a \in Seq(S) /\ Len(a) = n /\ \A i \in 1 .. n : a[i] = s[i] BY <1>1, CutIs
<1>4. b \in Seq(S) /\ Len(b) = Len(s) - n /\ \A i \in 1 .. Len(s) - n : b[i] = s[n + i] BY <1>1, CutIs
<1> HIDE DEF a, b
<1>5. <<e>> \in Seq(S) /\ Len(<<e>>) = 1 /\ <<e>>[1] = e OBVIOUS
<1>6. /\ c \in Seq(S) /\ Len(c) = Len(a) + 1
      /\ \A i \in 1 .. Len(a) + 1 : c[i] = IF i <= Len(a) THEN a[i] ELSE <<e>>[i - Len(a)]
  BY <1>3, <1>5, JoinIs
<1> HIDE DEF c
<1>7. Len(c) = p /\ \A i \in 1 .. p : c[i] = IF i < p THEN s[i] ELSE e
  <2>1. Len(c) = p BY <1>1, <1>3, <1>6
  <2>2. ASSUME NEW i \in 1 .. p PROVE c[i] = IF i < p THEN s[i] ELSE e
    <3>1. i \in 1 .. Len(a) + 1 BY <1>1, <1>3
    <3>2. CASE i < p
      <4>1. i <= Len(a) /\ i \in 1 .. n BY <1>1, <1>3, <3>2
      <4> QED BY <1>3, <1>6, <3>1, <3>2, <4>1
    <3>3. CASE ~ (i < p)
      <4>1. ~ (i <= Len(a)) /\ i - Len(a) = 1 BY <1>1, <1>3, <3>3
      <4> QED BY <1>5, <1>6, <3>1, <3>3, <4>1
    <3> QED BY <3>2, <3>3
  <2> QED BY <2>1, <2>2
<1>8. /\ c \o b \in Seq(S) /\ Len(c \o b) = Len(c) + Len(b)
      /\ \A i \in 1 .. Len(c) + Len(b) : (c \o b)[i] = IF i <= Len(c) THEN c[i] ELSE b[i - Len(c)]
  BY <1>4, <1>6, JoinIs
<1>9. Len(c) + Len(b) = Len(s) + 1 BY <1>1, <1>4, <1>7
<1>10. ASSUME NEW k \in 1 .. Len(s) + 1 PROVE (c \o b)[k] = IF k < p THEN s[k] ELSE IF k = p THEN e ELSE s[k - 1]
  <2>1. k \in 1 .. Len(c) + Len(b) BY <1>9
  <2>2. CASE k <= p
    <3>1. (c \o b)[k] = c[k] BY <1>7, <1>8, <2>1, <2>2
    <3>2. k \in 1 .. p BY <1>1, <2>2
    <3>3. CASE k < p BY <1>7, <3>1, <3>2, <3>3
    <3>4. CASE k = p BY <1>1, <1>7, <3>1, <3>2, <3>4
    <3>5. k < p \/ k = p BY <1>1, <2>2
    <3> QED BY <3>3, <3>4, <3>5, Zenon
  <2>3. CASE ~ (k <= p)
    <3>1. ~ (k < p) /\ k # p /\ k - p \in 1 .. Len(s) - n /\ n + (k - p) = k - 1 BY <1>1, <2>3
    <3>2. (c \o b)[k] = b[k - p] BY <1>7, <1>8, <2>1, <2>3
    <3>3. b[k - p] = s[k - 1] BY <1>4, <3>1
    <3> QED BY <3>1, <3>2, <3>3
  <2> QED BY <2>2, <2>3
<1> QED BY <1>2, <1>8, <1>9, <1>10

-----------------------------------------------------------------------------
(* The sort of a list in place. *)

Before(a, b) == IF srt.desc THEN a >= b ELSE a <= b
NbElements == Len(srt.level)
Element == 1 .. NbElements
LairOK(lair) == lair \in [AudLevel -> 0 .. NbElements] /\ \A l \in AudLevel : lair[l] # 0 => LevelOf(lair[l]) = l
\* The list holds each of its elements once.
PermutationOK ==
  /\ DOMAIN srt = {"pc", "desc", "level", "list", "lair", "at"} /\ srt.desc \in BOOLEAN
  /\ NbElements \in Nat /\ srt.level \in [Element -> AudLevel] /\ srt.list \in [Element -> Element]
  /\ \A i, j \in Element : srt.list[i] = srt.list[j] => i = j
\* It is in order up to the place of the walk.
WalkOK ==
  /\ srt.at \in Element
  /\ \A i, j \in 1 .. srt.at : i < j => Before(LevelOf(srt.list[i]), LevelOf(srt.list[j]))
  /\ LairOK(srt.lair)
SInv ==
  /\ srt.pc \in {"idle", "sort", "end"}
  /\ srt.pc = "sort" => PermutationOK /\ WalkOK
  /\ srt.pc = "end" => ListSorted

LEMMA OntoIs ==
  ASSUME NEW n \in Nat, NEW s \in [1 .. n -> 1 .. n], \A i, j \in 1 .. n : s[i] = s[j] => i = j
  PROVE  \A x \in 1 .. n : \E i \in 1 .. n : s[i] = x
<1>1. IsFiniteSet(1 .. n) BY FS_Interval
<1>2. s \in Injection(1 .. n, 1 .. n) BY DEF Injection, IsInjective
<1>3. s \in Surjection(1 .. n, 1 .. n) BY <1>1, <1>2, FS_Injection
<1> QED BY <1>3 DEF Surjection

LEMMA FirstOfIs ==
  ASSUME PermutationOK, NEW lair, LairOK(lair), NEW e \in Element
  PROVE  LairOK(FirstOf(lair, e))
<1>1. LevelOf(e) \in AudLevel BY DEF PermutationOK, LevelOf
<1>2. e \in 0 .. NbElements /\ 0 \in 0 .. NbElements BY DEF Element, PermutationOK
<1> DEFINE x == IF lair[LevelOf(e)] = 0 THEN e ELSE lair[LevelOf(e)]
<1>3. FirstOf(lair, e) = [lair EXCEPT ![LevelOf(e)] = x] BY DEF FirstOf
<1>4. x \in 0 .. NbElements /\ LevelOf(x) = LevelOf(e) BY <1>1, <1>2 DEF LairOK
<1> HIDE DEF x
<1> QED BY <1>1, <1>3, <1>4 DEF LairOK

\* The level that is searched is one of those that are known.
LEMMA LevelExtremes ==
  ASSUME NEW T \in SUBSET AudLevel, T # {}
  PROVE  Max(T) \in T /\ Min(T) \in T
<1>1. MaxLevel \in Nat BY AudAssumption
<1>2. T \in SUBSET Nat /\ \A x \in T : x \in Nat /\ x <= MaxLevel BY <1>1 DEF AudLevel
<1>3. PICK m \in T : \A x \in T : m <= x BY <1>2, Purge!Least
<1> DEFINE U == {MaxLevel - x : x \in T}
<1>4. U \in SUBSET Nat /\ U # {} BY <1>1, <1>2
<1>5. PICK u \in U : \A x \in U : u <= x BY <1>4, Purge!Least
<1>6. PICK k \in T : u = MaxLevel - k BY <1>5
<1>7. \A x \in T : k >= x
  <2> SUFFICES ASSUME NEW x \in T PROVE k >= x OBVIOUS
  <2>1. MaxLevel - x \in U OBVIOUS
  <2>2. u <= MaxLevel - x BY <1>5, <2>1
  <2> QED BY <1>1, <1>2, <1>6, <2>2
<1>8. \E x \in T : \A y \in T : x =< y BY <1>3
<1>9. \E x \in T : \A y \in T : x >= y BY <1>7
<1> QED BY <1>8, <1>9 DEF Max, Min

\* An element that comes after the next one is moved farther than it.
LEMMA MovedPlace ==
  ASSUME PermutationOK, WalkOK, srt.at # NbElements, NEW lair, LairOK(lair),
         ~ Before(LevelOf(srt.list[srt.at]), LevelOf(srt.list[srt.at + 1]))
  PROVE  \E p \in (srt.at + 1) .. NbElements :
           LET rest == RemoveAt(srt.list, srt.at)
               moved == SegMoved(lair, srt.list[srt.at])
           IN  /\ moved \in Seq(Element) /\ Len(moved) = NbElements
               /\ \A k \in Element : moved[k] = IF k < p THEN rest[k] ELSE IF k = p THEN srt.list[srt.at] ELSE rest[k - 1]
<1> DEFINE a == srt.at
           e == srt.list[a]
           rest == RemoveAt(srt.list, a)
           known == TargetLevels(lair, LevelOf(e))
           b == IF srt.desc THEN Max(known) ELSE Min(known)
           N == NbElements
<1>1. N \in Nat /\ a \in Nat /\ 1 <= a /\ a < N /\ Element = 1 .. N /\ a + 1 \in Element /\ a \in Element
  BY DEF PermutationOK, WalkOK, Element
<1>2. srt.list \in Seq(Element) /\ Len(srt.list) = N /\ e \in Element
  <2>1. srt.list \in [1 .. N -> Element] /\ N \in Nat BY DEF PermutationOK, Element
  <2>2. e \in Element BY <1>1 DEF PermutationOK
  <2> QED BY <2>1, <2>2, SeqDef
<1>3. /\ rest \in Seq(Element) /\ Len(rest) = N - 1
      /\ \A k \in 1 .. N - 1 : rest[k] = IF k < a THEN srt.list[k] ELSE srt.list[k + 1]
  <2>1. a \in 1 .. Len(srt.list) BY <1>1, <1>2
  <2> QED BY <1>2, <2>1, RemoveAtIs
<1>4. SegMoved(lair, e) = IF known = {} THEN Append(rest, e) ELSE InsertAt(rest, IndexIn(rest, lair[b]), e)
  BY DEF SegMoved
<1>5. \A x \in Element : LevelOf(x) \in AudLevel BY DEF PermutationOK, LevelOf
<1>6. AudLevel \subseteq Int BY AudAssumption DEF AudLevel
<1>7. CASE known = {}
  <2>1. Append(rest, e) \in Seq(Element) /\ Len(Append(rest, e)) = N BY <1>1, <1>2, <1>3
  <2>2. \A k \in Element : Append(rest, e)[k] = IF k < N THEN rest[k] ELSE e
    <3>1. Len(rest) = N - 1 /\ N \in Nat BY <1>1, <1>3
    <3> HIDE DEF rest, e, N
    <3>2. /\ \A k \in 1 .. Len(rest) : Append(rest, e)[k] = rest[k]
          /\ Append(rest, e)[Len(rest) + 1] = e
      BY <1>2, <1>3, AppendProperties
    <3>3. Append(rest, e)[N] = e BY <3>1, <3>2
    <3>4. \A k \in Element : (k < N => k \in 1 .. Len(rest)) /\ (~ (k < N) => k = N) BY <1>1, <3>1
    <3> QED BY <3>2, <3>3, <3>4
  <2>3. SegMoved(lair, e) = Append(rest, e) BY <1>4, <1>7
  <2>4. N \in (a + 1) .. N BY <1>1
  <2>5. \A k \in Element : Append(rest, e)[k] = IF k < N THEN rest[k] ELSE IF k = N THEN e ELSE rest[k - 1]
    <3>1. \A k \in Element : k < N \/ (~ (k < N) /\ k = N) BY <1>1
    <3> QED BY <2>2, <3>1
  <2> QED BY ZenonT(60), <2>1, <2>3, <2>4, <2>5
<1>8. CASE known # {}
  <2>1. known \in SUBSET AudLevel BY DEF TargetLevels
  <2>2. b \in known BY <1>8, <2>1, LevelExtremes
  <2> DEFINE t == lair[b]
  <2>3. b \in AudLevel /\ t # 0 /\ t \in Element /\ LevelOf(t) = b
    BY <1>1, <2>2 DEF TargetLevels, LairOK
  <2>4. IF srt.desc THEN b < LevelOf(e) ELSE b > LevelOf(e) BY <2>2 DEF TargetLevels
  <2>5. PICK i \in Element : srt.list[i] = t
    <3>1. srt.list \in [1 .. N -> 1 .. N] /\ \A k, l \in 1 .. N : srt.list[k] = srt.list[l] => k = l
      BY DEF PermutationOK, Element
    <3> HIDE DEF t, N
    <3>2. PICK s : s = srt.list OBVIOUS
    <3>3. s \in [1 .. N -> 1 .. N] BY <3>1, <3>2
    <3>4. \A k, l \in 1 .. N : s[k] = s[l] => k = l BY <3>1, <3>2
    <3>5. N \in Nat BY <1>1
    <3>6. \A x \in 1 .. N : \E k \in 1 .. N : s[k] = x BY <3>3, <3>4, <3>5, OntoIs
    <3> QED BY <1>1, <2>3, <3>2, <3>6
  <2> HIDE DEF b, t, known, e
  <2>6. LevelOf(e) \in Int /\ b \in Int BY <1>2, <1>5, <1>6, <2>3
  <2>7. i > a + 1
    <3>1. ~ (i < a)
      <4> SUFFICES ASSUME i < a PROVE FALSE OBVIOUS
      <4>1. i \in 1 .. a /\ a \in 1 .. a BY <1>1
      <4>2. Before(LevelOf(srt.list[i]), LevelOf(srt.list[a])) BY <4>1 DEF WalkOK
      <4>3. Before(b, LevelOf(e)) BY <2>3, <2>5, <4>2 DEF e
      <4> QED BY <2>4, <2>6, <4>3 DEF Before
    <3>2. i # a
      <4> SUFFICES ASSUME i = a PROVE FALSE OBVIOUS
      <4>1. b = LevelOf(e) BY <2>3, <2>5 DEF e
      <4> QED BY <2>4, <2>6, <4>1
    <3>3. i # a + 1
      <4> SUFFICES ASSUME i = a + 1 PROVE FALSE OBVIOUS
      <4>1. ~ Before(LevelOf(e), b) BY <2>3, <2>5 DEF e
      <4> QED BY <2>4, <2>6, <4>1 DEF Before
    <3> QED BY <1>1, <3>1, <3>2, <3>3
  <2>8. IndexIn(rest, t) = i - 1
    <3>1. i - 1 \in 1 .. N - 1 /\ ~ (i - 1 < a) /\ (i - 1) + 1 = i BY <1>1, <2>7
    <3>2. rest[i - 1] = t BY <1>3, <2>5, <3>1
    <3>3. ASSUME NEW k \in 1 .. N - 1, rest[k] = t PROVE k = i - 1
      <4>1. CASE k < a
        <5>1. srt.list[k] = t /\ k \in Element BY <1>1, <1>3, <3>3, <4>1
        <5>2. k = i BY <2>5, <5>1 DEF PermutationOK
        <5> QED BY <1>1, <2>7, <4>1, <5>2
      <4>2. CASE ~ (k < a)
        <5>1. srt.list[k + 1] = t /\ k + 1 \in Element
          <6>1. k + 1 \in Element BY <1>1, <3>3
          <6>2. rest[k] = srt.list[k + 1] BY <1>3, <3>3, <4>2
          <6> QED BY <3>3, <6>1, <6>2
        <5>2. k + 1 = i BY <2>5, <5>1 DEF PermutationOK
        <5> QED BY <5>2
      <4> QED BY <4>1, <4>2
    <3>4. DOMAIN rest = 1 .. N - 1 BY <1>3, LenProperties
    <3> HIDE DEF rest
    <3>5. IndexIn(rest, t) = CHOOSE k \in DOMAIN rest : rest[k] = t BY DEF IndexIn
    <3> QED BY <3>1, <3>2, <3>3, <3>4, <3>5
  <2> DEFINE p == i - 1
  <2>9. p \in (a + 1) .. N BY <1>1, <2>7
  <2>10. p \in 1 .. Len(rest) + 1 BY <1>1, <1>3, <2>7
  <2>11. SegMoved(lair, e) = InsertAt(rest, p, e) BY <1>4, <1>8, <2>8 DEF t
  <2> HIDE DEF rest, p
  <2>12. /\ InsertAt(rest, p, e) \in Seq(Element) /\ Len(InsertAt(rest, p, e)) = Len(rest) + 1
         /\ \A k \in 1 .. Len(rest) + 1 :
              InsertAt(rest, p, e)[k] = IF k < p THEN rest[k] ELSE IF k = p THEN e ELSE rest[k - 1]
    <3>1. rest \in Seq(Element) BY <1>3 DEF rest
    <3>2. e \in Element BY <1>2
    <3> HIDE DEF rest, e, p
    <3> QED BY <2>10, <3>1, <3>2, InsertAtIs
  <2>13. Len(rest) + 1 = N BY <1>1, <1>3
  <2>14. 1 .. Len(rest) + 1 = Element BY <1>1, <2>13
  <2> QED BY <2>9, <2>11, <2>12, <2>13, <2>14 DEF rest, e
<1> QED BY <1>7, <1>8

LEMMA MovedIs ==
  ASSUME PermutationOK, WalkOK, srt.at # NbElements, NEW lair, LairOK(lair),
         ~ Before(LevelOf(srt.list[srt.at]), LevelOf(srt.list[srt.at + 1]))
  PROVE  LET moved == SegMoved(lair, srt.list[srt.at])
         IN  /\ moved \in [Element -> Element] /\ Len(moved) = NbElements
             /\ \A i, j \in Element : moved[i] = moved[j] => i = j
             /\ moved[srt.at] = srt.list[srt.at + 1]
             /\ \A i \in 1 .. srt.at - 1 : moved[i] = srt.list[i]
<1> DEFINE a == srt.at
           s == srt.list
           rest == RemoveAt(s, a)
           m == SegMoved(lair, s[a])
           N == NbElements
<1>1. N \in Nat /\ a \in Nat /\ 1 <= a /\ a < N /\ Element = 1 .. N BY DEF PermutationOK, WalkOK, Element
<1>2. PICK p \in (a + 1) .. N :
        /\ m \in Seq(Element) /\ Len(m) = N
        /\ \A k \in Element : m[k] = IF k < p THEN rest[k] ELSE IF k = p THEN s[a] ELSE rest[k - 1]
  BY MovedPlace
<1>3. \A k \in 1 .. N - 1 : rest[k] = IF k < a THEN s[k] ELSE s[k + 1]
  <2>1. s \in [1 .. N -> Element] BY DEF PermutationOK, Element
  <2>2. s \in Seq(Element) /\ Len(s) = N BY <1>1, <2>1, SeqDef
  <2>3. a \in 1 .. Len(s) BY <1>1, <2>2
  <2> QED BY <2>2, <2>3, RemoveAtIs
<1>4. s \in [Element -> Element] /\ \A i, j \in Element : s[i] = s[j] => i = j BY DEF PermutationOK
<1> HIDE DEF rest, m, s
<1> DEFINE from(k) == IF k < a THEN k ELSE IF k < p THEN k + 1 ELSE IF k = p THEN a ELSE k
<1>5. p \in Nat /\ a < p /\ p <= N BY <1>1, <1>2
<1>6. ASSUME NEW k \in Element PROVE m[k] = s[from(k)] /\ from(k) \in Element
  <2>0. k \in Nat /\ 1 <= k /\ k <= N BY <1>1
  <2>1. CASE k < a
    <3>1. k < p /\ k \in 1 .. N - 1 BY <1>1, <1>5, <2>0, <2>1
    <3> QED BY <1>2, <1>3, <2>1, <3>1
  <2>2. CASE ~ (k < a) /\ k < p
    <3>1. k \in 1 .. N - 1 /\ k + 1 \in Element BY <1>1, <1>5, <2>0, <2>2
    <3> QED BY <1>2, <1>3, <2>2, <3>1
  <2>3. CASE ~ (k < a) /\ ~ (k < p) /\ k = p
    <3>1. a \in Element BY <1>1
    <3> QED BY <1>2, <2>3, <3>1
  <2>4. CASE ~ (k < a) /\ ~ (k < p) /\ k # p
    <3>1. k - 1 \in 1 .. N - 1 /\ ~ (k - 1 < a) /\ (k - 1) + 1 = k BY <1>1, <1>5, <2>0, <2>4
    <3>2. rest[k - 1] = s[k] BY <1>3, <3>1
    <3> QED BY <1>2, <2>4, <3>2
  <2> QED BY <2>1, <2>2, <2>3, <2>4
<1>7. ASSUME NEW i \in Element, NEW j \in Element, from(i) = from(j) PROVE i = j
  <2>1. i \in Nat /\ j \in Nat BY <1>1
  <2> QED BY <1>1, <1>5, <1>7, <2>1
<1>8. ASSUME NEW i \in Element, NEW j \in Element, m[i] = m[j] PROVE i = j
  BY <1>4, <1>6, <1>7, <1>8
<1>9. m \in [Element -> Element] BY <1>1, <1>2, LenProperties
<1>10. m[a] = s[a + 1]
  <2>1. a \in Element /\ from(a) = a + 1 BY <1>1, <1>5
  <2> QED BY <1>6, <2>1
<1>11. ASSUME NEW i \in 1 .. a - 1 PROVE m[i] = s[i]
  <2>1. i \in Element /\ from(i) = i BY <1>1
  <2> QED BY <1>6, <2>1
<1> QED BY <1>2, <1>8, <1>9, <1>10, <1>11 DEF m, s

LEMMA SortedAtEnd ==
  ASSUME PermutationOK, WalkOK, srt.at = NbElements
  PROVE  /\ ToSet(srt.list) = Element /\ Len(srt.list) = NbElements
         /\ InOrder([i \in 1 .. Len(srt.list) |-> srt.level[srt.list[i]]], IF srt.desc THEN "desc" ELSE "asc")
<1> DEFINE N == NbElements
           r == [i \in 1 .. Len(srt.list) |-> srt.level[srt.list[i]]]
           u == [i \in 1 .. N |-> r[(N - i) + 1]]
<1>1. N \in Nat /\ srt.list \in [1 .. N -> 1 .. N] /\ \A i, j \in 1 .. N : srt.list[i] = srt.list[j] => i = j
  BY DEF PermutationOK, Element
<1>2. Len(srt.list) = N /\ DOMAIN srt.list = 1 .. N BY <1>1
<1>3. \A i \in 1 .. N : r[i] = LevelOf(srt.list[i]) BY <1>2 DEF LevelOf
<1>4. ToSet(srt.list) = Element
  <2>1. PICK s : s = srt.list OBVIOUS
  <2>2. s \in [1 .. N -> 1 .. N] BY <1>1, <2>1
  <2>3. \A i, j \in 1 .. N : s[i] = s[j] => i = j BY <1>1, <2>1
  <2>4. N \in Nat BY <1>1
  <2>5. \A x \in 1 .. N : \E i \in 1 .. N : s[i] = x BY ZenonT(40), <2>2, <2>3, <2>4, OntoIs
  <2>6. \A i \in 1 .. N : s[i] \in 1 .. N BY <2>2
  <2>7. DOMAIN s = 1 .. N BY <2>2
  <2>8. {s[i] : i \in DOMAIN s} = 1 .. N BY <2>5, <2>6, <2>7
  <2> QED BY <2>1, <2>8 DEF ToSet, Element
<1>5. Len(r) = N /\ DOMAIN r = 1 .. N BY <1>1, <1>2
<1>6. Reverse(r) = u BY <1>5 DEF Reverse
<1>7. Len(u) = N BY <1>1
<1>8. \A i \in 1 .. N : LevelOf(srt.list[i]) \in Int
  BY <1>1, AudAssumption DEF PermutationOK, LevelOf, AudLevel, Element
<1>9. ASSUME NEW i \in 1 .. N - 1 PROVE Before(r[i], r[i + 1])
  <2>1. i \in 1 .. N /\ i + 1 \in 1 .. N /\ i < i + 1 BY <1>1
  <2>2. Before(LevelOf(srt.list[i]), LevelOf(srt.list[i + 1])) BY <2>1 DEF WalkOK
  <2> QED BY <1>3, <2>1, <2>2
<1>10. \A i \in 1 .. N : r[i] \in Int BY <1>3, <1>8
<1> HIDE DEF r
<1>11. CASE ~ srt.desc
  <2>1. Ascending(r) BY <1>5, <1>9, <1>11 DEF Ascending, Before
  <2> QED BY <1>2, <1>4, <1>11, <2>1 DEF InOrder, r
<1>12. CASE srt.desc
  <2>1. ASSUME NEW i \in 1 .. N - 1 PROVE u[i] <= u[i + 1]
    <3>1. PICK k \in Int : k = N - i BY <1>1
    <3>2. k \in 1 .. N - 1 /\ k \in 1 .. N /\ k + 1 \in 1 .. N /\ (N - i) + 1 = k + 1 /\ (N - (i + 1)) + 1 = k BY <1>1, <3>1
    <3>3. u[i] = r[k + 1] /\ u[i + 1] = r[k]
      <4>1. i \in 1 .. N /\ i + 1 \in 1 .. N BY <1>1
      <4>2. u[i] = r[(N - i) + 1] BY <4>1
      <4>3. u[i + 1] = r[(N - (i + 1)) + 1] BY <4>1
      <4> HIDE DEF u
      <4> QED BY <3>2, <4>2, <4>3
    <3>4. r[k] >= r[k + 1] BY <1>9, <1>12, <3>2 DEF Before
    <3> HIDE DEF u
    <3> QED BY <1>10, <3>2, <3>3, <3>4
  <2> HIDE DEF u
  <2>2. Ascending(Reverse(r)) BY <1>6, <1>7, <2>1 DEF Ascending
  <2> QED BY <1>2, <1>4, <1>12, <2>2 DEF InOrder, r
<1> QED BY <1>11, <1>12

LEMMA SortOneFileKeeps ==
  ASSUME PermutationOK, WalkOK, srt.pc = "sort", sort_one_file
  PROVE  SInv'
<1> DEFINE a == srt.at
           N == NbElements
           e == srt.list[a]
           n == srt.list[a + 1]
           one == FirstOf(srt.lair, e)
           two == FirstOf(one, n)
           moved == SegMoved(two, e)
<1>1. N \in Nat /\ a \in Nat /\ 1 <= a /\ a <= N /\ Element = 1 .. N BY DEF PermutationOK, WalkOK, Element
<1>2. Len(srt.list) = N /\ srt.list \in [Element -> Element] BY <1>1 DEF PermutationOK
<1>3. e \in Element /\ (a # N => a + 1 \in Element /\ n \in Element)
  <2>1. a \in Element /\ (a # N => a + 1 \in Element) BY <1>1
  <2> HIDE DEF a
  <2> QED BY <1>2, <2>1
<1>4. LairOK(one) /\ (a # N => LairOK(two)) BY <1>3, FirstOfIs DEF WalkOK
<1>5. \A x \in Element : LevelOf(x) \in Int BY AudAssumption DEF PermutationOK, LevelOf, AudLevel
<1>6. DOMAIN srt = {"pc", "desc", "level", "list", "lair", "at"} BY DEF PermutationOK
<1>7. CASE a = N
  <2>1. srt' = [srt EXCEPT !.pc = "end", !.lair = one] BY <1>2, <1>7 DEF sort_one_file
  <2>2. srt'.pc = "end" /\ srt'.list = srt.list /\ srt'.level = srt.level /\ srt'.desc = srt.desc
    BY <1>6, <2>1
  <2>3. /\ ToSet(srt.list) = Element /\ Len(srt.list) = NbElements
        /\ InOrder([i \in 1 .. Len(srt.list) |-> srt.level[srt.list[i]]], IF srt.desc THEN "desc" ELSE "asc")
    BY <1>7, SortedAtEnd
  <2>4. ListSorted' BY <2>2, <2>3 DEF ListSorted, Element, NbElements
  <2> QED BY <2>2, <2>4 DEF SInv
<1> DEFINE misplaced == IF srt.desc THEN LevelOf(e) < LevelOf(n) ELSE LevelOf(e) > LevelOf(n)
<1>8. ASSUME a # N PROVE misplaced <=> ~ Before(LevelOf(e), LevelOf(n))
  <2>1. LevelOf(e) \in Int /\ LevelOf(n) \in Int BY <1>3, <1>5, <1>8
  <2> QED BY <2>1 DEF Before
<1>9. CASE a # N /\ misplaced
  <2>1. srt' = [srt EXCEPT !.lair = two, !.list = moved, !.at = ResumeAt(moved, n)]
    BY <1>2, <1>9 DEF sort_one_file
  <2>2. /\ moved \in [Element -> Element] /\ Len(moved) = N
        /\ \A i, j \in Element : moved[i] = moved[j] => i = j
        /\ moved[a] = n /\ \A i \in 1 .. a - 1 : moved[i] = srt.list[i]
    <3>1. LairOK(two) /\ srt.at # NbElements /\ ~ Before(LevelOf(srt.list[srt.at]), LevelOf(srt.list[srt.at + 1]))
      BY <1>4, <1>8, <1>9
    <3> HIDE DEF two
    <3> QED BY <3>1, MovedIs
  <2> DEFINE r == ResumeAt(moved, n)
  <2> HIDE DEF two, moved
  <2>3. r = IF a = 1 THEN 1 ELSE a - 1
    <3>1. a \in Element /\ 1 \in Element BY <1>1
    <3>2. IndexIn(moved, n) = a
      <4>1. DOMAIN moved = Element BY <2>2
      <4>2. IndexIn(moved, n) = CHOOSE i \in Element : moved[i] = n BY <4>1 DEF IndexIn
      <4> QED BY <2>2, <3>1, <4>2
    <3>3. moved[1] = n <=> a = 1 BY <2>2, <3>1
    <3> QED BY <3>2, <3>3 DEF ResumeAt
  <2> HIDE DEF r
  <2>4. /\ srt'.lair = two /\ srt'.list = moved /\ srt'.at = r /\ srt'.pc = "sort"
        /\ srt'.level = srt.level /\ srt'.desc = srt.desc /\ DOMAIN srt' = DOMAIN srt
    BY <1>6, <2>1 DEF r
  <2>5. NbElements' = N /\ Element' = Element /\ \A x : LevelOf(x)' = LevelOf(x)
    BY <2>4 DEF NbElements, Element, LevelOf
  <2>6. PermutationOK' BY <2>2, <2>4, <2>5 DEF PermutationOK
  <2>7. two \in [AudLevel -> 0 .. N] /\ \A l \in AudLevel : two[l] # 0 => srt.level[two[l]] = l
    BY <1>4, <1>9 DEF LairOK, LevelOf
  <2>8. r \in Element /\ \A i \in 1 .. r : \A j \in 1 .. r : i < j => i \in 1 .. a - 1 /\ j \in 1 .. a - 1 /\ i \in 1 .. a /\ j \in 1 .. a
    <3>1. CASE a = 1 BY <1>1, <2>3, <3>1
    <3>2. CASE a # 1 BY <1>1, <2>3, <3>2
    <3> QED BY <3>1, <3>2
  <2>9. ASSUME NEW i \in 1 .. r, NEW j \in 1 .. r, i < j PROVE Before(LevelOf(moved[i]), LevelOf(moved[j]))
    <3>1. moved[i] = srt.list[i] /\ moved[j] = srt.list[j] BY <2>2, <2>8, <2>9
    <3>2. Before(LevelOf(srt.list[i]), LevelOf(srt.list[j])) BY <2>8, <2>9 DEF WalkOK
    <3> QED BY <3>1, <3>2
  <2>10. \A x, y : Before(x, y)' = Before(x, y) BY <2>4 DEF Before
  <2>11. \A i, j \in 1 .. srt'.at : i < j => Before(LevelOf(srt.list[i]), LevelOf(srt.list[j]))'
    <3>1. \A i, j \in 1 .. r : i < j => Before(LevelOf(moved[i]), LevelOf(moved[j])) BY <2>9
    <3>2. \A x : srt'.level[x] = srt.level[x] BY <2>4
    <3> QED BY <2>4, <3>1, <3>2 DEF Before, LevelOf
  <2>12. srt'.at \in Element' BY <2>4, <2>5, <2>8
  <2>13. LairOK(srt.lair)' BY <2>4, <2>5, <2>7 DEF LairOK, LevelOf
  <2>14. WalkOK' BY <2>11, <2>12, <2>13 DEF WalkOK
  <2> QED BY <2>4, <2>6, <2>14 DEF SInv
<1>10. CASE a # N /\ ~ misplaced
  <2>1. srt' = [srt EXCEPT !.lair = two, !.at = a + 1] BY <1>2, <1>10 DEF sort_one_file
  <2> HIDE DEF two
  <2>2. /\ srt'.lair = two /\ srt'.list = srt.list /\ srt'.at = a + 1 /\ srt'.pc = "sort"
        /\ srt'.level = srt.level /\ srt'.desc = srt.desc /\ DOMAIN srt' = DOMAIN srt
    BY <1>6, <2>1
  <2>3. NbElements' = N /\ Element' = Element /\ \A x : LevelOf(x)' = LevelOf(x)
    BY <2>2 DEF NbElements, Element, LevelOf
  <2>4. PermutationOK' BY <2>2, <2>3 DEF PermutationOK
  <2>5. LairOK(srt.lair)'
    <3>1. two \in [AudLevel -> 0 .. N] /\ \A l \in AudLevel : two[l] # 0 => srt.level[two[l]] = l
      BY <1>4, <1>10 DEF LairOK, LevelOf
    <3> QED BY <2>2, <2>3, <3>1 DEF LairOK, LevelOf
  <2>6. ASSUME NEW i \in 1 .. a + 1, NEW j \in 1 .. a + 1, i < j
        PROVE  Before(LevelOf(srt.list[i]), LevelOf(srt.list[j]))
    <3>1. CASE j # a + 1
      <4>1. i \in 1 .. a /\ j \in 1 .. a BY <1>1, <2>6, <3>1
      <4> QED BY <2>6, <4>1 DEF WalkOK
    <3>2. CASE j = a + 1
      <4>1. i \in 1 .. a /\ a \in 1 .. a /\ i \in Element BY <1>1, <2>6, <3>2
      <4>2. Before(LevelOf(e), LevelOf(n)) BY <1>8, <1>10
      <4>3. LevelOf(e) \in Int /\ LevelOf(n) \in Int /\ LevelOf(srt.list[i]) \in Int
        BY <1>2, <1>3, <1>5, <1>10, <4>1
      <4>4. CASE i = a BY <3>2, <4>2, <4>4
      <4>5. CASE i # a
        <5>1. i < a BY <1>1, <4>1, <4>5
        <5>2. Before(LevelOf(srt.list[i]), LevelOf(e)) BY <4>1, <5>1 DEF WalkOK
        <5>3. Before(LevelOf(srt.list[i]), LevelOf(n)) BY <4>2, <4>3, <5>2 DEF Before
        <5> QED BY <3>2, <5>3
      <4> QED BY <4>4, <4>5
    <3> QED BY <3>1, <3>2
  <2>7. \A i, j \in 1 .. srt'.at : i < j => Before(LevelOf(srt.list[i]), LevelOf(srt.list[j]))'
    <3>1. \A i, j \in 1 .. a + 1 : i < j => Before(LevelOf(srt.list[i]), LevelOf(srt.list[j])) BY <2>6
    <3>2. \A x : srt'.level[x] = srt.level[x] BY <2>2
    <3> QED BY <2>2, <3>1, <3>2 DEF Before, LevelOf
  <2>8. srt'.at \in Element' BY <1>3, <1>10, <2>2, <2>3
  <2>9. WalkOK' BY <2>5, <2>7, <2>8 DEF WalkOK
  <2> QED BY <2>2, <2>4, <2>9 DEF SInv
<1> QED BY <1>7, <1>9, <1>10

-----------------------------------------------------------------------------
(* sort_state. *)

Dir == {"asc", "desc"}
\* y may come just after x.
Follows(x, y, dir) == IF dir = "asc" THEN x <= y ELSE x >= y
Steps(s, dir) == \A i \in 1 .. Len(s) - 1 : Follows(s[i], s[i + 1], dir)
\* What sort_state says of a list is true, or the list was reordered without a word.
StateHolds(s, state, bypass) == (state # "unknown" /\ ~ bypass) => Steps(s, state)
SegsOK ==
  /\ DOMAIN segs = {"pc", "dir", "at", "inserts", "lock", "list", "state", "bypass"} /\ segs.dir \in Dir
  /\ segs.list \in [AudFile -> Seq(Nat)] /\ segs.state \in [AudFile -> Dir \cup {"unknown"}]
  /\ segs.bypass \in [AudFile -> BOOLEAN]
  /\ \A f \in AudFile : StateHolds(segs.list[f], segs.state[f], segs.bypass[f])
GInv == segs.pc \in {"idle", "run"} /\ (segs.pc = "run" => SegsOK)

LEMMA ReverseIs ==
  ASSUME NEW s \in Seq(Nat)
  PROVE  /\ Reverse(s) \in Seq(Nat) /\ Len(Reverse(s)) = Len(s)
         /\ \A i \in 1 .. Len(s) : Reverse(s)[i] = s[(Len(s) - i) + 1]
<1> DEFINE n == Len(s)
           u == [i \in 1 .. n |-> s[(n - i) + 1]]
<1>1. n \in Nat /\ s \in [1 .. n -> Nat] BY LenProperties
<1>2. Reverse(s) = u BY DEF Reverse
<1> HIDE DEF n
<1>3. \A i \in 1 .. n : (n - i) + 1 \in 1 .. n BY <1>1
<1>4. u \in [1 .. n -> Nat] BY <1>1, <1>3
<1>5. u \in Seq(Nat) /\ Len(u) = n BY <1>1, <1>4, SeqDef
<1> QED BY <1>2, <1>5 DEF n

\* To be in order is to be so step by step, in both orders.
LEMMA InOrderIs ==
  ASSUME NEW s \in Seq(Nat), NEW dir \in Dir, Steps(s, dir)
  PROVE  InOrder(s, dir)
<1> DEFINE n == Len(s)
           u == Reverse(s)
<1>1. n \in Nat /\ s \in [1 .. n -> Nat] BY LenProperties
<1>2. CASE dir = "asc" BY <1>2 DEF InOrder, Ascending, Steps, Follows
<1>3. CASE dir = "desc"
  <2>1. Len(u) = n /\ \A i \in 1 .. n : u[i] = s[(n - i) + 1] BY ReverseIs
  <2> HIDE DEF n
  <2> HIDE DEF u
  <2>2. ASSUME NEW i \in 1 .. n - 1 PROVE u[i] <= u[i + 1]
    <3>1. PICK k \in Int : k = n - i BY <1>1
    <3>2. k \in 1 .. n - 1 /\ k \in 1 .. n /\ k + 1 \in 1 .. n /\ (n - i) + 1 = k + 1 /\ (n - (i + 1)) + 1 = k
      BY <1>1, <3>1
    <3>3. i \in 1 .. n /\ i + 1 \in 1 .. n BY <1>1
    <3>4. u[i] = s[k + 1] BY <2>1, <3>2, <3>3
    <3>5. u[i + 1] = s[k] BY <2>1, <3>2, <3>3
    <3>6. s[k] >= s[k + 1] BY <1>3, <3>2 DEF Steps, Follows, n
    <3> QED BY <1>1, <3>2, <3>4, <3>5, <3>6
  <2> QED BY <1>3, <2>1, <2>2 DEF InOrder, Ascending, u, n
<1> QED BY <1>2, <1>3 DEF Dir

LEMMA GreatestUpTo ==
  ASSUME NEW n \in Nat, NEW T \in SUBSET (0 .. n), T # {}
  PROVE  Max(T) \in T /\ \A x \in T : Max(T) >= x
<1> DEFINE U == {n - x : x \in T}
<1>1. U \in SUBSET Nat /\ U # {}
  <2>1. \A x \in T : x \in Nat /\ x <= n /\ n - x \in Nat OBVIOUS
  <2> QED BY <2>1
<1>2. PICK u \in U : \A x \in U : u <= x BY <1>1, Purge!Least
<1>3. PICK k \in T : u = n - k BY <1>2
<1>4. \A x \in T : k >= x
  <2> SUFFICES ASSUME NEW x \in T PROVE k >= x OBVIOUS
  <2>1. n - x \in U OBVIOUS
  <2>2. u <= n - x BY <1>2, <2>1
  <2> QED BY <1>3, <2>2
<1>5. \E x \in T : \A y \in T : x >= y BY <1>4
<1> QED BY <1>5 DEF Max

\* An element put after the last one it may follow leaves the list in order.
LEMMA PutInOrderIs ==
  ASSUME NEW dir \in Dir, NEW q \in Seq(Nat), Steps(q, dir), NEW l \in Nat
  PROVE  PutInOrder(q, l, dir) \in Seq(Nat) /\ Steps(PutInOrder(q, l, dir), dir)
<1> DEFINE n == Len(q)
           after == {0} \cup {i \in DOMAIN q : MayFollow(l, q, i, dir)}
           m == Max(after)
           u == InsertAt(q, m + 1, l)
<1>1. n \in Nat /\ q \in [1 .. n -> Nat] /\ DOMAIN q = 1 .. n BY LenProperties
<1> HIDE DEF n
<1>2. after \in SUBSET (0 .. n) /\ after # {} BY <1>1
<1> HIDE DEF after
<1>3. m \in after /\ \A x \in after : m >= x BY <1>1, <1>2, GreatestUpTo
<1> HIDE DEF m
<1>4. m \in 0 .. n BY <1>2, <1>3
<1>5. m # 0 => Follows(q[m], l, dir) BY <1>3 DEF after, MayFollow, Follows
<1>6. ASSUME m # n PROVE Follows(l, q[m + 1], dir)
  <2>0. n \in Nat /\ m \in Nat /\ m <= n /\ m # n BY <1>1, <1>4, <1>6
  <2>1. m + 1 \in 1 .. n /\ ~ (m >= m + 1) BY <2>0
  <2>2. m + 1 \notin after BY <1>3, <2>1
  <2>3. ~ MayFollow(l, q, m + 1, dir) BY <1>1, <2>1, <2>2 DEF after
  <2>4. q[m + 1] \in Nat BY <1>1, <2>1
  <2> QED BY <2>3, <2>4 DEF MayFollow, Follows
<1>7. PutInOrder(q, l, dir) = u BY DEF PutInOrder, m, after
<1>8. m + 1 \in 1 .. n + 1 BY <1>1, <1>4
<1>9. /\ u \in Seq(Nat) /\ Len(u) = n + 1
      /\ \A k \in 1 .. n + 1 : u[k] = IF k < m + 1 THEN q[k] ELSE IF k = m + 1 THEN l ELSE q[k - 1]
  <2>1. m + 1 \in 1 .. Len(q) + 1 BY <1>8 DEF n
  <2>2. PICK k : k = m + 1 OBVIOUS
  <2>3. k \in 1 .. Len(q) + 1 BY <2>1, <2>2
  <2>4. /\ InsertAt(q, k, l) \in Seq(Nat) /\ Len(InsertAt(q, k, l)) = Len(q) + 1
        /\ \A i \in 1 .. Len(q) + 1 : InsertAt(q, k, l)[i] = IF i < k THEN q[i] ELSE IF i = k THEN l ELSE q[i - 1]
    <3>1. PICK S : S = Nat OBVIOUS
    <3>2. q \in Seq(S) /\ l \in S BY <3>1
    <3>3. InsertAt(q, k, l) \in Seq(S) BY <2>3, <3>2, InsertAtIs
    <3>4. /\ Len(InsertAt(q, k, l)) = Len(q) + 1
          /\ \A i \in 1 .. Len(q) + 1 : InsertAt(q, k, l)[i] = IF i < k THEN q[i] ELSE IF i = k THEN l ELSE q[i - 1]
      BY <2>3, <3>2, InsertAtIs
    <3> QED BY <3>1, <3>3, <3>4
  <2> QED BY <2>2, <2>4 DEF n
<1> HIDE DEF u
<1>10. ASSUME NEW k \in 1 .. n PROVE Follows(u[k], u[k + 1], dir)
  <2>1. k \in 1 .. n + 1 /\ k + 1 \in 1 .. n + 1 /\ (k + 1) - 1 = k /\ k \in Nat /\ m \in Nat BY <1>1, <1>4
  <2>2. u[k] = IF k < m + 1 THEN q[k] ELSE IF k = m + 1 THEN l ELSE q[k - 1] BY <1>9, <2>1
  <2>3. u[k + 1] = IF k + 1 < m + 1 THEN q[k + 1] ELSE IF k + 1 = m + 1 THEN l ELSE q[k] BY <1>9, <2>1
  <2>4. \A i \in 1 .. n - 1 : Follows(q[i], q[i + 1], dir) BY DEF Steps, n
  <2>5. CASE k < m
    <3>1. k < m + 1 /\ k + 1 < m + 1 /\ k \in 1 .. n - 1 BY <1>1, <1>4, <2>1, <2>5
    <3> QED BY <2>2, <2>3, <2>4, <3>1
  <2>6. CASE k = m
    <3>1. k < m + 1 /\ ~ (k + 1 < m + 1) /\ k + 1 = m + 1 /\ m # 0 BY <2>1, <2>6
    <3> QED BY <1>5, <2>2, <2>3, <2>6, <3>1
  <2>7. CASE k = m + 1
    <3>1. ~ (k < m + 1) /\ ~ (k + 1 < m + 1) /\ k + 1 # m + 1 /\ m # n BY <1>1, <1>4, <2>1, <2>7
    <3> QED BY <1>6, <2>2, <2>3, <2>7, <3>1
  <2>8. CASE k > m + 1
    <3>1. ~ (k < m + 1) /\ k # m + 1 /\ ~ (k + 1 < m + 1) /\ k + 1 # m + 1 BY <2>1, <2>8
    <3>2. k - 1 \in 1 .. n - 1 /\ (k - 1) + 1 = k BY <1>1, <1>4, <2>1, <2>8
    <3>3. Follows(q[k - 1], q[k], dir) BY <2>4, <3>2
    <3> QED BY <2>2, <2>3, <3>1, <3>3
  <2> QED BY <2>1, <2>5, <2>6, <2>7, <2>8
<1>11. (n + 1) - 1 = n BY <1>1
<1> QED BY <1>7, <1>9, <1>10, <1>11 DEF Steps

PutOp(dir, y, q, l) == PutInOrder(q, l, dir)
PutSoFar(dir, n, q) == q \in Seq(Nat) /\ Steps(q, dir)
Put == INSTANCE Iteration WITH Op <- PutOp, P <- PutSoFar

LEMMA LevelsSortedIs ==
  ASSUME NEW dir \in Dir, NEW s \in Seq(Nat)
  PROVE  LevelsSorted(s, dir) \in Seq(Nat) /\ Steps(LevelsSorted(s, dir), dir)
<1> DEFINE g == CHOOSE g : Put!IsFold(dir, 0, <<>>, s, g)
<1>1. Len(s) \in Nat /\ DOMAIN s = 1 .. Len(s) /\ s \in [1 .. Len(s) -> Nat] BY LenProperties
<1>2. Put!IsFold(dir, 0, <<>>, s, g) BY <1>1, Put!FoldExists
<1>3. LevelsSorted(s, dir) = g[DOMAIN s]
  BY DEF LevelsSorted, FoldLeft, MapThenFoldSet, Put!IsFold, Put!Step, PutOp, Put!Last, Max
<1> HIDE DEF g
<1>4. PutSoFar(dir, 0, <<>>) BY DEF PutSoFar, Steps
<1>5. \A k \in 1 .. Len(s) : \A v : PutSoFar(dir, k - 1, v) => PutSoFar(dir, k, PutOp(dir, 0, v, s[k]))
  <2> SUFFICES ASSUME NEW k \in 1 .. Len(s), NEW v, PutSoFar(dir, k - 1, v)
               PROVE  PutSoFar(dir, k, PutOp(dir, 0, v, s[k]))
    OBVIOUS
  <2>1. s[k] \in Nat BY <1>1
  <2>2. v \in Seq(Nat) /\ Steps(v, dir) BY DEF PutSoFar
  <2>3. PutInOrder(v, s[k], dir) \in Seq(Nat) /\ Steps(PutInOrder(v, s[k], dir), dir) BY <2>1, <2>2, PutInOrderIs
  <2> QED BY <2>3 DEF PutSoFar, PutOp
<1>6. PutSoFar(dir, Len(s), g[DOMAIN s]) BY <1>1, <1>2, <1>4, <1>5, Put!FoldInduction
<1> QED BY <1>3, <1>6 DEF PutSoFar

RegroupOp(levels, pool, q, i) == q \o Reverse(levels[pool + i])
RegroupSoFar(x, n, q) == q \in Seq(Nat)
Regroup == INSTANCE Iteration WITH Op <- RegroupOp, P <- RegroupSoFar

LEMMA RegroupedIs ==
  ASSUME SegsOK, NEW pool \in {0, AudLists}
  PROVE  Regrouped(pool) \in Seq(Nat)
<1> DEFINE s == [i \in 1 .. (AudLists - 1) |-> i]
           g == CHOOSE g : Regroup!IsFold(segs.list, pool, segs.list[pool], s, g)
<1>0. AudLists \in Nat \ {0} BY AudAssumption
<1>1. AudLists - 1 \in Nat /\ Len(s) = AudLists - 1 /\ DOMAIN s = 1 .. Len(s) /\ \A i \in 1 .. Len(s) : s[i] = i
  BY <1>0
<1> HIDE DEF s
<1>2. Regroup!IsFold(segs.list, pool, segs.list[pool], s, g) BY <1>1, Regroup!FoldExists
<1>3. Regrouped(pool) = g[DOMAIN s]
  BY DEF Regrouped, s, FoldLeft, MapThenFoldSet, Regroup!IsFold, Regroup!Step, RegroupOp, Regroup!Last, Max
<1> HIDE DEF g
<1>4. \A i \in 0 .. AudLists - 1 : pool + i \in AudFile BY <1>0 DEF AudFile
<1>5. RegroupSoFar(0, 0, segs.list[pool])
  <2>1. pool \in AudFile BY <1>0 DEF AudFile
  <2> QED BY <2>1 DEF RegroupSoFar, SegsOK
<1>6. \A k \in 1 .. Len(s) : \A v :
        RegroupSoFar(0, k - 1, v) => RegroupSoFar(0, k, RegroupOp(segs.list, pool, v, s[k]))
  <2> SUFFICES ASSUME NEW k \in 1 .. Len(s), NEW v, v \in Seq(Nat)
               PROVE  v \o Reverse(segs.list[pool + s[k]]) \in Seq(Nat)
    BY DEF RegroupSoFar, RegroupOp
  <2>1. s[k] \in 0 .. AudLists - 1 BY <1>1
  <2>2. segs.list[pool + s[k]] \in Seq(Nat) BY <1>4, <2>1 DEF SegsOK
  <2>3. Reverse(segs.list[pool + s[k]]) \in Seq(Nat) BY <2>2, ReverseIs
  <2> QED BY <2>3, ConcatProperties
<1>7. RegroupSoFar(0, Len(s), g[DOMAIN s]) BY <1>1, <1>2, <1>5, <1>6, Regroup!FoldInduction
<1> QED BY <1>3, <1>7 DEF RegroupSoFar

\* A step that gives the lists and what is remembered of them.
LEMMA SegsChange ==
  ASSUME SegsOK, segs.pc = "run",
         NEW L \in [AudFile -> Seq(Nat)], NEW S \in [AudFile -> Dir \cup {"unknown"}], NEW B \in [AudFile -> BOOLEAN],
         segs'.pc = segs.pc, segs'.dir = segs.dir, DOMAIN segs' = DOMAIN segs,
         segs'.list = L, segs'.state = S, segs'.bypass = B,
         \A f \in AudFile : StateHolds(L[f], S[f], B[f])
  PROVE  GInv'
<1>1. SegsOK'
  <2>1. /\ DOMAIN segs' = {"pc", "dir", "at", "inserts", "lock", "list", "state", "bypass"} /\ segs'.dir \in Dir
        /\ segs'.list \in [AudFile -> Seq(Nat)] /\ segs'.state \in [AudFile -> Dir \cup {"unknown"}]
        /\ segs'.bypass \in [AudFile -> BOOLEAN]
    BY DEF SegsOK
  <2>2. \A f \in AudFile : StateHolds(segs'.list[f], segs'.state[f], segs'.bypass[f]) OBVIOUS
  <2> QED BY <2>1, <2>2 DEF SegsOK, StateHolds, Steps, Follows
<1> QED BY <1>1 DEF GInv

\* One list changes.
LEMMA SegsChangeOne ==
  ASSUME SegsOK, segs.pc = "run", NEW f \in AudFile,
         NEW s \in Seq(Nat), NEW state \in Dir \cup {"unknown"}, NEW bypass \in BOOLEAN, StateHolds(s, state, bypass),
         segs'.pc = segs.pc, segs'.dir = segs.dir, DOMAIN segs' = DOMAIN segs,
         segs'.list = [segs.list EXCEPT ![f] = s], segs'.state = [segs.state EXCEPT ![f] = state],
         segs'.bypass = [segs.bypass EXCEPT ![f] = bypass]
  PROVE  GInv'
<1> DEFINE L == segs'.list
           S == segs'.state
           B == segs'.bypass
<1>1. L \in [AudFile -> Seq(Nat)] /\ S \in [AudFile -> Dir \cup {"unknown"}] /\ B \in [AudFile -> BOOLEAN]
  BY DEF SegsOK
<1>2. ASSUME NEW g \in AudFile PROVE StateHolds(L[g], S[g], B[g])
  <2>1. CASE g = f
    <3>1. L[g] = s /\ S[g] = state /\ B[g] = bypass BY <2>1 DEF SegsOK
    <3> QED BY <3>1
  <2>2. CASE g # f
    <3>1. L[g] = segs.list[g] /\ S[g] = segs.state[g] /\ B[g] = segs.bypass[g] BY <2>2 DEF SegsOK
    <3>2. StateHolds(segs.list[g], segs.state[g], segs.bypass[g]) BY DEF SegsOK
    <3> QED BY <3>1, <3>2
  <2> QED BY <2>1, <2>2
<1>3. PICK l, st, b : l = L /\ st = S /\ b = B OBVIOUS
<1>4. l \in [AudFile -> Seq(Nat)] /\ st \in [AudFile -> Dir \cup {"unknown"}] /\ b \in [AudFile -> BOOLEAN]
  BY <1>1, <1>3
<1>5. \A g \in AudFile : StateHolds(l[g], st[g], b[g]) BY <1>2, <1>3
<1>6. segs'.list = l /\ segs'.state = st /\ segs'.bypass = b BY <1>3
<1> QED BY <1>4, <1>5, <1>6, SegsChange

LEMMA SegInsertKeeps ==
  ASSUME SegsOK, NEW f \in AudFile, SegInsert(f)
  PROVE  GInv'
<1>1. DOMAIN segs = {"pc", "dir", "at", "inserts", "lock", "list", "state", "bypass"} BY DEF SegsOK
<1>2. PICK l \in InsertLevels :
        segs' = [segs EXCEPT !.list[f] = Append(@, l), !.state[f] = AfterInsert(@), !.bypass[f] = FALSE,
                             !.inserts = @ + 1]
  BY DEF SegInsert
<1> DEFINE s == Append(segs.list[f], l)
<1>3. l \in Nat BY AudAssumption
<1>4. s \in Seq(Nat)
  <2>1. segs.list[f] \in Seq(Nat) BY DEF SegsOK
  <2> QED BY <1>3, <2>1
<1>5. /\ segs'.list = [segs.list EXCEPT ![f] = s] /\ segs'.state = [segs.state EXCEPT ![f] = "unknown"]
      /\ segs'.bypass = [segs.bypass EXCEPT ![f] = FALSE]
      /\ segs'.pc = segs.pc /\ segs'.dir = segs.dir /\ DOMAIN segs' = DOMAIN segs
  BY <1>1, <1>2 DEF AfterInsert
<1> HIDE DEF s
<1>6. StateHolds(s, "unknown", FALSE) BY DEF StateHolds
<1>7. segs.pc = "run" BY DEF SegInsert
<1> QED BY <1>4, <1>5, <1>6, <1>7, SegsChangeOne

LEMMA SegServeKeeps ==
  ASSUME SegsOK, NEW f \in AudFile, SegServe(f)
  PROVE  GInv'
<1>1. DOMAIN segs = {"pc", "dir", "at", "inserts", "lock", "list", "state", "bypass"} BY DEF SegsOK
<1> DEFINE q == segs.list[f]
           n == Len(q)
           s == SubSeq(q, 1, n - 1)
<1>2. q \in Seq(Nat) BY DEF SegsOK
<1>3. n \in Nat /\ q # <<>> BY <1>2, LenProperties DEF SegServe
<1>4. n - 1 \in 0 .. n
  <2>1. n # 0 BY <1>2, <1>3
  <2> HIDE DEF n
  <2> QED BY <1>3, <2>1
<1>5. s \in Seq(Nat) /\ Len(s) = n - 1 /\ \A i \in 1 .. n - 1 : s[i] = q[i]
  <2>1. PICK S, k : S = Nat /\ k = n - 1 OBVIOUS
  <2>2. q \in Seq(S) /\ k \in 0 .. Len(q) BY <1>2, <1>4, <2>1
  <2>3. SubSeq(q, 1, k) \in Seq(S) /\ Len(SubSeq(q, 1, k)) = k /\ \A i \in 1 .. k : SubSeq(q, 1, k)[i] = q[i]
    BY <2>2, CutIs
  <2> QED BY <2>1, <2>3
<1>6. segs' = [segs EXCEPT !.list[f] = s] BY DEF SegServe, Front
<1> DEFINE L == [segs.list EXCEPT ![f] = s]
<1>7. /\ segs'.list = L /\ segs'.state = segs.state /\ segs'.bypass = segs.bypass
      /\ segs'.pc = segs.pc /\ segs'.dir = segs.dir /\ DOMAIN segs' = DOMAIN segs
  <2> HIDE DEF s
  <2> QED BY <1>1, <1>6
<1>8. /\ segs.list \in [AudFile -> Seq(Nat)] /\ segs.state \in [AudFile -> Dir \cup {"unknown"}]
      /\ segs.bypass \in [AudFile -> BOOLEAN]
      /\ \A g \in AudFile : StateHolds(segs.list[g], segs.state[g], segs.bypass[g])
  BY DEF SegsOK
<1>9. \A dir : Steps(q, dir) => Steps(s, dir)
  <2> SUFFICES ASSUME NEW dir, Steps(q, dir) PROVE Steps(s, dir) OBVIOUS
  <2> HIDE DEF s, n
  <2>1. \A i \in 1 .. n - 1 : Follows(q[i], q[i + 1], dir) BY DEF Steps, n
  <2>2. ASSUME NEW i \in 1 .. (n - 1) - 1 PROVE Follows(s[i], s[i + 1], dir)
    <3>1. i \in 1 .. n - 1 /\ i + 1 \in 1 .. n - 1 BY <1>3
    <3> QED BY <1>5, <2>1, <3>1
  <2> QED BY <1>5, <2>2 DEF Steps
<1> HIDE DEF s, q, n
<1>10. L \in [AudFile -> Seq(Nat)] /\ \A g \in AudFile : L[g] = IF g = f THEN s ELSE segs.list[g] BY <1>5, <1>8
<1> HIDE DEF L
<1>11. ASSUME NEW g \in AudFile PROVE StateHolds(L[g], segs.state[g], segs.bypass[g])
  <2>1. StateHolds(segs.list[g], segs.state[g], segs.bypass[g]) BY <1>8
  <2>2. CASE g = f
    <3>1. L[g] = s /\ segs.list[g] = q BY <1>10, <2>2 DEF q
    <3> QED BY <1>9, <2>1, <3>1, Zenon DEF StateHolds
  <2>3. CASE g # f
    <3>1. L[g] = segs.list[g] BY <1>10, <2>3
    <3> QED BY <2>1, <3>1
  <2> QED BY <2>2, <2>3
<1>12. segs.pc = "run" BY DEF SegServe
<1> QED BY <1>7, <1>8, <1>10, <1>11, <1>12, SegsChange

LEMMA SegLooksKeeps ==
  ASSUME SegsOK, NEW f \in AudFile, SegLooks(f)
  PROVE  GInv'
<1>1. DOMAIN segs = {"pc", "dir", "at", "inserts", "lock", "list", "state", "bypass"} BY DEF SegsOK
<1>2. /\ segs'.list = segs.list /\ segs'.state = segs.state /\ segs'.bypass = segs.bypass
      /\ segs'.pc = segs.pc /\ segs'.dir = segs.dir /\ DOMAIN segs' = DOMAIN segs
  BY <1>1 DEF SegLooks
<1>3. segs.pc = "run" BY DEF SegLooks
<1>4. /\ segs.list \in [AudFile -> Seq(Nat)] /\ segs.state \in [AudFile -> Dir \cup {"unknown"}]
      /\ segs.bypass \in [AudFile -> BOOLEAN]
      /\ \A g \in AudFile : StateHolds(segs.list[g], segs.state[g], segs.bypass[g])
  BY DEF SegsOK
<1> QED BY <1>2, <1>3, <1>4, SegsChange

LEMMA SegSortsKeeps ==
  ASSUME SegsOK, NEW f \in AudFile, SegSorts(f)
  PROVE  GInv'
<1>1. DOMAIN segs = {"pc", "dir", "at", "inserts", "lock", "list", "state", "bypass"} BY DEF SegsOK
<1> DEFINE s == LevelsSorted(segs.list[f], segs.dir)
<1>2. segs' = [segs EXCEPT !.list[f] = s, !.state[f] = segs.dir, !.bypass[f] = FALSE, !.lock[f] = "free",
                           !.at = (f + 1) % (2 * AudLists)]
  BY DEF SegSorts
<1>3. segs.dir \in Dir /\ segs.list[f] \in Seq(Nat) BY DEF SegsOK
<1>4. s \in Seq(Nat) /\ Steps(s, segs.dir) BY <1>3, LevelsSortedIs
<1> HIDE DEF s
<1>5. /\ segs'.list = [segs.list EXCEPT ![f] = s] /\ segs'.state = [segs.state EXCEPT ![f] = segs.dir]
      /\ segs'.bypass = [segs.bypass EXCEPT ![f] = FALSE]
      /\ segs'.pc = segs.pc /\ segs'.dir = segs.dir /\ DOMAIN segs' = DOMAIN segs
  BY <1>1, <1>2
<1>6. StateHolds(s, segs.dir, FALSE) BY <1>4 DEF StateHolds
<1>7. segs.pc = "run" BY DEF SegSorts
<1> QED BY <1>3, <1>4, <1>5, <1>6, <1>7, SegsChangeOne

LEMMA SegSortFilesKeeps ==
  ASSUME SegsOK, NEW dir \in Dir, SegSortFiles(dir)
  PROVE  GInv'
<1>1. DOMAIN segs = {"pc", "dir", "at", "inserts", "lock", "list", "state", "bypass"} BY DEF SegsOK
<1> DEFINE L == [f \in AudFile |-> LevelsSorted(segs.list[f], dir)]
           B == [f \in AudFile |-> TRUE]
<1>2. segs' = [segs EXCEPT !.list = L, !.bypass = B] BY DEF SegSortFiles
<1>3. L \in [AudFile -> Seq(Nat)]
  <2>1. \A f \in AudFile : segs.list[f] \in Seq(Nat) BY DEF SegsOK
  <2>2. \A f \in AudFile : LevelsSorted(segs.list[f], dir) \in Seq(Nat) BY <2>1, LevelsSortedIs
  <2> QED BY <2>2
<1>4. B \in [AudFile -> BOOLEAN] /\ \A f \in AudFile : B[f] BY Zenon
<1> HIDE DEF L, B
<1>5. /\ segs'.list = L /\ segs'.bypass = B /\ segs'.state = segs.state
      /\ segs'.pc = segs.pc /\ segs'.dir = segs.dir /\ DOMAIN segs' = DOMAIN segs
  BY <1>1, <1>2
<1>6. segs.state \in [AudFile -> Dir \cup {"unknown"}] BY DEF SegsOK
<1>7. \A f \in AudFile : StateHolds(L[f], segs.state[f], B[f]) BY <1>4, Zenon DEF StateHolds
<1>8. segs.pc = "run" BY DEF SegSortFiles
<1> QED BY <1>3, <1>4, <1>5, <1>6, <1>7, <1>8, SegsChange

LEMMA SegSortAllKeeps ==
  ASSUME SegsOK, NEW dir \in Dir, SegSortAll(dir)
  PROVE  GInv'
<1>1. DOMAIN segs = {"pc", "dir", "at", "inserts", "lock", "list", "state", "bypass"} BY DEF SegsOK
<1> DEFINE Changed(f) == f \in {0, AudLists} /\ Len(Regrouped(f)) # Len(segs.list[f])
           L == [f \in AudFile |-> IF f \in {0, AudLists} THEN LevelsSorted(Regrouped(f), dir) ELSE <<>>]
           S == [f \in AudFile |-> IF Changed(f) THEN "unknown" ELSE segs.state[f]]
           B == [f \in AudFile |-> f \in {0, AudLists}]
<1>2. segs' = [segs EXCEPT !.list = L, !.state = S, !.bypass = B] BY DEF SegSortAll
<1>3. \A f \in {0, AudLists} : LevelsSorted(Regrouped(f), dir) \in Seq(Nat)
  <2>1. \A f \in {0, AudLists} : Regrouped(f) \in Seq(Nat) BY RegroupedIs
  <2> QED BY <2>1, LevelsSortedIs
<1>4. <<>> \in Seq(Nat) OBVIOUS
<1>5. L \in [AudFile -> Seq(Nat)] BY <1>3, <1>4
<1> HIDE DEF Changed
<1>6. S \in [AudFile -> Dir \cup {"unknown"}] BY DEF SegsOK
<1>7. B \in [AudFile -> BOOLEAN] OBVIOUS
<1>8. \A f \in AudFile : (f \in {0, AudLists} => B[f]) /\ (f \notin {0, AudLists} => L[f] = <<>>) BY Zenon
<1> HIDE DEF L, S, B
<1>9. /\ segs'.list = L /\ segs'.bypass = B /\ segs'.state = S
      /\ segs'.pc = segs.pc /\ segs'.dir = segs.dir /\ DOMAIN segs' = DOMAIN segs
  BY <1>1, <1>2
<1>10. ASSUME NEW f \in AudFile PROVE StateHolds(L[f], S[f], B[f])
  <2>1. CASE f \in {0, AudLists} BY <1>8, <2>1, Zenon DEF StateHolds
  <2>2. CASE f \notin {0, AudLists}
    <3>1. \A d : Steps(<<>>, d) BY DEF Steps
    <3> QED BY <1>8, <2>2, <3>1, Zenon DEF StateHolds
  <2> QED BY <2>1, <2>2
<1>11. segs.pc = "run" BY DEF SegSortAll
<1> QED BY <1>5, <1>6, <1>7, <1>9, <1>10, <1>11, SegsChange

LEMMA SegResetCheckedKeeps ==
  ASSUME SegsOK, SegResetChecked
  PROVE  GInv'
<1>1. DOMAIN segs = {"pc", "dir", "at", "inserts", "lock", "list", "state", "bypass"} BY DEF SegsOK
<1> DEFINE Checked(f) == segs.list[f + AudLists]
           Bypass(f) == IF f < AudLists /\ Checked(f) # <<>> THEN TRUE ELSE segs.bypass[f]
           L == [f \in AudFile |-> IF f < AudLists THEN segs.list[f] \o Checked(f) ELSE <<>>]
           B == [f \in AudFile |-> Bypass(f)]
<1>2. segs' = [segs EXCEPT !.list = L, !.bypass = B] BY DEF SegResetChecked
<1>3. AudLists \in Nat \ {0} BY AudAssumption
<1>4. ASSUME NEW f \in AudFile, f < AudLists PROVE Checked(f) \in Seq(Nat) /\ segs.list[f] \o Checked(f) \in Seq(Nat)
  <2>1. f + AudLists \in AudFile BY <1>3, <1>4 DEF AudFile
  <2>2. Checked(f) \in Seq(Nat) /\ segs.list[f] \in Seq(Nat) BY <2>1 DEF SegsOK
  <2> QED BY <2>2, ConcatProperties
<1>5. <<>> \in Seq(Nat) OBVIOUS
<1>6. L \in [AudFile -> Seq(Nat)] BY <1>4, <1>5
<1>7. \A f \in AudFile : segs.bypass[f] \in BOOLEAN BY DEF SegsOK
<1>8. \A f \in AudFile : Bypass(f) \in BOOLEAN BY <1>7, Zenon
<1>9. B \in [AudFile -> BOOLEAN]
  <2> HIDE DEF Bypass
  <2> QED BY <1>8, Zenon
<1>10. \A f \in AudFile : B[f] = Bypass(f) /\ L[f] = IF f < AudLists THEN segs.list[f] \o Checked(f) ELSE <<>> BY Zenon
<1>11. ASSUME NEW f \in AudFile PROVE StateHolds(L[f], segs.state[f], B[f])
  <2>1. CASE f < AudLists /\ Checked(f) # <<>>
    <3>1. Bypass(f) BY <2>1, Zenon
    <3> HIDE DEF Bypass, L, B
    <3> QED BY <1>10, <3>1, Zenon DEF StateHolds
  <2>2. CASE f < AudLists /\ Checked(f) = <<>>
    <3>1. segs.list[f] \in Seq(Nat) BY DEF SegsOK
    <3>2. segs.list[f] \o Checked(f) = segs.list[f]
      <4> HIDE DEF Checked
      <4> QED BY <2>2, <3>1, ConcatEmptySeq
    <3>3. Bypass(f) = segs.bypass[f] BY <2>2, Zenon
    <3>4. L[f] = segs.list[f] BY <1>10, <2>2, <3>2
    <3>5. B[f] = segs.bypass[f] BY <1>10, <3>3
    <3>6. StateHolds(segs.list[f], segs.state[f], segs.bypass[f]) BY DEF SegsOK
    <3> HIDE DEF L, B
    <3> QED BY <3>4, <3>5, <3>6
  <2>3. CASE ~ (f < AudLists)
    <3>1. \A d : Steps(<<>>, d) BY DEF Steps
    <3>2. L[f] = <<>> BY <1>10, <2>3
    <3> HIDE DEF L, B
    <3> QED BY <3>1, <3>2, Zenon DEF StateHolds
  <2> QED BY <2>1, <2>2, <2>3
<1> HIDE DEF L, B
<1>12. /\ segs'.list = L /\ segs'.bypass = B /\ segs'.state = segs.state
       /\ segs'.pc = segs.pc /\ segs'.dir = segs.dir /\ DOMAIN segs' = DOMAIN segs
  BY <1>1, <1>2
<1>13. segs.state \in [AudFile -> Dir \cup {"unknown"}] /\ segs.pc = "run" BY DEF SegsOK, SegResetChecked
<1> QED BY <1>6, <1>9, <1>11, <1>12, <1>13, SegsChange

-----------------------------------------------------------------------------
SortInv == SInv /\ GInv

LEMMA SortInvInit ==
  ASSUME AudInit
  PROVE  SortInv
<1>1. segs.pc \in {"idle", "run"} /\ (segs.pc = "run" => SegsOK)
  <2>1. CASE segs = NotAsked BY <2>1 DEF NotAsked
  <2>2. CASE segs # NotAsked
    <3>1. PICK dir \in {"asc", "desc"} :
            segs = [pc |-> "run", dir |-> dir, at |-> 0, inserts |-> 0, lock |-> [f \in AudFile |-> "free"],
                    list |-> [f \in AudFile |-> <<>>], state |-> [f \in AudFile |-> "unknown"],
                    bypass |-> [f \in AudFile |-> FALSE]]
      BY <2>2 DEF AudInit
    <3>2. /\ segs.list = [f \in AudFile |-> <<>>] /\ segs.state = [f \in AudFile |-> "unknown"]
          /\ segs.bypass = [f \in AudFile |-> FALSE] /\ segs.dir \in Dir
          /\ DOMAIN segs = {"pc", "dir", "at", "inserts", "lock", "list", "state", "bypass"} /\ segs.pc = "run"
      BY <3>1 DEF Dir
    <3>3. segs.list \in [AudFile -> Seq(Nat)] BY <3>2
    <3>4. segs.state \in [AudFile -> Dir \cup {"unknown"}] /\ \A f \in AudFile : segs.state[f] = "unknown" BY <3>2
    <3>5. segs.bypass \in [AudFile -> BOOLEAN] BY <3>2
    <3>6. \A f \in AudFile : StateHolds(segs.list[f], segs.state[f], segs.bypass[f]) BY <3>4, Zenon DEF StateHolds
    <3> QED BY <3>2, <3>3, <3>4, <3>5, <3>6 DEF SegsOK
  <2> QED BY <2>1, <2>2
<1>2. SInv
  <2>1. CASE srt = NotAsked BY <2>1 DEF NotAsked, SInv
  <2>2. CASE srt # NotAsked
    <3>1. PICK n \in 0 .. MaxLength : \E levels \in [1 .. n -> AudLevel], desc \in BOOLEAN : srt = SortStarts(levels, desc)
      BY <2>2 DEF AudInit
    <3>2. PICK levels \in [1 .. n -> AudLevel], desc \in BOOLEAN : srt = SortStarts(levels, desc) BY <3>1
    <3>3. n \in Nat BY AudAssumption
    <3>4. Len(levels) = n BY <3>3
    <3> DEFINE s == [i \in 1 .. n |-> i]
               lair == [l \in AudLevel |-> 0]
    <3>5. srt = [pc |-> IF levels = <<>> THEN "end" ELSE "sort", desc |-> desc, level |-> levels,
                 list |-> s, lair |-> lair, at |-> 1]
      BY <3>2, <3>4 DEF SortStarts
    <3>6. /\ srt.pc = (IF levels = <<>> THEN "end" ELSE "sort") /\ srt.desc = desc /\ srt.level = levels
          /\ srt.list = s /\ srt.lair = lair /\ srt.at = 1
          /\ DOMAIN srt = {"pc", "desc", "level", "list", "lair", "at"}
      <4> HIDE DEF s, lair
      <4> QED BY <3>5
    <3>7. NbElements = n /\ Element = 1 .. n BY <3>4, <3>6 DEF NbElements, Element
    <3>8. PermutationOK
      <4>1. s \in [Element -> Element] /\ \A i, j \in Element : s[i] = s[j] => i = j BY <3>7
      <4> HIDE DEF s
      <4> QED BY <3>3, <3>6, <3>7, <4>1 DEF PermutationOK
    <3>9. CASE levels = <<>>
      <4>1. n = 0 BY <3>3, <3>4, <3>9
      <4>2. srt.pc = "end" BY <3>6, <3>9
      <4>3. Len(srt.list) = 0 /\ ToSet(srt.list) = {} BY <3>6, <4>1 DEF ToSet
      <4>4. ASSUME NEW x, Len(x) = 0, NEW dir \in Dir PROVE InOrder(x, dir)
        <5>1. Len(Reverse(x)) = 0 BY <4>4 DEF Reverse
        <5> QED BY <4>4, <5>1 DEF InOrder, Ascending
      <4> DEFINE x == [i \in 1 .. Len(srt.list) |-> srt.level[srt.list[i]]]
                 dir == IF srt.desc THEN "desc" ELSE "asc"
      <4>5. Len(x) = 0 BY <4>3
      <4>6. dir \in Dir BY DEF Dir
      <4> HIDE DEF x, dir
      <4>7. InOrder(x, dir) BY <4>4, <4>5, <4>6
      <4>8. 1 .. Len(srt.level) = {} /\ Len(srt.level) = 0 BY <3>4, <3>6, <4>1
      <4>9. ListSorted BY <4>3, <4>7, <4>8 DEF ListSorted, x, dir
      <4> QED BY <4>2, <4>9 DEF SInv
    <3>10. CASE levels # <<>>
      <4>1. n # 0 BY <3>3, <3>4, <3>10
      <4>2. srt.pc = "sort" BY <3>6, <3>10
      <4>3. srt.at \in Element BY <3>3, <3>6, <3>7, <4>1
      <4>4. LairOK(srt.lair)
        <5>1. lair \in [AudLevel -> 0 .. NbElements] /\ \A l \in AudLevel : lair[l] = 0 BY <3>3, <3>7
        <5> QED BY <3>6, <5>1 DEF LairOK
      <4>5. WalkOK BY <3>6, <4>3, <4>4 DEF WalkOK
      <4> QED BY <3>8, <4>2, <4>5 DEF SInv
    <3> QED BY <3>9, <3>10
  <2> QED BY <2>1, <2>2
<1> QED BY <1>1, <1>2 DEF SortInv, GInv

LEMMA SortInvSame ==
  /\ SInv /\ UNCHANGED srt => SInv'
  /\ GInv /\ UNCHANGED segs => GInv'
<1>1. ASSUME SInv, UNCHANGED srt PROVE SInv'
  BY <1>1 DEF SInv, PermutationOK, WalkOK, LairOK, ListSorted, Before, NbElements, Element, LevelOf
<1>2. ASSUME GInv, UNCHANGED segs PROVE GInv'
  BY <1>2 DEF GInv, SegsOK, StateHolds, Steps, Follows
<1> QED BY <1>1, <1>2

LEMMA SortInvNext ==
  ASSUME SortInv, [AudNext]_audVars
  PROVE  SortInv'
<1> USE DEF SortInv
<1>1. CASE UNCHANGED audVars BY <1>1, SortInvSame DEF audVars
<1>2. CASE DupStep
  BY <1>2, SortInvSame DEF DupStep, DuplicateStarts, SpawnDuplicate, AdvanceStart, SpawnEnds, JoinDuplicate
<1>3. CASE \E t \in AudThread : check_duplicate_thread(t) BY <1>3, SortInvSame DEF check_duplicate_thread
<1>4. CASE OriStep BY <1>4, SortInvSame DEF OriStep, CollectOrigins, OriginEnds
<1>5. CASE \E t \in OriThread : OriginLooks(t) \/ OriginMarks(t) BY <1>5, SortInvSame DEF OriginLooks, OriginMarks
<1>6. CASE sort_one_file
  <2>1. srt.pc = "sort" /\ segs' = segs BY <1>6 DEF sort_one_file
  <2>2. PermutationOK /\ WalkOK BY <2>1 DEF SInv
  <2>3. SInv' BY <1>6, <2>1, <2>2, SortOneFileKeeps
  <2> QED BY <2>1, <2>3, SortInvSame
<1>7. CASE SegStep
  <2>1. srt' = srt /\ segs.pc = "run"
    BY Zenon, <1>7 DEF SegStep, SegInsert, SegServe, SegLooks, SegSorts, SegSortFiles, SegSortAll, SegResetChecked
  <2>2. SegsOK BY <2>1 DEF GInv
  <2>3. ASSUME NEW f \in AudFile, SegInsert(f) \/ SegServe(f) \/ SegLooks(f) \/ SegSorts(f) PROVE GInv'
    BY <2>2, <2>3, SegInsertKeeps, SegServeKeeps, SegLooksKeeps, SegSortsKeeps
  <2>4. ASSUME NEW dir \in Dir, SegSortFiles(dir) \/ SegSortAll(dir) PROVE GInv'
    BY <2>2, <2>4, SegSortFilesKeeps, SegSortAllKeeps
  <2>5. ASSUME SegResetChecked PROVE GInv' BY <2>2, <2>5, SegResetCheckedKeeps
  <2>6. GInv' BY <1>7, <2>3, <2>4, <2>5 DEF SegStep, Dir
  <2> QED BY <2>1, <2>6, SortInvSame, Zenon
<1> QED BY <1>1, <1>2, <1>3, <1>4, <1>5, <1>6, <1>7 DEF AudNext

\* The sorts of the lists (sort_one_file_ascending and _descending, sort_files_bounded,
\* datamanager.c:1763): the walk that moves elements leaves a list of any length in order
\* and loses none, and a list that sort_state says is in order is, unless a command
\* reordered it without a word.
THEOREM SortsAreRemembered == AudSpec => []SortRemembered
<1>1. SortInv => SortRemembered
  <2>1. SInv => ListSorted BY DEF SInv, ListSorted
  <2>2. ASSUME GInv, segs.pc = "run", NEW f \in AudFile, segs.state[f] # "unknown", ~ segs.bypass[f]
        PROVE  InOrder(segs.list[f], segs.state[f])
    <3>1. SegsOK BY <2>2 DEF GInv
    <3>2. segs.list[f] \in Seq(Nat) /\ segs.state[f] \in Dir BY <2>2, <3>1 DEF SegsOK
    <3>3. Steps(segs.list[f], segs.state[f])
      <4>1. StateHolds(segs.list[f], segs.state[f], segs.bypass[f]) BY <3>1 DEF SegsOK
      <4> QED BY <2>2, <4>1, Zenon DEF StateHolds
    <3> QED BY <3>2, <3>3, InOrderIs
  <2>3. GInv => SortStateTrue BY <2>2, Zenon DEF SortStateTrue
  <2> QED BY <2>1, <2>3 DEF SortInv, SortRemembered
<1>2. AudInit => SortInv BY SortInvInit
<1>3. SortInv /\ [AudNext]_audVars => SortInv' BY SortInvNext
<1> QED BY <1>1, <1>2, <1>3, PTL DEF AudSpec
=============================================================================
