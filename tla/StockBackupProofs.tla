------------------------- MODULE StockBackupProofs -------------------------
(***************************************************************************)
(* What a consistent backup publishes is what the pools held at one         *)
(* instant, for every number of files, of possibilities and of backups.     *)
(*                                                                         *)
(* A pool is written while its lock is held and may change as soon as it is *)
(* released.  The invariant says, for each place of the backup, which locks *)
(* it still holds, and that what is already in the .tmp files, together     *)
(* with what the pools still locked hold, is the image of the instant.  The *)
(* other threads are dealt with at once: whatever they do, they leave alone *)
(* what a lock of the backup covers, and the disk can only get shorter      *)
(* while the tier is frozen.                                                *)
(***************************************************************************)
EXTENDS StockBackup, SequenceTheorems, TLAPS

AnalysedLock(f) == lock[<<"analysed", f>>]
StockLock(f) == lock[<<"stock", f>>]

\* The locks the backup holds, place by place.
LocksOK ==
    /\ bpc = "lockAnalysed" => \A f \in 1..(next - 1) : AnalysedLock(f) = "backup"
    /\ bpc \in {"lockStock", "freeze", "snapshot", "manifest"} =>
           \A f \in File : AnalysedLock(f) = "backup"
    /\ bpc = "writeAnalysed" => \A f \in next..NF : AnalysedLock(f) = "backup"
    /\ bpc = "lockStock" => \A f \in 1..(next - 1) : StockLock(f) = "backup"
    /\ bpc \in {"freeze", "snapshot", "manifest", "writeAnalysed"} =>
           \A f \in File : StockLock(f) = "backup"
    /\ bpc = "writeStock" => \A f \in next..NF : StockLock(f) = "backup"
    /\ bpc \in {"snapshot", "manifest", "writeAnalysed", "writeStock", "writeTier"} =>
           lock[TierMutex] = "backup"
    /\ bpc \notin {"lockAnalysed", "lockStock", "writeAnalysed", "writeStock"} => next = 1

\* The spill thread touches the tier with its mutex, and what it reads is on disk.
MoverOK ==
    /\ mpc \in {"tier", "push"} => lock[TierMutex] = "mover"
    /\ mpc = "refill" => read # <<>>
    /\ mpc \in {"refill", "commit"} => from <= Len(disk)

\* p is the beginning of s.
Begins(p, s) == Len(p) <= Len(s) /\ \A i \in 1..Len(p) : p[i] = s[i]

\* What the .tmp files and the pools still locked hold, place by place.
ImageOK ==
    /\ bpc \in {"idle", "open", "lockAnalysed", "lockStock", "freeze", "snapshot",
                "manifest", "sidecar"} => tmp.a = {} /\ tmp.s = {}
    /\ bpc = "manifest" => Begins(disk, tmp.d)
    /\ bpc = "writeAnalysed" =>
           /\ tmp.s = {}
           /\ \A b \in Board : b \in hist[begun].a <=>
                  (b \in tmp.a \/ \E f \in next..NF : b \in analysed[f])
           /\ \A b \in Board : b \in hist[begun].s <=>
                  (b \in tier \/ \E f \in File : b \in list[f])
    /\ bpc = "writeStock" =>
           \A b \in Board : b \in hist[begun].s <=>
               (b \in tmp.s \/ b \in tier \/ \E f \in next..NF : b \in list[f])
    /\ bpc = "writeTier" =>
           \A b \in Board : b \in hist[begun].s <=> (b \in tmp.s \/ b \in tier)
    /\ bpc \in {"writeStock", "writeTier", "embed", "renameAnalysed", "renameStock"} =>
           tmp.a = hist[begun].a
    /\ bpc \in {"writeAnalysed", "writeStock", "writeTier", "embed", "renameAnalysed",
                "renameStock"} => tmp.d = hist[begun].d
    /\ bpc = "embed" => kind = "complete" /\ tmp.s = hist[begun].s
    /\ bpc \in {"renameAnalysed", "renameStock"} =>
           tmp.s = hist[begun].s \cup
                      (IF kind = "complete" THEN SeqRange(hist[begun].d) ELSE {})

\* The published files are older than the backup in progress.
OrderOK ==
    /\ bpc # "idle" => begun > 0
    /\ pub.aId <= begun /\ pub.sId <= begun
    /\ bpc \notin {"idle", "renameStock", "sidecar"} => pub.aId < begun
    /\ bpc \notin {"idle", "sidecar"} => pub.sId < begun
    /\ kind = "complete" => pub.d = <<>>
    /\ kind = "auto" /\ bpc \in {"writeAnalysed", "writeStock", "writeTier",
                                 "renameAnalysed", "renameStock"} =>
           pub.d = hist[begun].d /\ pub.dId = begun

BInv == StockTypeOK /\ LocksOK /\ MoverOK /\ ImageOK /\ OrderOK /\ PublishedIsInstant

LEMMA InitBInv == Init => BInv
<1> SUFFICES ASSUME Init PROVE BInv
  OBVIOUS
<1> USE StockAssumption DEF Init, NoImage
<1>1. StockTypeOK
  BY DEF StockTypeOK, File, Lock, Thread, Image
<1>2. LocksOK /\ MoverOK /\ ImageOK /\ OrderOK
  BY DEF LocksOK, MoverOK, ImageOK, OrderOK
<1>3. PublishedIsInstant
  BY DEF PublishedIsInstant
<1> QED
  BY <1>1, <1>2, <1>3 DEF BInv

-----------------------------------------------------------------------------
(* The other threads.                                                      *)

\* What a step of the clients, of server_step or of the spill thread leaves alone.
Elsewhere ==
    /\ UNCHANGED <<backupVars, maint>>
    /\ \A f \in File : StockLock(f) = "backup" => list'[f] = list[f]
    /\ \A f \in File : AnalysedLock(f) = "backup" => analysed'[f] = analysed[f]
    /\ \A f \in File : StockLock(f)' = StockLock(f) /\ AnalysedLock(f)' = AnalysedLock(f)
    /\ lock[TierMutex] = "backup" =>
           lock'[TierMutex] = "backup" /\ tier' = tier /\ Begins(disk', disk)

LEMMA LockKinds ==
    /\ TierMutex \in Lock
    /\ \A f \in File : /\ <<"stock", f>> \in Lock /\ <<"analysed", f>> \in Lock
                       /\ <<"stock", f>> # TierMutex /\ <<"analysed", f>> # TierMutex
                       /\ \A g \in File : <<"stock", f>> # <<"analysed", g>>
                       /\ \A g \in File : <<"stock", f>> = <<"stock", g>> => f = g
                       /\ \A g \in File : <<"analysed", f>> = <<"analysed", g>> => f = g
BY DEF Lock, TierMutex

LEMMA BeginsSame ==
    ASSUME NEW s \in Seq(Board)
    PROVE  Begins(s, s)
BY DEF Begins

\* A list or an analysed file is touched only when its lock is free.
LEMMA ListTouched ==
    ASSUME BInv, NEW f \in File, StockFree(f),
           \/ UNCHANGED list
           \/ \E new \in SUBSET Board : list' = [list EXCEPT ![f] = new],
           analysed' = analysed, lock' = lock, UNCHANGED <<backupVars, maint>>,
           lock[TierMutex] = "backup" => tier' = tier /\ disk' = disk
    PROVE  Elsewhere
<1>1. \A g \in File : StockLock(g) = "backup" => list'[g] = list[g]
  BY DEF BInv, StockTypeOK, StockFree, Free, StockLock
<1>2. lock[TierMutex] = "backup" => Begins(disk', disk)
  BY BeginsSame DEF BInv, StockTypeOK
<1> QED
  BY <1>1, <1>2 DEF Elsewhere, StockLock, AnalysedLock

LEMMA AnalysedTouched ==
    ASSUME BInv, NEW f \in File, AnalysedFree(f),
           \E new \in SUBSET Board : analysed' = [analysed EXCEPT ![f] = new],
           UNCHANGED <<list, tier, disk, lock, backupVars, maint>>
    PROVE  Elsewhere
<1>1. \A g \in File : AnalysedLock(g) = "backup" => analysed'[g] = analysed[g]
  BY DEF BInv, StockTypeOK, AnalysedFree, Free, AnalysedLock
<1>2. lock[TierMutex] = "backup" => Begins(disk', disk)
  BY BeginsSame DEF BInv, StockTypeOK
<1> QED
  BY <1>1, <1>2 DEF Elsewhere, StockLock, AnalysedLock

LEMMA NothingTouched ==
    ASSUME BInv, UNCHANGED <<list, analysed, tier, disk, lock, backupVars, maint>>
    PROVE  Elsewhere
<1>1. lock[TierMutex] = "backup" => Begins(disk', disk)
  BY BeginsSame DEF BInv, StockTypeOK
<1> QED
  BY <1>1 DEF Elsewhere, StockLock, AnalysedLock

LEMMA ClientStep ==
    ASSUME BInv, Client \/ ServerStep
    PROVE  StockTypeOK' /\ MoverOK' /\ Elsewhere
<1> USE DEF moverVars, backupVars
<1>0. StockTypeOK /\ MoverOK
  BY DEF BInv
<1>1. ASSUME NEW f \in File, NEW b \in Board, GetTake(f, b)
      PROVE  StockTypeOK' /\ MoverOK' /\ Elsewhere
  <2>1. (list[f] \ {b}) \in SUBSET Board
    BY <1>1, <1>0 DEF GetTake, StockTypeOK, Thread
  <2>2. StockTypeOK' /\ MoverOK'
    BY <1>1, <1>0, <2>1 DEF GetTake, StockTypeOK, MoverOK, Thread
  <2>3. Elsewhere
    BY <1>1, <2>1, ListTouched DEF GetTake
  <2> QED
    BY <2>2, <2>3
<1>2. ASSUME NEW f \in File, NEW b \in Board, Add(f, b)
      PROVE  StockTypeOK' /\ MoverOK' /\ Elsewhere
  <2>1. (list[f] \cup {b}) \in SUBSET Board
    BY <1>2, <1>0 DEF Add, StockTypeOK, Thread
  <2>2. StockTypeOK' /\ MoverOK'
    BY <1>2, <1>0, <2>1 DEF Add, StockTypeOK, MoverOK, Thread
  <2>3. Elsewhere
    BY <1>2, <2>1, ListTouched DEF Add
  <2> QED
    BY <2>2, <2>3
<1>3. ASSUME NEW f \in File, NEW b \in Board, Ack(f, b)
      PROVE  StockTypeOK' /\ MoverOK' /\ Elsewhere
  <2>1. (analysed[f] \ {b}) \in SUBSET Board
    BY <1>3, <1>0 DEF Ack, StockTypeOK, Thread
  <2>2. StockTypeOK' /\ MoverOK'
    BY <1>3, <1>0, <2>1 DEF Ack, StockTypeOK, MoverOK, Thread
  <2>3. Elsewhere
    BY <1>3, <2>1, AnalysedTouched DEF Ack
  <2> QED
    BY <2>2, <2>3
<1>4. ASSUME NEW f \in File, GetRecord(f)
      PROVE  StockTypeOK' /\ MoverOK' /\ Elsewhere
  <2>1. (analysed[f] \cup {hand["get"]}) \in SUBSET Board
    BY <1>4, <1>0 DEF GetRecord, StockTypeOK, Thread
  <2>2. StockTypeOK' /\ MoverOK'
    BY <1>4, <1>0, <2>1 DEF GetRecord, StockTypeOK, MoverOK, Thread
  <2>3. Elsewhere
    BY <1>4, <2>1, AnalysedTouched DEF GetRecord
  <2> QED
    BY <2>2, <2>3
<1>5. ASSUME NEW f \in File, GetGivesUp(f)
      PROVE  StockTypeOK' /\ MoverOK' /\ Elsewhere
  <2>1. CASE \E g \in File : /\ StockFree(g)
                             /\ list' = [list EXCEPT ![g] = @ \cup {hand["get"]}]
                             /\ UNCHANGED aside
    <3>1. PICK g \in File : /\ StockFree(g)
                            /\ list' = [list EXCEPT ![g] = @ \cup {hand["get"]}]
                            /\ UNCHANGED aside
      BY <2>1
    <3>2. (list[g] \cup {hand["get"]}) \in SUBSET Board
      BY <1>5, <1>0 DEF GetGivesUp, StockTypeOK, Thread
    <3>3. StockTypeOK' /\ MoverOK'
      BY <1>5, <1>0, <3>1, <3>2 DEF GetGivesUp, StockTypeOK, MoverOK, Thread
    <3>4. Elsewhere
      BY <1>5, <3>1, <3>2, ListTouched DEF GetGivesUp
    <3> QED
      BY <3>3, <3>4
  <2>2. CASE aside' = aside \cup {hand["get"]} /\ UNCHANGED list
    <3>1. StockTypeOK' /\ MoverOK'
      BY <1>5, <1>0, <2>2 DEF GetGivesUp, StockTypeOK, MoverOK, Thread
    <3>2. Elsewhere
      BY <1>5, <2>2, NothingTouched DEF GetGivesUp
    <3> QED
      BY <3>1, <3>2
  <2> QED
    BY <1>5, <2>1, <2>2 DEF GetGivesUp
<1>6. ASSUME NEW f \in File, NEW b \in Board, Reclaim(f, b)
      PROVE  StockTypeOK' /\ MoverOK' /\ Elsewhere
  <2>1. (analysed[f] \ {b}) \in SUBSET Board
    BY <1>6, <1>0 DEF Reclaim, StockTypeOK, Thread
  <2>2. StockTypeOK' /\ MoverOK'
    BY <1>6, <1>0, <2>1 DEF Reclaim, StockTypeOK, MoverOK, Thread
  <2>3. Elsewhere
    BY <1>6, <2>1, AnalysedTouched DEF Reclaim
  <2> QED
    BY <2>2, <2>3
<1>7. ASSUME NEW f \in File, NEW b \in Board, Rebalance(f, b)
      PROVE  StockTypeOK' /\ MoverOK' /\ Elsewhere
  <2>1. (list[f] \ {b}) \in SUBSET Board
    BY <1>7, <1>0 DEF Rebalance, StockTypeOK, Thread
  <2>2. StockTypeOK' /\ MoverOK'
    BY <1>7, <1>0, <2>1 DEF Rebalance, StockTypeOK, MoverOK, Thread
  <2>3. Elsewhere
    BY <1>7, <2>1, ListTouched DEF Rebalance
  <2> QED
    BY <2>2, <2>3
<1>8. ASSUME NEW f \in File, PutBack(f)
      PROVE  StockTypeOK' /\ MoverOK' /\ Elsewhere
  <2>1. (list[f] \cup {hand["server"]}) \in SUBSET Board
    BY <1>8, <1>0 DEF PutBack, StockTypeOK, Thread
  <2>2. StockTypeOK' /\ MoverOK'
    BY <1>8, <1>0, <2>1 DEF PutBack, StockTypeOK, MoverOK, Thread
  <2>3. Elsewhere
    BY <1>8, <2>1, ListTouched DEF PutBack
  <2> QED
    BY <2>2, <2>3
<1> QED
  BY <1>1, <1>2, <1>3, <1>4, <1>5, <1>6, <1>7, <1>8 DEF Client, ServerStep

LEMMA MoverStep ==
    ASSUME BInv, Mover
    PROVE  StockTypeOK' /\ MoverOK' /\ Elsewhere
<1> USE LockKinds
    DEF BInv, StockTypeOK, MoverOK, Elsewhere, MoverAlone, poolVars, moverVars,
        clientVars, backupVars, StockFree, Free, StockLock, AnalysedLock, Begins
<1>1. CASE StepBegins \/ TierEmpty \/ NothingRead \/ StepEnds
  BY <1>1 DEF StepBegins, TierEmpty, NothingRead, StepEnds
<1>2. CASE TierLock
  BY <1>2 DEF TierLock
<1>3. CASE EvictPush
  BY <1>3 DEF EvictPush
<1>4. CASE EvictFails
  BY <1>4 DEF EvictFails
<1>5. CASE TierUnlock
  BY <1>5 DEF TierUnlock
<1>6. CASE ReloadRead
  <2>1. PICK k \in 0..(Len(disk) - 1) :
            from' = k /\ read' = SubSeq(disk, k + 1, Len(disk))
    BY <1>6 DEF ReloadRead
  <2>2. \A i \in (k + 1)..Len(disk) : disk[i] \in Board
    BY <2>1
  <2>3. SubSeq(disk, k + 1, Len(disk)) \in Seq(Board)
        /\ Len(SubSeq(disk, k + 1, Len(disk))) = Len(disk) - k
    <3> HIDE DEF StockTypeOK
    <3>1. k + 1 \in Int /\ Len(disk) \in Int /\ k + 1 <= Len(disk)
      BY <2>1 DEF StockTypeOK
    <3> QED
      BY <2>2, <3>1, SubSeqProperties
  <2>4. read' \in Seq(Board) /\ read' # <<>>
    <3>1. read' \in Seq(Board) /\ Len(read') = Len(disk) - k
      BY <2>1, <2>3
    <3> HIDE DEF BInv, StockTypeOK, MoverOK, Elsewhere
    <3>a. Len(disk) \in Nat
      BY DEF BInv, StockTypeOK
    <3>b. k \in Nat /\ k < Len(disk)
      BY <3>a
    <3>2. Len(read') # 0
      BY <3>1, <3>a, <3>b
    <3> QED
      BY <3>1, <3>2
  <2> QED
    BY <1>6, <2>1, <2>4 DEF ReloadRead
<1>7. CASE ReloadCommit
  <2>1. mpc = "commit" /\ from \in 0..Len(disk) /\ disk' = SubSeq(disk, 1, from)
    BY <1>7 DEF ReloadCommit
  <2>2. /\ disk' \in Seq(Board) /\ Len(disk') = from
        /\ \A i \in 1..from : disk'[i] = disk[i]
    BY <2>1, SubSeqProperties
  <2> QED
    BY <1>7, <2>1, <2>2 DEF ReloadCommit
<1>8. ASSUME NEW b \in Board, TierToDisk(b)
      PROVE  StockTypeOK' /\ MoverOK' /\ Elsewhere
  BY <1>8, AppendProperties DEF TierToDisk
<1>9. ASSUME NEW f \in File, GiveBack(f)
      PROVE  StockTypeOK' /\ MoverOK' /\ Elsewhere
  <2>1. StockTypeOK' /\ MoverOK'
    BY <1>9 DEF GiveBack
  <2>2. (list[f] \cup block) \in SUBSET Board
    OBVIOUS
  <2>3. Elsewhere
    BY <1>9, <2>2, ListTouched DEF GiveBack
  <2> QED
    BY <2>1, <2>3
<1>10. ASSUME NEW f \in File, ReloadRefill(f)
       PROVE  StockTypeOK' /\ MoverOK' /\ Elsewhere
  <2>1. mpc = "refill" /\ read # <<>> /\ read' = Tail(read)
    BY <1>10 DEF ReloadRefill
  <2>2. /\ Head(read) \in Board /\ read' \in Seq(Board)
        /\ Len(read') = Len(read) - 1
    BY <2>1, HeadTailProperties
  <2>3. mpc' = "refill" => read' # <<>>
    <3>1. SUFFICES ASSUME mpc' = "refill", read' = <<>> PROVE FALSE
      OBVIOUS
    <3>2. Len(read) # 1
      BY <1>10, <3>1 DEF ReloadRefill
    <3>3. Len(read') = 0
      BY <3>1
    <3> QED
      BY <2>2, <3>2, <3>3
  <2>4. (list[f] \cup {Head(read)}) \in SUBSET Board
    BY <2>2
  <2>5. StockTypeOK' /\ MoverOK'
    BY <1>10, <2>1, <2>2, <2>3, <2>4 DEF ReloadRefill
  <2>6. Elsewhere
    BY <1>10, <2>4, ListTouched DEF ReloadRefill
  <2> QED
    BY <2>5, <2>6
<1>11. ASSUME NEW f \in File, NEW b \in Board, EvictDrain(f, b)
       PROVE  StockTypeOK' /\ MoverOK' /\ Elsewhere
  BY <1>11 DEF EvictDrain
<1>12. ASSUME NEW f \in File, NEW b \in Board, TierReload(f, b)
       PROVE  StockTypeOK' /\ MoverOK' /\ Elsewhere
  BY <1>12 DEF TierReload
<1>13. CASE GiveBackLoses
  BY <1>13 DEF GiveBackLoses
<1> QED
  BY <1>1, <1>2, <1>3, <1>4, <1>5, <1>6, <1>7, <1>8, <1>9, <1>10, <1>11, <1>12, <1>13
     DEF Mover

\* A step of the others keeps the backup's part of the invariant.
LEMMA ElsewhereKeeps ==
    ASSUME BInv, StockTypeOK', MoverOK', Elsewhere
    PROVE  BInv'
<1> USE DEF Elsewhere, backupVars
<1>1. LocksOK'
  <2>1. next \in File /\ LocksOK /\ bpc' = bpc /\ next' = next
    BY DEF BInv, StockTypeOK
  <2>2. \A f \in File : /\ StockLock(f)' = StockLock(f)
                        /\ AnalysedLock(f)' = AnalysedLock(f)
    OBVIOUS
  <2>3. lock[TierMutex] = "backup" => lock'[TierMutex] = "backup"
    OBVIOUS
  <2>4. \A f \in 1..(next - 1) : f \in File
    BY <2>1, StockAssumption DEF File
  <2>5. \A f \in next..NF : f \in File
    BY <2>1, StockAssumption DEF File
  <2> QED
    BY <2>1, <2>2, <2>3, <2>4, <2>5 DEF LocksOK
<1>2. ImageOK'
  <2>0. UNCHANGED <<bpc, next, tmp, kind, pub, begun, hist>> /\ ImageOK
    BY DEF BInv
  <2>1. \A f \in next..NF : f \in File
    BY StockAssumption DEF BInv, StockTypeOK, File
  <2>2. bpc = "manifest" => Begins(disk', tmp.d)
    <3>1. SUFFICES ASSUME bpc = "manifest" PROVE Begins(disk', tmp.d)
      OBVIOUS
    <3>2. Begins(disk', disk)
      BY <3>1 DEF BInv, LocksOK
    <3>3. Begins(disk, tmp.d)
      BY <3>1, <2>0 DEF ImageOK
    <3>4. disk \in Seq(Board) /\ disk' \in Seq(Board) /\ tmp.d \in Seq(Board)
      BY DEF BInv, StockTypeOK, Image
    <3> QED
      BY <3>2, <3>3, <3>4 DEF Begins
  <2>3. bpc \in {"writeAnalysed", "writeStock", "writeTier"} => tier' = tier
    BY DEF BInv, LocksOK
  <2>4. bpc = "writeAnalysed" => /\ \A f \in next..NF : analysed'[f] = analysed[f]
                                /\ \A f \in File : list'[f] = list[f]
    BY <2>1 DEF BInv, LocksOK
  <2>5. bpc = "writeStock" => \A f \in next..NF : list'[f] = list[f]
    BY <2>1 DEF BInv, LocksOK
  <2> HIDE DEF Elsewhere
  <2> QED
    BY <2>0, <2>2, <2>3, <2>4, <2>5 DEF ImageOK
<1>3. OrderOK' /\ PublishedIsInstant'
  BY DEF BInv, OrderOK, PublishedIsInstant, SeqRange
<1> QED
  BY <1>1, <1>2, <1>3 DEF BInv

-----------------------------------------------------------------------------
(* The backup.                                                             *)

LEMMA OpensKeeps == ASSUME BInv, BackupOpens PROVE BInv'
<1> USE DEF BackupOpens, poolVars, clientVars, moverVars
<1>1. StockTypeOK'
  BY StockAssumption DEF BInv, StockTypeOK
<1>2. LocksOK' /\ MoverOK'
  BY DEF BInv, LocksOK, MoverOK, StockLock, AnalysedLock
<1>3. ImageOK' /\ OrderOK'
  BY DEF BInv, StockTypeOK, ImageOK, OrderOK
<1>4. PublishedIsInstant'
  BY DEF BInv, PublishedIsInstant, SeqRange
<1> QED
  BY <1>1, <1>2, <1>3, <1>4 DEF BInv

LEMMA EntersKeeps == ASSUME BInv, BackupEnters PROVE BInv'
<1> USE DEF BackupEnters, BackupAlone, poolVars, clientVars, moverVars
<1>1. StockTypeOK'
  BY DEF BInv, StockTypeOK
<1>2. LocksOK' /\ MoverOK'
  BY DEF BInv, LocksOK, MoverOK, StockLock, AnalysedLock
<1>3. ImageOK' /\ OrderOK'
  BY DEF BInv, ImageOK, OrderOK
<1>4. PublishedIsInstant'
  BY DEF BInv, PublishedIsInstant, SeqRange
<1> QED
  BY <1>1, <1>2, <1>3, <1>4 DEF BInv

LEMMA LockAnalysedKeeps ==
    ASSUME BInv, LockNext("analysed", "lockAnalysed", "lockStock") PROVE BInv'
<1> USE StockAssumption, LockKinds
    DEF LockNext, BackupAlone, poolVars, clientVars, moverVars, Free
<1>0. /\ next \in File /\ lock \in [Lock -> {"free", "backup", "mover"}]
      /\ <<"analysed", next>> \in Lock
  BY DEF BInv, StockTypeOK
<1>a. /\ next < NF => next' = next + 1 /\ bpc' = "lockAnalysed"
      /\ ~(next < NF) => next' = 1 /\ bpc' = "lockStock"
  BY DEF Loop
<1>b. /\ lock'[<<"analysed", next>>] = "backup" /\ lock'[TierMutex] = lock[TierMutex]
      /\ \A f \in File : f # next => AnalysedLock(f)' = AnalysedLock(f)
      /\ \A f \in File : StockLock(f)' = StockLock(f)
  <2>1. \A l \in Lock : lock'[l] = IF l = <<"analysed", next>> THEN "backup" ELSE lock[l]
    BY <1>0
  <2> QED
    BY <1>0, <2>1 DEF StockLock, AnalysedLock
<1>c. /\ \A f \in File : f = next => AnalysedLock(f)' = "backup"
      /\ \A f \in 1..next : f < next \/ f = next
      /\ next \in Nat \ {0} /\ next <= NF
  BY <1>0, <1>b DEF AnalysedLock, File
<1>1. StockTypeOK'
  <2>1. lock' \in [Lock -> {"free", "backup", "mover"}]
    BY <1>0
  <2>2. next' \in File /\ bpc' \in {"lockAnalysed", "lockStock"}
    BY <1>0, <1>a DEF File
  <2> QED
    BY <2>1, <2>2 DEF BInv, StockTypeOK
<1>2. LocksOK'
  <2>1. CASE next < NF
    BY <2>1, <1>0, <1>a, <1>b, <1>c DEF BInv, LocksOK, File
  <2>2. CASE next = NF
    BY <2>2, <1>0, <1>a, <1>b, <1>c DEF BInv, LocksOK, File
  <2> QED
    BY <2>1, <2>2, <1>0 DEF File
<1>3. MoverOK'
  BY <1>b DEF BInv, StockTypeOK, MoverOK
<1>4. ImageOK' /\ OrderOK'
  BY <1>a DEF BInv, ImageOK, OrderOK
<1>5. PublishedIsInstant'
  BY DEF BInv, PublishedIsInstant, SeqRange
<1> QED
  BY <1>1, <1>2, <1>3, <1>4, <1>5 DEF BInv

LEMMA LockStockKeeps ==
    ASSUME BInv, LockNext("stock", "lockStock", "freeze") PROVE BInv'
<1> USE StockAssumption, LockKinds
    DEF LockNext, BackupAlone, poolVars, clientVars, moverVars, Free
<1>0. /\ next \in File /\ lock \in [Lock -> {"free", "backup", "mover"}]
      /\ <<"stock", next>> \in Lock
  BY DEF BInv, StockTypeOK
<1>a. /\ next < NF => next' = next + 1 /\ bpc' = "lockStock"
      /\ ~(next < NF) => next' = 1 /\ bpc' = "freeze"
  BY DEF Loop
<1>b. /\ lock'[<<"stock", next>>] = "backup" /\ lock'[TierMutex] = lock[TierMutex]
      /\ \A f \in File : f # next => StockLock(f)' = StockLock(f)
      /\ \A f \in File : AnalysedLock(f)' = AnalysedLock(f)
  <2>1. \A l \in Lock : lock'[l] = IF l = <<"stock", next>> THEN "backup" ELSE lock[l]
    BY <1>0
  <2> QED
    BY <1>0, <2>1 DEF StockLock, AnalysedLock
<1>c. /\ \A f \in File : f = next => StockLock(f)' = "backup"
      /\ \A f \in 1..next : f < next \/ f = next
      /\ next \in Nat \ {0} /\ next <= NF
  BY <1>0, <1>b DEF StockLock, File
<1>1. StockTypeOK'
  <2>1. lock' \in [Lock -> {"free", "backup", "mover"}]
    BY <1>0
  <2>2. next' \in File /\ bpc' \in {"lockStock", "freeze"}
    BY <1>0, <1>a DEF File
  <2> QED
    BY <2>1, <2>2 DEF BInv, StockTypeOK
<1>2. LocksOK'
  <2>1. CASE next < NF
    BY <2>1, <1>0, <1>a, <1>b, <1>c DEF BInv, LocksOK, File
  <2>2. CASE next = NF
    BY <2>2, <1>0, <1>a, <1>b, <1>c DEF BInv, LocksOK, File
  <2> QED
    BY <2>1, <2>2, <1>0 DEF File
<1>3. MoverOK'
  BY <1>b DEF BInv, StockTypeOK, MoverOK
<1>4. ImageOK' /\ OrderOK'
  BY <1>a DEF BInv, ImageOK, OrderOK
<1>5. PublishedIsInstant'
  BY DEF BInv, PublishedIsInstant, SeqRange
<1> QED
  BY <1>1, <1>2, <1>3, <1>4, <1>5 DEF BInv

LEMMA FreezeKeeps == ASSUME BInv, Freeze PROVE BInv'
<1> USE LockKinds DEF Freeze, BackupAlone, poolVars, clientVars, moverVars, Free
<1>1. StockTypeOK'
  BY DEF BInv, StockTypeOK
<1>2. LocksOK'
  BY DEF BInv, StockTypeOK, LocksOK, StockLock, AnalysedLock
<1>3. MoverOK'
  BY DEF BInv, StockTypeOK, MoverOK
<1>4. ImageOK' /\ OrderOK'
  BY DEF BInv, ImageOK, OrderOK
<1>5. PublishedIsInstant'
  BY DEF BInv, PublishedIsInstant, SeqRange
<1> QED
  BY <1>1, <1>2, <1>3, <1>4, <1>5 DEF BInv

LEMMA SnapshotKeeps == ASSUME BInv, Snapshot PROVE BInv'
<1> USE DEF Snapshot, BackupAlone, poolVars, clientVars, moverVars
<1>1. StockTypeOK'
  BY DEF BInv, StockTypeOK, Image
<1>2. LocksOK' /\ MoverOK'
  BY DEF BInv, LocksOK, MoverOK, StockLock, AnalysedLock
<1>3. ImageOK'
  <2>1. tmp'.a = {} /\ tmp'.s = {} /\ tmp'.d = disk
    BY DEF BInv, StockTypeOK, Image, ImageOK
  <2>2. Begins(disk', tmp'.d)
    BY <2>1, BeginsSame DEF BInv, StockTypeOK
  <2> QED
    BY <2>1, <2>2 DEF ImageOK
<1>4. OrderOK'
  BY DEF BInv, OrderOK
<1>5. PublishedIsInstant'
  BY DEF BInv, PublishedIsInstant, SeqRange
<1> QED
  BY <1>1, <1>2, <1>3, <1>4, <1>5 DEF BInv

LEMMA ManifestKeeps == ASSUME BInv, Manifest PROVE BInv'
<1> USE DEF BackupAlone, poolVars, clientVars, moverVars
<1> DEFINE kept == SubSeq(tmp.d, 1, Len(disk))
           now == [a |-> Analysed, s |-> Listed \cup tier, d |-> disk]
<1>1. /\ bpc = "manifest" /\ bpc' = "writeAnalysed" /\ next' = 1
      /\ hist' = [hist EXCEPT ![begun] = now]
      /\ tmp' = [tmp EXCEPT !.d = kept]
      /\ pub' = IF kind = "auto" THEN [pub EXCEPT !.d = kept, !.dId = begun] ELSE pub
      /\ UNCHANGED <<BackupAlone, lock, maint>>
  BY DEF Manifest, BInv, LocksOK
<1>2. tmp \in Image /\ disk \in Seq(Board) /\ tmp.d \in Seq(Board)
  BY DEF BInv, StockTypeOK, Image
<1>3. kept = disk
  <2>1. Len(disk) <= Len(tmp.d) /\ \A i \in 1..Len(disk) : disk[i] = tmp.d[i]
    BY <1>1 DEF BInv, ImageOK, Begins
  <2>2. \A i \in 1..Len(disk) : tmp.d[i] \in Board
    BY <2>1, <1>2
  <2>3. Len(disk) \in Nat
    BY <1>2
  <2>4. /\ kept \in Seq(Board) /\ Len(kept) = Len(disk)
        /\ \A i \in 1..Len(disk) : kept[i] = tmp.d[i]
    BY <2>2, <2>3, SubSeqProperties
  <2> HIDE DEF kept
  <2> QED
    BY <1>2, <2>1, <2>4, SeqEqual
<1> HIDE DEF kept
<1>4. begun \in 1..MaxBackups
  BY <1>1, StockAssumption DEF BInv, StockTypeOK, OrderOK
<1>5. /\ Analysed \subseteq Board /\ Listed \subseteq Board
      /\ \A b : b \in Analysed <=> \E f \in File : b \in analysed[f]
      /\ \A b : b \in Listed <=> \E f \in File : b \in list[f]
  BY DEF BInv, StockTypeOK, Analysed, Listed
<1>6. now \in Image
  BY <1>2, <1>5 DEF Image, BInv, StockTypeOK
<1>7. /\ hist' \in [1..MaxBackups -> Image] /\ hist'[begun] = now
      /\ \A n \in 1..MaxBackups : n # begun => hist'[n] = hist[n]
  BY <1>1, <1>4, <1>6 DEF BInv, StockTypeOK
<1>8. /\ tmp' \in Image /\ tmp'.a = tmp.a /\ tmp'.s = tmp.s /\ tmp'.d = disk
  BY <1>1, <1>2, <1>3 DEF Image
<1>9. tmp.a = {} /\ tmp.s = {}
  BY <1>1 DEF BInv, ImageOK
<1>10. /\ pub'.a = pub.a /\ pub'.s = pub.s /\ pub'.aId = pub.aId /\ pub'.sId = pub.sId
       /\ kind = "auto" => pub'.d = disk /\ pub'.dId = begun
       /\ kind # "auto" => pub' = pub
  BY <1>1, <1>3 DEF BInv, StockTypeOK
<1>11. StockTypeOK'
  <2>1. pub' \in [a : SUBSET Board, s : SUBSET Board, d : Seq(Board), aId : 0..MaxBackups,
                  sId : 0..MaxBackups, dId : 0..MaxBackups, named : 0..MaxBackups]
    BY <1>1, <1>2, <1>3 DEF BInv, StockTypeOK
  <2>2. next' \in File /\ bpc' = "writeAnalysed"
    BY <1>1, StockAssumption DEF File
  <2> QED
    BY <1>1, <1>7, <1>8, <2>1, <2>2 DEF BInv, StockTypeOK
<1>12. LocksOK' /\ MoverOK'
  BY <1>1 DEF BInv, LocksOK, MoverOK, StockLock, AnalysedLock, File
<1>13. ImageOK'
  BY <1>1, <1>5, <1>7, <1>8, <1>9 DEF ImageOK, File
<1>14. OrderOK'
  BY <1>1, <1>7, <1>10 DEF BInv, StockTypeOK, OrderOK
<1>15. PublishedIsInstant'
  <2>1. pub.aId \in Nat /\ pub.sId \in Nat /\ pub.aId < begun /\ pub.sId < begun
        /\ pub.aId <= MaxBackups /\ pub.sId <= MaxBackups
    BY <1>1, StockAssumption DEF BInv, StockTypeOK, OrderOK
  <2>2. pub.aId > 0 => hist'[pub.aId] = hist[pub.aId]
    BY <1>4, <1>7, <2>1, StockAssumption
  <2>3. pub.sId > 0 => hist'[pub.sId] = hist[pub.sId]
    BY <1>4, <1>7, <2>1, StockAssumption
  <2>4. kind' = kind
    BY <1>1
  <2>5. kind = "auto" => pub'.dId # pub'.sId
    BY <1>4, <1>10, <2>1
  <2> QED
    BY <1>10, <2>2, <2>3, <2>4, <2>5 DEF BInv, PublishedIsInstant, SeqRange
<1> QED
  BY <1>11, <1>12, <1>13, <1>14, <1>15 DEF BInv

LEMMA WriteAnalysedKeeps == ASSUME BInv, WriteAnalysed PROVE BInv'
<1> USE StockAssumption, LockKinds
    DEF WriteAnalysed, BackupAlone, poolVars, clientVars, moverVars
<1>0. /\ next \in File /\ lock \in [Lock -> {"free", "backup", "mover"}]
      /\ <<"analysed", next>> \in Lock
      /\ next \in Nat \ {0} /\ next <= NF
  <2>1. next \in File /\ lock \in [Lock -> {"free", "backup", "mover"}]
    BY DEF BInv, StockTypeOK
  <2>2. next \in Nat \ {0} /\ next <= NF
    BY <2>1 DEF File
  <2> QED
    BY <2>1, <2>2
<1>a. /\ next < NF => next' = next + 1 /\ bpc' = "writeAnalysed"
      /\ next = NF => next' = 1 /\ bpc' = "writeStock"
      /\ bpc = "writeAnalysed"
  BY <1>0 DEF Loop
<1>b. /\ lock'[TierMutex] = lock[TierMutex]
      /\ \A f \in File : f # next => AnalysedLock(f)' = AnalysedLock(f)
      /\ \A f \in File : StockLock(f)' = StockLock(f)
  <2>1. \A l \in Lock : lock'[l] = IF l = <<"analysed", next>> THEN "free" ELSE lock[l]
    BY <1>0
  <2> QED
    BY <1>0, <2>1 DEF StockLock, AnalysedLock
<1>c. /\ tmp' \in Image /\ tmp'.a = tmp.a \cup analysed[next] /\ tmp'.d = tmp.d
      /\ tmp'.s = tmp.s
  BY <1>0 DEF BInv, StockTypeOK, Image
<1>1. StockTypeOK'
  <2>1. lock' \in [Lock -> {"free", "backup", "mover"}]
    BY <1>0
  <2>2. next' \in File /\ bpc' \in {"writeAnalysed", "writeStock"}
    BY <1>0, <1>a DEF File
  <2> QED
    BY <2>1, <2>2, <1>c DEF BInv, StockTypeOK
<1>2. LocksOK'
  <2>1. CASE next < NF
    BY <2>1, <1>0, <1>a, <1>b DEF BInv, LocksOK, File
  <2>2. CASE next = NF
    BY <2>2, <1>0, <1>a, <1>b DEF BInv, LocksOK, File
  <2> QED
    BY <2>1, <2>2, <1>0
<1>3. MoverOK'
  BY <1>b DEF BInv, MoverOK
<1>4. begun \in 1..MaxBackups /\ hist[begun] \in Image
  BY <1>a DEF BInv, StockTypeOK, OrderOK
<1>5. ImageOK'
  <2>0. UNCHANGED <<list, analysed, tier, disk, hist, begun, kind>>
    OBVIOUS
  <2>1. CASE next < NF
    <3>1. bpc' = "writeAnalysed" /\ next' = next + 1
      BY <2>1, <1>a
    <3>2. \A f : f \in next..NF <=> f = next \/ f \in (next + 1)..NF
      BY <2>1, <1>0
    <3> QED
      BY <3>1, <3>2, <2>0, <1>0, <1>a, <1>c DEF BInv, ImageOK
  <2>2. CASE next = NF
    <3>1. bpc' = "writeStock" /\ next' = 1
      BY <2>2, <1>a
    <3>2. \A f : f \in next..NF <=> f = next
      BY <2>2, <1>0
    <3>3. tmp'.a = hist[begun].a
      BY <3>2, <1>a, <1>c, <1>4 DEF BInv, StockTypeOK, Image, ImageOK
    <3> QED
      BY <3>1, <3>2, <3>3, <2>0, <1>0, <1>a, <1>c DEF BInv, ImageOK, File
  <2> QED
    BY <2>1, <2>2, <1>0
<1>6. OrderOK'
  BY <1>0, <1>a DEF BInv, OrderOK
<1>7. PublishedIsInstant'
  BY DEF BInv, PublishedIsInstant, SeqRange
<1> QED
  BY <1>1, <1>2, <1>3, <1>5, <1>6, <1>7 DEF BInv

LEMMA WriteStockKeeps == ASSUME BInv, WriteStock PROVE BInv'
<1> USE StockAssumption, LockKinds
    DEF WriteStock, BackupAlone, poolVars, clientVars, moverVars
<1>0. /\ next \in File /\ lock \in [Lock -> {"free", "backup", "mover"}]
      /\ <<"stock", next>> \in Lock
      /\ next \in Nat \ {0} /\ next <= NF
  <2>1. next \in File /\ lock \in [Lock -> {"free", "backup", "mover"}]
    BY DEF BInv, StockTypeOK
  <2>2. next \in Nat \ {0} /\ next <= NF
    BY <2>1 DEF File
  <2> QED
    BY <2>1, <2>2
<1>a. /\ next < NF => next' = next + 1 /\ bpc' = "writeStock"
      /\ next = NF => next' = 1 /\ bpc' = "writeTier"
      /\ bpc = "writeStock"
  BY <1>0 DEF Loop
<1>b. /\ lock'[TierMutex] = lock[TierMutex]
      /\ \A f \in File : f # next => StockLock(f)' = StockLock(f)
      /\ \A f \in File : AnalysedLock(f)' = AnalysedLock(f)
  <2>1. \A l \in Lock : lock'[l] = IF l = <<"stock", next>> THEN "free" ELSE lock[l]
    BY <1>0
  <2> QED
    BY <1>0, <2>1 DEF StockLock, AnalysedLock
<1>c. /\ tmp' \in Image /\ tmp'.s = tmp.s \cup list[next] /\ tmp'.d = tmp.d
      /\ tmp'.a = tmp.a
  BY <1>0 DEF BInv, StockTypeOK, Image
<1>1. StockTypeOK'
  <2>1. lock' \in [Lock -> {"free", "backup", "mover"}]
    BY <1>0
  <2>2. next' \in File /\ bpc' \in {"writeStock", "writeTier"}
    BY <1>0, <1>a DEF File
  <2> QED
    BY <2>1, <2>2, <1>c DEF BInv, StockTypeOK
<1>2. LocksOK'
  <2>1. CASE next < NF
    BY <2>1, <1>0, <1>a, <1>b DEF BInv, LocksOK, File
  <2>2. CASE next = NF
    BY <2>2, <1>0, <1>a, <1>b DEF BInv, LocksOK, File
  <2> QED
    BY <2>1, <2>2, <1>0
<1>3. MoverOK'
  BY <1>b DEF BInv, MoverOK
<1>4. begun \in 1..MaxBackups /\ hist[begun] \in Image
  BY <1>a DEF BInv, StockTypeOK, OrderOK
<1>5. ImageOK'
  <2>0. UNCHANGED <<list, analysed, tier, disk, hist, begun, kind>>
    OBVIOUS
  <2>1. CASE next < NF
    <3>1. bpc' = "writeStock" /\ next' = next + 1
      BY <2>1, <1>a
    <3>2. \A f : f \in next..NF <=> f = next \/ f \in (next + 1)..NF
      BY <2>1, <1>0
    <3> QED
      BY <3>1, <3>2, <2>0, <1>0, <1>a, <1>c DEF BInv, ImageOK
  <2>2. CASE next = NF
    <3>1. bpc' = "writeTier" /\ next' = 1
      BY <2>2, <1>a
    <3>2. \A f : f \in next..NF <=> f = next
      BY <2>2, <1>0
    <3>3. tmp'.a = hist[begun].a
      BY <3>2, <1>a, <1>c, <1>4 DEF BInv, StockTypeOK, Image, ImageOK
    <3> QED
      BY <3>1, <3>2, <3>3, <2>0, <1>0, <1>a, <1>c DEF BInv, ImageOK, File
  <2> QED
    BY <2>1, <2>2, <1>0
<1>6. OrderOK'
  BY <1>0, <1>a DEF BInv, OrderOK
<1>7. PublishedIsInstant'
  BY DEF BInv, PublishedIsInstant, SeqRange
<1> QED
  BY <1>1, <1>2, <1>3, <1>5, <1>6, <1>7 DEF BInv

LEMMA WriteTierKeeps == ASSUME BInv, WriteTier PROVE BInv'
<1> USE StockAssumption, LockKinds
    DEF WriteTier, BackupAlone, poolVars, clientVars, moverVars
<1>0. /\ bpc = "writeTier" /\ bpc' \in {"embed", "renameAnalysed"}
      /\ bpc' = "embed" <=> kind = "complete"
      /\ begun \in 1..MaxBackups /\ hist[begun] \in Image /\ lock[TierMutex] = "backup"
  BY DEF BInv, StockTypeOK, OrderOK, LocksOK
<1>1. /\ tmp' \in Image /\ tmp'.s = tmp.s \cup tier /\ tmp'.a = tmp.a /\ tmp'.d = tmp.d
  BY DEF BInv, StockTypeOK, Image
<1>2. tmp'.s = hist[begun].s
  BY <1>0, <1>1 DEF BInv, StockTypeOK, ImageOK, Image
<1>3. StockTypeOK'
  <2>1. maint' \in Nat /\ lock' \in [Lock -> {"free", "backup", "mover"}]
    BY DEF BInv, StockTypeOK, Left
  <2> QED
    BY <1>0, <1>1, <2>1 DEF BInv, StockTypeOK
<1>4. LocksOK' /\ MoverOK'
  BY <1>0 DEF BInv, LocksOK, MoverOK
<1>5. ImageOK'
  BY <1>0, <1>1, <1>2 DEF BInv, ImageOK
<1>6. OrderOK'
  BY <1>0 DEF BInv, OrderOK
<1>7. PublishedIsInstant'
  BY DEF BInv, PublishedIsInstant, SeqRange
<1> QED
  BY <1>3, <1>4, <1>5, <1>6, <1>7 DEF BInv

LEMMA EmbedKeeps == ASSUME BInv, Embed PROVE BInv'
<1> USE DEF Embed, BackupAlone, poolVars, clientVars, moverVars
<1>1. SeqRange(tmp.d) \subseteq Board
  BY DEF BInv, StockTypeOK, Image, SeqRange
<1>2. /\ tmp' \in Image /\ tmp'.s = tmp.s \cup SeqRange(tmp.d)
      /\ tmp'.a = tmp.a /\ tmp'.d = tmp.d
  BY <1>1 DEF BInv, StockTypeOK, Image
<1>3. StockTypeOK'
  BY <1>2 DEF BInv, StockTypeOK
<1>4. LocksOK' /\ MoverOK'
  BY DEF BInv, LocksOK, MoverOK
<1>5. ImageOK'
  BY <1>2 DEF BInv, ImageOK
<1>6. OrderOK'
  BY DEF BInv, OrderOK, ImageOK
<1>7. PublishedIsInstant'
  BY DEF BInv, PublishedIsInstant, SeqRange
<1> QED
  BY <1>3, <1>4, <1>5, <1>6, <1>7 DEF BInv

LEMMA RenameAnalysedKeeps == ASSUME BInv, RenameAnalysed PROVE BInv'
<1> USE DEF RenameAnalysed, BackupAlone, poolVars, clientVars, moverVars
<1>0. /\ begun \in 1..MaxBackups /\ tmp.a \subseteq Board /\ tmp.a = hist[begun].a
      /\ pub.sId < begun
  BY StockAssumption DEF BInv, StockTypeOK, Image, OrderOK, ImageOK
<1>1. /\ pub' \in [a : SUBSET Board, s : SUBSET Board, d : Seq(Board), aId : 0..MaxBackups,
                   sId : 0..MaxBackups, dId : 0..MaxBackups, named : 0..MaxBackups]
      /\ pub'.s = pub.s /\ pub'.d = pub.d /\ pub'.sId = pub.sId /\ pub'.dId = pub.dId
      /\ (pub'.a = pub.a /\ pub'.aId = pub.aId) \/ (pub'.a = tmp.a /\ pub'.aId = begun)
  BY <1>0 DEF BInv, StockTypeOK
<1>2. StockTypeOK'
  BY <1>1 DEF BInv, StockTypeOK
<1>3. LocksOK' /\ MoverOK' /\ ImageOK'
  BY DEF BInv, LocksOK, MoverOK, ImageOK, SeqRange
<1>4. OrderOK'
  BY <1>0, <1>1 DEF BInv, OrderOK
<1>5. PublishedIsInstant'
  BY <1>0, <1>1 DEF BInv, PublishedIsInstant, SeqRange
<1> QED
  BY <1>2, <1>3, <1>4, <1>5 DEF BInv

LEMMA RenameStockKeeps == ASSUME BInv, RenameStock PROVE BInv'
<1> USE DEF RenameStock, BackupAlone, poolVars, clientVars, moverVars
<1>0. /\ bpc = "renameStock" /\ bpc' \in {"idle", "sidecar"}
      /\ begun \in 1..MaxBackups /\ tmp.s \subseteq Board /\ pub.sId < begun
      /\ tmp.s = hist[begun].s \cup
                    (IF kind = "complete" THEN SeqRange(hist[begun].d) ELSE {})
      /\ kind \in {"auto", "complete"}
  BY StockAssumption DEF BInv, StockTypeOK, Image, OrderOK, ImageOK
<1>1. /\ pub' \in [a : SUBSET Board, s : SUBSET Board, d : Seq(Board), aId : 0..MaxBackups,
                   sId : 0..MaxBackups, dId : 0..MaxBackups, named : 0..MaxBackups]
      /\ pub'.a = pub.a /\ pub'.d = pub.d /\ pub'.aId = pub.aId /\ pub'.dId = pub.dId
      /\ (pub'.s = pub.s /\ pub'.sId = pub.sId) \/ (pub'.s = tmp.s /\ pub'.sId = begun)
  <2>1. pub' = pub \/ pub' = [pub EXCEPT !.s = tmp.s, !.sId = begun]
    OBVIOUS
  <2>2. /\ begun \in 0..MaxBackups
        /\ pub \in [a : SUBSET Board, s : SUBSET Board, d : Seq(Board), aId : 0..MaxBackups,
                    sId : 0..MaxBackups, dId : 0..MaxBackups, named : 0..MaxBackups]
    BY DEF BInv, StockTypeOK
  <2>3. CASE pub' = pub
    BY <2>2, <2>3
  <2>4. CASE pub' = [pub EXCEPT !.s = tmp.s, !.sId = begun]
    <3> HIDE DEF RenameStock
    <3> QED
      BY <1>0, <2>2, <2>4
  <2> QED
    BY <2>1, <2>3, <2>4
<1>2. tmp' \in Image /\ tmp'.a = {} /\ tmp'.s = {}
  BY DEF Image, NoImage
<1>3. StockTypeOK'
  BY <1>0, <1>1, <1>2 DEF BInv, StockTypeOK
<1>4. LocksOK' /\ MoverOK'
  BY <1>0 DEF BInv, LocksOK, MoverOK
<1>5. ImageOK'
  BY <1>0, <1>2 DEF BInv, ImageOK
<1>6. OrderOK'
  BY <1>0, <1>1 DEF BInv, StockTypeOK, OrderOK
<1>7. PublishedIsInstant'
  <2>1. CASE pub'.s = pub.s /\ pub'.sId = pub.sId
    BY <1>1, <2>1 DEF BInv, PublishedIsInstant, SeqRange
  <2>2. CASE pub'.s = tmp.s /\ pub'.sId = begun
    <3>1. CASE kind = "complete"
      <4>1. pub.d = <<>>
        BY <3>1 DEF BInv, OrderOK
      <4>2. SeqRange(pub.d) = {}
        BY <4>1 DEF SeqRange
      <4>3. pub'.s \cup SeqRange(pub.d) = hist[begun].s \cup SeqRange(hist[begun].d)
        BY <1>0, <2>2, <3>1, <4>2
      <4>4. SeqRange(pub'.d) = SeqRange(pub.d)
        BY <1>1
      <4>5. hist' = hist /\ SeqRange(hist[begun].d)' = SeqRange(hist[begun].d)
        BY DEF SeqRange
      <4>6. pub'.aId > 0 => pub'.a = hist'[pub'.aId].a
        BY <1>1 DEF BInv, PublishedIsInstant
      <4> QED
        BY <1>1, <2>2, <4>3, <4>4, <4>5, <4>6 DEF PublishedIsInstant, SeqRange
    <3>2. CASE kind = "auto"
      <4>1. pub.d = hist[begun].d
        BY <1>0, <3>2 DEF BInv, OrderOK
      <4> QED
        BY <1>0, <1>1, <2>2, <3>2, <4>1 DEF BInv, PublishedIsInstant, SeqRange
    <3> QED
      BY <1>0, <3>1, <3>2
  <2> QED
    BY <1>1, <2>1, <2>2
<1> QED
  BY <1>3, <1>4, <1>5, <1>6, <1>7 DEF BInv

LEMMA SidecarKeeps == ASSUME BInv, WriteSidecar PROVE BInv'
<1> USE DEF WriteSidecar, BackupAlone, poolVars, clientVars, moverVars
<1>1. /\ pub' \in [a : SUBSET Board, s : SUBSET Board, d : Seq(Board), aId : 0..MaxBackups,
                   sId : 0..MaxBackups, dId : 0..MaxBackups, named : 0..MaxBackups]
      /\ pub'.a = pub.a /\ pub'.d = pub.d /\ pub'.aId = pub.aId /\ pub'.dId = pub.dId
      /\ pub'.s = pub.s /\ pub'.sId = pub.sId
  BY ZenonT(40) DEF BInv, StockTypeOK
<1>2. StockTypeOK'
  BY <1>1 DEF BInv, StockTypeOK
<1>3. LocksOK' /\ MoverOK' /\ ImageOK'
  <2>1. LocksOK'
    <3>1. next = 1
      BY DEF BInv, LocksOK
    <3> QED
      BY <3>1 DEF BInv, LocksOK
  <2> QED
    BY <2>1 DEF BInv, MoverOK, ImageOK
<1>4. OrderOK'
  BY <1>1 DEF BInv, OrderOK
<1>5. PublishedIsInstant'
  BY <1>1 DEF BInv, PublishedIsInstant, SeqRange
<1> QED
  BY <1>2, <1>3, <1>4, <1>5 DEF BInv

LEMMA NextBInv == BInv /\ [Next]_vars => BInv'
<1> SUFFICES ASSUME BInv, [Next]_vars PROVE BInv'
  OBVIOUS
<1>1. CASE Client \/ ServerStep
  BY <1>1, ClientStep, ElsewhereKeeps
<1>2. CASE Mover
  BY <1>2, MoverStep, ElsewhereKeeps
<1>3. CASE BackupOpens
  BY <1>3, OpensKeeps
<1>4. CASE BackupGoesOn
  BY <1>4, EntersKeeps, LockAnalysedKeeps, LockStockKeeps, FreezeKeeps, SnapshotKeeps,
     ManifestKeeps, WriteAnalysedKeeps, WriteStockKeeps, WriteTierKeeps, EmbedKeeps,
     RenameAnalysedKeeps, RenameStockKeeps, SidecarKeeps
     DEF BackupGoesOn
<1>5. CASE UNCHANGED vars
  <2>1. UNCHANGED <<list, analysed, tier, disk, lock, backupVars, maint>>
    BY <1>5 DEF vars, poolVars
  <2>2. StockTypeOK' /\ MoverOK'
    BY <1>5 DEF BInv, StockTypeOK, MoverOK, vars, poolVars, clientVars, moverVars,
                backupVars
  <2> QED
    BY <2>1, <2>2, NothingTouched, ElsewhereKeeps
<1> QED
  BY <1>1, <1>2, <1>3, <1>4, <1>5 DEF Next

\* The stock, the tier, the disk, the locks and the published files keep their types in
\* every state: a reload reads and cuts the disk within its bounds.
THEOREM StockTypeCorrect == Spec => []StockTypeOK
<1>1. BInv => StockTypeOK
  BY DEF BInv
<1> QED
  BY <1>1, InitBInv, NextBInv, PTL DEF Spec

\* consistent_backup_impl publishes what the pools held at one instant, for every number
\* of files, possibilities and backups, whatever the clients, server_step and the spill
\* thread do while the pools are written and released one after the other.
THEOREM BackupIsInstant == Spec => []PublishedIsInstant
<1>1. BInv => PublishedIsInstant
  BY DEF BInv
<1> QED
  BY <1>1, InitBInv, NextBInv, PTL DEF Spec

-----------------------------------------------------------------------------
(***************************************************************************)
(* What the pools hold at the instant of a backup is whole: a possibility   *)
(* that remains to be analysed is in one place, and no step of the clients, *)
(* of server_step or of the spill thread drops it or leaves it in two.      *)
(*                                                                         *)
(* The places are those of the instant and those a possibility goes through *)
(* between two critical sections: the hands of a thread, the block drained  *)
(* from a list, the frames read from the disk.  Every step moves a set of   *)
(* possibilities from one place to another (lemma MoveKeeps), brings a new  *)
(* one in, or takes one out for good.                                       *)

Place == ({"list", "analysed"} \X File) \cup ({"hand"} \X Thread)
         \cup {<<"tier", 0>>, <<"block", 0>>, <<"disk", 0>>, <<"read", 0>>}

\* The frames of the disk that a reload has not read: the ones below its start.
Kept == IF mpc \in {"refill", "commit"} THEN from ELSE Len(disk)
OnDisk == {disk[i] : i \in 1..Kept}
OnTheWay == IF mpc = "refill" THEN SeqRange(read) ELSE {}

Holds(p) ==
    CASE p[1] = "list" -> list[p[2]]
      [] p[1] = "analysed" -> analysed[p[2]]
      [] p[1] = "hand" -> {hand[p[2]]} \ {None}
      [] p[1] = "tier" -> tier
      [] p[1] = "block" -> block
      [] p[1] = "disk" -> OnDisk
      [] p[1] = "read" -> OnTheWay

\* A possibility is in one place at a time ...
InOnePlace == \A p, q \in Place : p # q => Holds(p) \cap Holds(q) = {}
\* ... that has existed, and the ones not analysed yet are in a place or set aside.
Accounted ==
    /\ \A p \in Place : Holds(p) \subseteq born
    /\ \A b \in born : b \in done \/ b \in aside \/ \E p \in Place : b \in Holds(p)

\* What the spill thread has in its hands: a block only between the drain and what
\* follows it; no frame twice on the disk or in what was read from it, and what was
\* read is still on the disk.
MoverHolds ==
    /\ mpc \notin {"push", "giveBack"} => block = {}
    /\ \A i, j \in 1..Kept : disk[i] = disk[j] => i = j
    /\ mpc = "refill" => /\ \A i, j \in 1..Len(read) : read[i] = read[j] => i = j
                         /\ SeqRange(read) \subseteq SeqRange(disk)

PInv == InOnePlace /\ Accounted /\ MoverHolds

-----------------------------------------------------------------------------
(* Places.                                                                 *)

ListAt(f) == <<"list", f>>
AnalysedAt(f) == <<"analysed", f>>
HandOf(t) == <<"hand", t>>
TierAt == <<"tier", 0>>
BlockAt == <<"block", 0>>
DiskAt == <<"disk", 0>>
ReadAt == <<"read", 0>>

LEMMA Places ==
    /\ \A f \in File : ListAt(f) \in Place /\ AnalysedAt(f) \in Place
    /\ \A t \in Thread : HandOf(t) \in Place
    /\ TierAt \in Place /\ BlockAt \in Place /\ DiskAt \in Place /\ ReadAt \in Place
    /\ \A p \in Place : \/ \E f \in File : p = ListAt(f) \/ p = AnalysedAt(f)
                        \/ \E t \in Thread : p = HandOf(t)
                        \/ p \in {TierAt, BlockAt, DiskAt, ReadAt}
BY DEF Place, ListAt, AnalysedAt, HandOf, TierAt, BlockAt, DiskAt, ReadAt

LEMMA HoldsAt ==
    /\ \A f : Holds(ListAt(f)) = list[f] /\ Holds(AnalysedAt(f)) = analysed[f]
    /\ \A t : Holds(HandOf(t)) = {hand[t]} \ {None}
    /\ Holds(TierAt) = tier /\ Holds(BlockAt) = block
    /\ Holds(DiskAt) = OnDisk /\ Holds(ReadAt) = OnTheWay
BY DEF Holds, ListAt, AnalysedAt, HandOf, TierAt, BlockAt, DiskAt, ReadAt

LEMMA HoldsThen ==
    /\ \A f : Holds(ListAt(f))' = list'[f] /\ Holds(AnalysedAt(f))' = analysed'[f]
    /\ \A t : Holds(HandOf(t))' = {hand'[t]} \ {None}
    /\ Holds(TierAt)' = tier' /\ Holds(BlockAt)' = block'
    /\ Holds(DiskAt)' = OnDisk' /\ Holds(ReadAt)' = OnTheWay'
BY DEF Holds, ListAt, AnalysedAt, HandOf, TierAt, BlockAt, DiskAt, ReadAt

\* A step touches nothing but the places src and dst ...
Untouched(src, dst) ==
    /\ \A f \in File : ListAt(f) # src /\ ListAt(f) # dst => list'[f] = list[f]
    /\ \A f \in File : AnalysedAt(f) # src /\ AnalysedAt(f) # dst => analysed'[f] = analysed[f]
    /\ \A t \in Thread : HandOf(t) # src /\ HandOf(t) # dst => hand'[t] = hand[t]
    /\ TierAt # src /\ TierAt # dst => tier' = tier
    /\ BlockAt # src /\ BlockAt # dst => block' = block
    /\ DiskAt # src /\ DiskAt # dst => OnDisk' = OnDisk
    /\ ReadAt # src /\ ReadAt # dst => OnTheWay' = OnTheWay

\* ... and moves the possibilities S from the one to the other ...
Moves(src, dst, S) ==
    /\ src \in Place /\ dst \in Place /\ src # dst /\ S \subseteq Holds(src)
    /\ Holds(src)' = Holds(src) \ S /\ Holds(dst)' = Holds(dst) \cup S
    /\ Untouched(src, dst)
    /\ UNCHANGED <<born, done, aside>>

\* ... or takes them out: acknowledged, or set aside ...
Removes(src, S) ==
    /\ src \in Place /\ S \subseteq Holds(src) /\ Holds(src)' = Holds(src) \ S
    /\ Untouched(src, src)
    /\ UNCHANGED born /\ done \subseteq done' /\ aside \subseteq aside'
    /\ S \subseteq done' \cup aside'

\* ... or moves nothing.
MovesNothing ==
    UNCHANGED <<list, analysed, tier, hand, block, OnDisk, OnTheWay, born, done, aside>>

LEMMA Others ==
    ASSUME NEW src, NEW dst, Untouched(src, dst)
    PROVE  \A p \in Place : p # src /\ p # dst => Holds(p)' = Holds(p)
<1> SUFFICES ASSUME NEW p \in Place, p # src, p # dst PROVE Holds(p)' = Holds(p)
  OBVIOUS
<1> USE DEF Untouched
<1>1. ASSUME NEW f \in File, p = ListAt(f) PROVE Holds(p)' = Holds(p)
  BY <1>1, HoldsAt, HoldsThen DEF Holds, ListAt
<1>2. ASSUME NEW f \in File, p = AnalysedAt(f) PROVE Holds(p)' = Holds(p)
  BY <1>2, HoldsAt, HoldsThen DEF Holds, AnalysedAt
<1>3. ASSUME NEW t \in Thread, p = HandOf(t) PROVE Holds(p)' = Holds(p)
  BY <1>3, HoldsAt, HoldsThen DEF Holds, HandOf
<1>4. CASE p \in {TierAt, BlockAt, DiskAt, ReadAt}
  BY <1>4 DEF Holds, TierAt, BlockAt, DiskAt, ReadAt
<1> QED
  BY <1>1, <1>2, <1>3, <1>4, Places

LEMMA MoveKeeps ==
    ASSUME PInv, NEW src, NEW dst, NEW S, Moves(src, dst, S)
    PROVE  InOnePlace' /\ Accounted'
<1>0. Place' = Place
  BY DEF Place, File, Thread
<1>1. \A p \in Place : \A b : b \in Holds(p)' <=>
          \/ p = dst /\ b \in S
          \/ b \in Holds(p) /\ ~(p = src /\ b \in S)
  BY Others DEF Moves
<1>2. InOnePlace'
  <2>1. SUFFICES ASSUME NEW p \in Place, NEW q \in Place, p # q, NEW b,
                        b \in Holds(p)', b \in Holds(q)'
                 PROVE  FALSE
    BY <1>0 DEF InOnePlace
  <2>2. \A r \in Place : b \in Holds(r) /\ b \in Holds(src) => r = src
    BY DEF PInv, InOnePlace, Moves
  <2> QED
    BY <1>1, <2>1, <2>2 DEF PInv, InOnePlace, Moves
<1>3. Accounted'
  <2>1. \A p \in Place : Holds(p)' \subseteq born
    BY <1>1 DEF PInv, Accounted, Moves
  <2>2. ASSUME NEW b \in born PROVE b \in done \/ b \in aside \/ \E p \in Place : b \in Holds(p)'
    BY <1>1 DEF PInv, Accounted, Moves
  <2> QED
    BY <1>0, <2>1, <2>2 DEF Accounted, Moves
<1> QED
  BY <1>2, <1>3

LEMMA RemovalKeeps ==
    ASSUME PInv, NEW src, NEW S, Removes(src, S)
    PROVE  InOnePlace' /\ Accounted'
<1>0. Place' = Place
  BY DEF Place, File, Thread
<1>1. \A p \in Place : \A b : b \in Holds(p)' <=> b \in Holds(p) /\ ~(p = src /\ b \in S)
  BY Others DEF Removes
<1>2. InOnePlace'
  BY <1>0, <1>1 DEF PInv, InOnePlace
<1>3. Accounted'
  <2>1. \A p \in Place : Holds(p)' \subseteq born
    BY <1>1 DEF PInv, Accounted
  <2>2. ASSUME NEW b \in born
        PROVE b \in done' \/ b \in aside' \/ \E p \in Place : b \in Holds(p)'
    BY <1>1 DEF PInv, Accounted, Removes
  <2> QED
    BY <1>0, <2>1, <2>2 DEF Accounted, Removes
<1> QED
  BY <1>2, <1>3

LEMMA NothingKeeps ==
    ASSUME PInv, MovesNothing
    PROVE  InOnePlace' /\ Accounted'
<1>0. Place' = Place
  BY DEF Place, File, Thread
<1>1. Untouched(TierAt, TierAt) /\ tier' = tier
  BY DEF MovesNothing, Untouched
<1>2. \A p \in Place : Holds(p)' = Holds(p)
  BY <1>1, Others, HoldsAt, HoldsThen
<1> QED
  BY <1>0, <1>2 DEF PInv, InOnePlace, Accounted, MovesNothing

-----------------------------------------------------------------------------
(* The clients and server_step.                                            *)

\* The disk, the block and what was read are the business of the spill thread.
LEMMA MoverHoldsKept ==
    ASSUME MoverHolds, UNCHANGED <<disk, mpc, block, read, from>>
    PROVE  MoverHolds' /\ OnDisk' = OnDisk /\ OnTheWay' = OnTheWay
<1>1. Kept' = Kept
  BY DEF Kept
<1> QED
  BY <1>1 DEF MoverHolds, OnDisk, OnTheWay, SeqRange

LEMMA ClientPlaces == ASSUME BInv, PInv, Client \/ ServerStep PROVE PInv'
<1> USE DEF moverVars
<1>0. StockTypeOK /\ MoverHolds /\ Accounted
  BY DEF BInv, PInv
<1>0a. \A b \in Board : b # None
  BY StockAssumption
<1>0b. /\ \A f, g \in File : /\ ListAt(f) = ListAt(g) <=> f = g
                             /\ AnalysedAt(f) = AnalysedAt(g) <=> f = g
                             /\ ListAt(f) # AnalysedAt(g)
       /\ \A f \in File, t \in Thread : ListAt(f) # HandOf(t) /\ AnalysedAt(f) # HandOf(t)
       /\ \A s, t \in Thread : HandOf(s) = HandOf(t) <=> s = t
       /\ "get" \in Thread /\ "server" \in Thread
  BY DEF ListAt, AnalysedAt, HandOf, Thread
<1>0c. \A f \in File : list[f] \subseteq Board /\ analysed[f] \subseteq Board
  BY <1>0 DEF StockTypeOK
<1>1. ASSUME NEW f \in File, NEW b \in Board, GetTake(f, b) PROVE PInv'
  <2>1. MoverHolds' /\ OnDisk' = OnDisk /\ OnTheWay' = OnTheWay
    BY <1>0, <1>1, MoverHoldsKept DEF GetTake
  <2>2. /\ \A g \in File : list'[g] = IF g = f THEN list[g] \ {b} ELSE list[g]
        /\ \A t \in Thread : hand'[t] = IF t = "get" THEN b ELSE hand[t]
    BY <1>0, <1>1 DEF GetTake, StockTypeOK
  <2>3. Untouched(ListAt(f), HandOf("get"))
    BY <1>0b, <1>1, <2>1, <2>2 DEF Untouched, GetTake
  <2>4. /\ Holds(ListAt(f))' = Holds(ListAt(f)) \ {b} /\ b \in Holds(ListAt(f))
        /\ Holds(HandOf("get"))' = Holds(HandOf("get")) \cup {b}
    BY <1>0a, <1>0b, <1>1, <2>2, HoldsAt, HoldsThen DEF GetTake
  <2>5. Moves(ListAt(f), HandOf("get"), {b})
    BY <1>0b, <1>1, <2>3, <2>4, Places DEF Moves, GetTake
  <2>6. InOnePlace' /\ Accounted'
    BY <2>5, MoveKeeps
  <2> QED
    BY <2>1, <2>6 DEF PInv
<1>2. ASSUME NEW f \in File, GetRecord(f) PROVE PInv'
  <2> DEFINE b == hand["get"]
  <2>1. MoverHolds' /\ OnDisk' = OnDisk /\ OnTheWay' = OnTheWay
    BY <1>0, <1>2, MoverHoldsKept DEF GetRecord
  <2>2. /\ \A g \in File : analysed'[g] = IF g = f THEN analysed[g] \cup {b} ELSE analysed[g]
        /\ \A t \in Thread : hand'[t] = IF t = "get" THEN None ELSE hand[t]
    BY <1>0, <1>2 DEF GetRecord, StockTypeOK
  <2>3. Untouched(HandOf("get"), AnalysedAt(f))
    BY <1>0b, <1>2, <2>1, <2>2 DEF Untouched, GetRecord
  <2>4. /\ Holds(HandOf("get"))' = Holds(HandOf("get")) \ {b} /\ b \in Holds(HandOf("get"))
        /\ Holds(AnalysedAt(f))' = Holds(AnalysedAt(f)) \cup {b}
    BY <1>0b, <1>2, <2>2, HoldsAt, HoldsThen DEF GetRecord
  <2>5. Moves(HandOf("get"), AnalysedAt(f), {b})
    BY <1>0b, <1>2, <2>3, <2>4, Places DEF Moves, GetRecord
  <2>6. InOnePlace' /\ Accounted'
    BY <2>5, MoveKeeps
  <2> QED
    BY <2>1, <2>6 DEF PInv
<1>3. ASSUME NEW f \in File, GetGivesUp(f) PROVE PInv'
  <2> DEFINE b == hand["get"]
  <2>1. MoverHolds' /\ OnDisk' = OnDisk /\ OnTheWay' = OnTheWay
    BY <1>0, <1>3, MoverHoldsKept DEF GetGivesUp
  <2>2. \A t \in Thread : hand'[t] = IF t = "get" THEN None ELSE hand[t]
    BY <1>0, <1>3 DEF GetGivesUp, StockTypeOK
  <2>3. Holds(HandOf("get"))' = Holds(HandOf("get")) \ {b} /\ b \in Holds(HandOf("get"))
    BY <1>0b, <1>3, <2>2, HoldsAt, HoldsThen DEF GetGivesUp
  <2>4. ASSUME NEW g \in File, list' = [list EXCEPT ![g] = @ \cup {b}], UNCHANGED aside
        PROVE  InOnePlace' /\ Accounted'
    <3>1. \A h \in File : list'[h] = IF h = g THEN list[h] \cup {b} ELSE list[h]
      BY <1>0, <2>4 DEF StockTypeOK
    <3>2. Untouched(HandOf("get"), ListAt(g))
      BY <1>0b, <1>3, <2>1, <2>2, <3>1 DEF Untouched, GetGivesUp
    <3>3. Holds(ListAt(g))' = Holds(ListAt(g)) \cup {b}
      BY <3>1, HoldsAt, HoldsThen
    <3>4. Moves(HandOf("get"), ListAt(g), {b})
      BY <1>0b, <1>3, <2>3, <2>4, <3>2, <3>3, Places DEF Moves, GetGivesUp
    <3> QED
      BY <3>4, MoveKeeps
  <2>5. ASSUME aside' = aside \cup {b}, UNCHANGED list
        PROVE  InOnePlace' /\ Accounted'
    <3>1. Untouched(HandOf("get"), HandOf("get"))
      BY <1>0b, <1>3, <2>1, <2>2, <2>5 DEF Untouched, GetGivesUp
    <3>4. Removes(HandOf("get"), {b})
      BY <1>0b, <1>3, <2>3, <2>5, <3>1, Places DEF Removes, GetGivesUp
    <3> QED
      BY <3>4, RemovalKeeps
  <2> QED
    BY <1>3, <2>1, <2>4, <2>5 DEF PInv, GetGivesUp
<1>4. ASSUME NEW f \in File, NEW b \in Board, Add(f, b) PROVE PInv'
  <2>1. MoverHolds' /\ OnDisk' = OnDisk /\ OnTheWay' = OnTheWay
    BY <1>0, <1>4, MoverHoldsKept DEF Add
  <2>2. \A g \in File : list'[g] = IF g = f THEN list[g] \cup {b} ELSE list[g]
    BY <1>0, <1>4 DEF Add, StockTypeOK
  <2>3. Untouched(ListAt(f), ListAt(f))
    BY <1>0b, <1>4, <2>1, <2>2 DEF Untouched, Add
  <2>4. Holds(ListAt(f))' = Holds(ListAt(f)) \cup {b} /\ ListAt(f) \in Place
    BY <2>2, HoldsAt, HoldsThen, Places
  <2>5. \A p \in Place : \A c : c \in Holds(p)' <=> c \in Holds(p) \/ (p = ListAt(f) /\ c = b)
    BY <2>3, <2>4, Others
  <2>6. \A p \in Place : b \notin Holds(p)
    BY <1>0, <1>4 DEF Accounted, Add
  <2>7. Place' = Place
    BY DEF Place, File, Thread
  <2>8. InOnePlace'
    BY <2>5, <2>6, <2>7 DEF PInv, InOnePlace
  <2>9. Accounted'
    BY <1>0, <1>4, <2>4, <2>5, <2>7 DEF Accounted, Add
  <2> QED
    BY <2>1, <2>8, <2>9 DEF PInv
<1>5. ASSUME NEW f \in File, NEW b \in Board, Ack(f, b) PROVE PInv'
  <2>1. MoverHolds' /\ OnDisk' = OnDisk /\ OnTheWay' = OnTheWay
    BY <1>0, <1>5, MoverHoldsKept DEF Ack
  <2>2. \A g \in File : analysed'[g] = IF g = f THEN analysed[g] \ {b} ELSE analysed[g]
    BY <1>0, <1>5 DEF Ack, StockTypeOK
  <2>3. Untouched(AnalysedAt(f), AnalysedAt(f))
    BY <1>0b, <1>5, <2>1, <2>2 DEF Untouched, Ack
  <2>4. Holds(AnalysedAt(f))' = Holds(AnalysedAt(f)) \ {b} /\ b \in Holds(AnalysedAt(f))
    BY <1>5, <2>2, HoldsAt, HoldsThen DEF Ack
  <2>5. Removes(AnalysedAt(f), {b})
    BY <1>5, <2>3, <2>4, Places DEF Removes, Ack
  <2>6. InOnePlace' /\ Accounted'
    BY <2>5, RemovalKeeps
  <2> QED
    BY <2>1, <2>6 DEF PInv
<1>6. ASSUME NEW f \in File, NEW b \in Board, Reclaim(f, b) PROVE PInv'
  <2>1. MoverHolds' /\ OnDisk' = OnDisk /\ OnTheWay' = OnTheWay
    BY <1>0, <1>6, MoverHoldsKept DEF Reclaim
  <2>2. /\ \A g \in File : analysed'[g] = IF g = f THEN analysed[g] \ {b} ELSE analysed[g]
        /\ \A t \in Thread : hand'[t] = IF t = "server" THEN b ELSE hand[t]
    BY <1>0, <1>6 DEF Reclaim, StockTypeOK
  <2>3. Untouched(AnalysedAt(f), HandOf("server"))
    BY <1>0b, <1>6, <2>1, <2>2 DEF Untouched, Reclaim
  <2>4. /\ Holds(AnalysedAt(f))' = Holds(AnalysedAt(f)) \ {b} /\ b \in Holds(AnalysedAt(f))
        /\ Holds(HandOf("server"))' = Holds(HandOf("server")) \cup {b}
    BY <1>0a, <1>0b, <1>6, <2>2, HoldsAt, HoldsThen DEF Reclaim
  <2>5. Moves(AnalysedAt(f), HandOf("server"), {b})
    BY <1>0b, <1>6, <2>3, <2>4, Places DEF Moves, Reclaim
  <2>6. InOnePlace' /\ Accounted'
    BY <2>5, MoveKeeps
  <2> QED
    BY <2>1, <2>6 DEF PInv
<1>7. ASSUME NEW f \in File, NEW b \in Board, Rebalance(f, b) PROVE PInv'
  <2>1. MoverHolds' /\ OnDisk' = OnDisk /\ OnTheWay' = OnTheWay
    BY <1>0, <1>7, MoverHoldsKept DEF Rebalance
  <2>2. /\ \A g \in File : list'[g] = IF g = f THEN list[g] \ {b} ELSE list[g]
        /\ \A t \in Thread : hand'[t] = IF t = "server" THEN b ELSE hand[t]
    BY <1>0, <1>7 DEF Rebalance, StockTypeOK
  <2>3. Untouched(ListAt(f), HandOf("server"))
    BY <1>0b, <1>7, <2>1, <2>2 DEF Untouched, Rebalance
  <2>4. /\ Holds(ListAt(f))' = Holds(ListAt(f)) \ {b} /\ b \in Holds(ListAt(f))
        /\ Holds(HandOf("server"))' = Holds(HandOf("server")) \cup {b}
    BY <1>0a, <1>0b, <1>7, <2>2, HoldsAt, HoldsThen DEF Rebalance
  <2>5. Moves(ListAt(f), HandOf("server"), {b})
    BY <1>0b, <1>7, <2>3, <2>4, Places DEF Moves, Rebalance
  <2>6. InOnePlace' /\ Accounted'
    BY <2>5, MoveKeeps
  <2> QED
    BY <2>1, <2>6 DEF PInv
<1>8. ASSUME NEW f \in File, PutBack(f) PROVE PInv'
  <2> DEFINE b == hand["server"]
  <2>1. MoverHolds' /\ OnDisk' = OnDisk /\ OnTheWay' = OnTheWay
    BY <1>0, <1>8, MoverHoldsKept DEF PutBack
  <2>2. /\ \A g \in File : list'[g] = IF g = f THEN list[g] \cup {b} ELSE list[g]
        /\ \A t \in Thread : hand'[t] = IF t = "server" THEN None ELSE hand[t]
    BY <1>0, <1>8 DEF PutBack, StockTypeOK
  <2>3. Untouched(HandOf("server"), ListAt(f))
    BY <1>0b, <1>8, <2>1, <2>2 DEF Untouched, PutBack
  <2>4. /\ Holds(HandOf("server"))' = Holds(HandOf("server")) \ {b} /\ b \in Holds(HandOf("server"))
        /\ Holds(ListAt(f))' = Holds(ListAt(f)) \cup {b}
    BY <1>0b, <1>8, <2>2, HoldsAt, HoldsThen DEF PutBack
  <2>5. Moves(HandOf("server"), ListAt(f), {b})
    BY <1>0b, <1>8, <2>3, <2>4, Places DEF Moves, PutBack
  <2>6. InOnePlace' /\ Accounted'
    BY <2>5, MoveKeeps
  <2> QED
    BY <2>1, <2>6 DEF PInv
<1> QED
  BY <1>1, <1>2, <1>3, <1>4, <1>5, <1>6, <1>7, <1>8 DEF Client, ServerStep

-----------------------------------------------------------------------------
(* The spill thread.                                                       *)

LEMMA MoverPlaces == ASSUME BInv, BInv', PInv, Mover PROVE PInv'
<1> USE DEF MoverAlone, clientVars, poolVars
<1>0. StockTypeOK /\ MoverHolds /\ MoverOK
  BY DEF BInv, PInv
<1>0a. /\ \A f \in File : /\ ListAt(f) \in Place /\ ListAt(f) # BlockAt
                          /\ ListAt(f) # TierAt /\ ListAt(f) # ReadAt
       /\ TierAt \in Place /\ BlockAt \in Place /\ DiskAt \in Place /\ ReadAt \in Place
       /\ TierAt # BlockAt /\ TierAt # DiskAt /\ DiskAt # ReadAt
  BY Places DEF ListAt, TierAt, BlockAt, DiskAt, ReadAt
<1>0b. Len(disk) \in Nat /\ disk \in Seq(Board)
  BY <1>0 DEF StockTypeOK
<1>1. CASE \/ StepBegins \/ TierLock \/ EvictFails \/ TierUnlock
           \/ TierEmpty \/ NothingRead \/ StepEnds
  <2> USE DEF StepBegins, TierLock, EvictFails, TierUnlock, TierEmpty, NothingRead, StepEnds
  <2>1. Kept' = Kept /\ mpc # "refill" /\ mpc' # "refill"
    BY <1>1 DEF Kept
  <2>2. OnDisk' = OnDisk /\ OnTheWay' = OnTheWay
    BY <1>1, <2>1 DEF OnDisk, OnTheWay
  <2>3. MoverHolds'
    BY <1>0, <1>1, <2>1 DEF MoverHolds
  <2>4. MovesNothing
    BY <1>1, <2>2 DEF MovesNothing
  <2> QED
    BY <2>3, <2>4, NothingKeeps DEF PInv
<1>2. ASSUME NEW f \in File, NEW b \in Board, EvictDrain(f, b) PROVE PInv'
  <2>1. Kept' = Kept /\ mpc = "tier" /\ mpc' = "push" /\ block = {} /\ block' = {b}
    BY <1>0, <1>2 DEF EvictDrain, Kept, MoverHolds
  <2>2. OnDisk' = OnDisk /\ OnTheWay' = OnTheWay
    BY <1>2, <2>1 DEF EvictDrain, OnDisk, OnTheWay
  <2>3. \A g \in File : list'[g] = IF g = f THEN list[g] \ {b} ELSE list[g]
    BY <1>0, <1>2 DEF EvictDrain, StockTypeOK
  <2>4. Untouched(ListAt(f), BlockAt)
    BY <1>2, <2>2, <2>3 DEF EvictDrain, Untouched
  <2>5. Moves(ListAt(f), BlockAt, {b})
    BY <1>0a, <1>2, <2>1, <2>3, <2>4, HoldsAt, HoldsThen DEF EvictDrain, Moves
  <2>6. MoverHolds'
    BY <1>0, <1>2, <2>1 DEF EvictDrain, MoverHolds
  <2> QED
    BY <2>5, <2>6, MoveKeeps DEF PInv
<1>3. CASE EvictPush
  <2>1. Kept' = Kept /\ mpc = "push" /\ mpc' = "tier"
    BY <1>3 DEF EvictPush, Kept
  <2>2. OnDisk' = OnDisk /\ OnTheWay' = OnTheWay
    BY <1>3, <2>1 DEF EvictPush, OnDisk, OnTheWay
  <2>3. Untouched(BlockAt, TierAt)
    BY <1>3, <2>2 DEF EvictPush, Untouched
  <2>4. Moves(BlockAt, TierAt, block)
    BY <1>0a, <1>3, <2>3, HoldsAt, HoldsThen DEF EvictPush, Moves
  <2>5. MoverHolds'
    BY <1>0, <1>3, <2>1 DEF EvictPush, MoverHolds
  <2> QED
    BY <2>4, <2>5, MoveKeeps DEF PInv
<1>4. ASSUME NEW f \in File, GiveBack(f) PROVE PInv'
  <2>1. Kept' = Kept /\ mpc = "giveBack" /\ mpc' = "step" /\ block' = {}
    BY <1>4 DEF GiveBack, Kept
  <2>2. OnDisk' = OnDisk /\ OnTheWay' = OnTheWay
    BY <1>4, <2>1 DEF GiveBack, OnDisk, OnTheWay
  <2>3. \A g \in File : list'[g] = IF g = f THEN list[g] \cup block ELSE list[g]
    BY <1>0, <1>4 DEF GiveBack, StockTypeOK
  <2>4. Untouched(BlockAt, ListAt(f))
    BY <1>4, <2>2, <2>3 DEF GiveBack, Untouched
  <2>5. Moves(BlockAt, ListAt(f), block)
    BY <1>0a, <1>4, <2>1, <2>3, <2>4, HoldsAt, HoldsThen DEF GiveBack, Moves
  <2>6. MoverHolds'
    BY <1>0, <1>4, <2>1 DEF GiveBack, MoverHolds
  <2> QED
    BY <2>5, <2>6, MoveKeeps DEF PInv
<1>5. CASE GiveBackLoses
  <2>1. Kept' = Kept /\ mpc = "giveBack" /\ mpc' = "step" /\ block' = {}
    BY <1>5 DEF GiveBackLoses, Kept
  <2>2. OnDisk' = OnDisk /\ OnTheWay' = OnTheWay
    BY <1>5, <2>1 DEF GiveBackLoses, OnDisk, OnTheWay
  <2>3. Untouched(BlockAt, BlockAt)
    BY <1>5, <2>2 DEF GiveBackLoses, Untouched
  <2>4. Removes(BlockAt, block)
    BY <1>0a, <1>5, <2>1, <2>3, HoldsAt, HoldsThen DEF GiveBackLoses, Removes
  <2>5. MoverHolds'
    BY <1>0, <1>5, <2>1 DEF GiveBackLoses, MoverHolds
  <2> QED
    BY <2>4, <2>5, RemovalKeeps DEF PInv
<1>6. ASSUME NEW f \in File, NEW b \in Board, TierReload(f, b) PROVE PInv'
  <2>1. MoverHolds' /\ OnDisk' = OnDisk /\ OnTheWay' = OnTheWay
    BY <1>0, <1>6, MoverHoldsKept DEF TierReload, moverVars
  <2>2. \A g \in File : list'[g] = IF g = f THEN list[g] \cup {b} ELSE list[g]
    BY <1>0, <1>6 DEF TierReload, StockTypeOK
  <2>3. Untouched(TierAt, ListAt(f))
    BY <1>6, <2>1, <2>2 DEF TierReload, moverVars, Untouched
  <2>4. Moves(TierAt, ListAt(f), {b})
    BY <1>0a, <1>6, <2>2, <2>3, HoldsAt, HoldsThen DEF TierReload, moverVars, Moves
  <2> QED
    BY <2>1, <2>4, MoveKeeps DEF PInv
<1>7. ASSUME NEW b \in Board, TierToDisk(b) PROVE PInv'
  <2>1. /\ mpc = "tier" /\ mpc' = mpc /\ Kept = Len(disk) /\ b \in tier
        /\ Kept' = Len(disk')
    BY <1>7 DEF TierToDisk, moverVars, Kept
  <2>2. /\ Len(disk') = Len(disk) + 1 /\ disk'[Len(disk) + 1] = b
        /\ \A i \in 1..Len(disk) : disk'[i] = disk[i]
    BY <1>0b, <1>7, AppendProperties DEF TierToDisk
  <2>3. OnDisk' = OnDisk \cup {b}
    BY <1>0b, <2>1, <2>2 DEF OnDisk
  <2>4. OnTheWay' = OnTheWay
    BY <2>1 DEF OnTheWay
  <2>5. Untouched(TierAt, DiskAt)
    BY <1>7, <2>4 DEF TierToDisk, moverVars, Untouched
  <2>6. Moves(TierAt, DiskAt, {b})
    BY <1>0a, <1>7, <2>3, <2>5, HoldsAt, HoldsThen DEF TierToDisk, moverVars, Moves
  <2>7. b \notin OnDisk
    BY <1>0a, <2>1, HoldsAt DEF PInv, InOnePlace
  <2>8. MoverHolds'
    <3>1. \A i, j \in 1..Kept' : disk'[i] = disk'[j] => i = j
      BY <1>0, <1>0b, <2>1, <2>2, <2>7 DEF MoverHolds, OnDisk
    <3> QED
      BY <1>0, <1>7, <2>1, <3>1 DEF MoverHolds, TierToDisk, moverVars
  <2> QED
    BY <2>6, <2>8, MoveKeeps DEF PInv
<1>8. CASE ReloadRead
  <2>1. PICK k \in 0..(Len(disk) - 1) :
            from' = k /\ read' = SubSeq(disk, k + 1, Len(disk))
    BY <1>8 DEF ReloadRead
  <2>2. /\ mpc = "starved" /\ mpc' = "refill" /\ Kept = Len(disk) /\ Kept' = k
        /\ disk' = disk /\ k \in Nat /\ k < Len(disk)
    BY <1>0b, <1>8, <2>1 DEF ReloadRead, Kept
  <2>3. /\ Len(read') = Len(disk) - k
        /\ \A i \in 1..(Len(disk) - k) : read'[i] = disk[k + i]
    <3>1. \A i \in (k + 1)..Len(disk) : disk[i] \in Board
      BY <1>0b, <2>2
    <3> QED
      BY <1>0b, <2>1, <2>2, <3>1, SubSeqProperties
  <2>4. SeqRange(read') = {disk[i] : i \in (k + 1)..Len(disk)}
    <3>1. \A i \in (k + 1)..Len(disk) : i - k \in 1..(Len(disk) - k) /\ disk[i] = read'[i - k]
      BY <1>0b, <2>2, <2>3
    <3>2. \A i \in 1..(Len(disk) - k) : k + i \in (k + 1)..Len(disk)
      BY <1>0b, <2>2
    <3> QED
      BY <2>3, <3>1, <3>2 DEF SeqRange
  <2>5. OnTheWay = {} /\ OnTheWay' = SeqRange(read')
    BY <2>2 DEF OnTheWay
  <2>6. \A i, j \in 1..Len(disk) : disk[i] = disk[j] => i = j
    BY <1>0, <2>2 DEF MoverHolds
  <2>7. OnDisk = {disk[i] : i \in 1..Len(disk)} /\ OnDisk' = {disk[i] : i \in 1..k}
    BY <2>2 DEF OnDisk
  <2>8. OnDisk' = OnDisk \ SeqRange(read') /\ SeqRange(read') \subseteq OnDisk
    <3>1. \A i \in 1..k : i \in 1..Len(disk) /\ i \notin (k + 1)..Len(disk)
      BY <1>0b, <2>2
    <3>2. \A i \in 1..Len(disk) : i \in 1..k \/ i \in (k + 1)..Len(disk)
      BY <1>0b, <2>2
    <3>3. \A i \in (k + 1)..Len(disk) : i \in 1..Len(disk)
      BY <1>0b, <2>2
    <3> QED
      BY <2>4, <2>6, <2>7, <3>1, <3>2, <3>3
  <2>9. Untouched(DiskAt, ReadAt)
    BY <1>8 DEF ReloadRead, Untouched
  <2>10. Moves(DiskAt, ReadAt, SeqRange(read'))
    BY <1>0a, <1>8, <2>5, <2>8, <2>9, HoldsAt, HoldsThen DEF ReloadRead, Moves
  <2>11. MoverHolds'
    <3>1. \A i, j \in 1..Len(read') : read'[i] = read'[j] => i = j
      BY <1>0b, <2>2, <2>3, <2>6
    <3>2. SeqRange(read)' \subseteq SeqRange(disk)'
      <4>1. SeqRange(read)' = SeqRange(read') /\ SeqRange(disk)' = {disk[i] : i \in 1..Len(disk)}
        BY <2>2 DEF SeqRange
      <4> QED
        BY <2>7, <2>8, <4>1
    <3>3. \A i, j \in 1..k : disk[i] = disk[j] => i = j
      BY <1>0b, <2>2, <2>6
    <3>4. block' = {}
      BY <1>0, <1>8, <2>2 DEF ReloadRead, MoverHolds
    <3> QED
      BY <2>2, <3>1, <3>2, <3>3, <3>4 DEF MoverHolds
  <2> QED
    BY <2>10, <2>11, MoveKeeps DEF PInv
<1>9. ASSUME NEW f \in File, ReloadRefill(f) PROVE PInv'
  <2> DEFINE b == Head(read)
  <2>1. /\ mpc = "refill" /\ read # <<>> /\ read \in Seq(Board) /\ read' = Tail(read)
        /\ mpc' = IF Len(read) = 1 THEN "commit" ELSE "refill"
        /\ Len(read) \in Nat /\ Len(read) >= 1
    BY <1>0, <1>9 DEF ReloadRefill, MoverOK, StockTypeOK
  <2>2. Kept' = Kept
    BY <1>9, <2>1 DEF ReloadRefill, Kept
  <2>3. OnDisk' = OnDisk
    BY <1>9, <2>2 DEF ReloadRefill, OnDisk
  <2>4. /\ Len(read') = Len(read) - 1 /\ b = read[1]
        /\ \A i \in 1..Len(read') : read'[i] = read[i + 1]
    BY <2>1, HeadTailProperties
  <2>5. SeqRange(read') = SeqRange(read) \ {b} /\ b \in SeqRange(read)
    <3>1. \A i \in 1..Len(read) : i = 1 \/ (i - 1 \in 1..Len(read') /\ read[i] = read'[i - 1])
      BY <2>1, <2>4
    <3>2. \A i \in 1..Len(read') : i + 1 \in 1..Len(read) /\ i + 1 # 1
      BY <2>1, <2>4
    <3>3. \A i \in 1..Len(read) : read[i] = read[1] => i = 1
      BY <1>0, <2>1 DEF MoverHolds
    <3> QED
      BY <2>1, <2>4, <3>1, <3>2, <3>3 DEF SeqRange
  <2>6. OnTheWay = SeqRange(read) /\ OnTheWay' = OnTheWay \ {b}
    <3>1. CASE Len(read) = 1
      BY <2>1, <2>4, <2>5, <3>1 DEF OnTheWay, SeqRange
    <3>2. CASE Len(read) # 1
      BY <2>1, <2>5, <3>2 DEF OnTheWay
    <3> QED
      BY <3>1, <3>2
  <2>7. \A g \in File : list'[g] = IF g = f THEN list[g] \cup {b} ELSE list[g]
    BY <1>0, <1>9 DEF ReloadRefill, StockTypeOK
  <2>8. Untouched(ReadAt, ListAt(f))
    BY <1>9, <2>3, <2>7 DEF ReloadRefill, Untouched
  <2>9. Moves(ReadAt, ListAt(f), {b})
    <3>1. UNCHANGED <<born, done, aside>>
      BY <1>9 DEF ReloadRefill
    <3>2. {b} \subseteq Holds(ReadAt) /\ Holds(ReadAt)' = Holds(ReadAt) \ {b}
      BY <2>5, <2>6, HoldsAt, HoldsThen
    <3>3. Holds(ListAt(f))' = Holds(ListAt(f)) \cup {b}
      BY <2>7, HoldsAt, HoldsThen
    <3> QED
      BY <1>0a, <2>8, <3>1, <3>2, <3>3 DEF Moves
  <2>10. MoverHolds'
    <3>1. \A i, j \in 1..Len(read') : read'[i] = read'[j] => i = j
      <4>1. \A i \in 1..Len(read') : i + 1 \in 1..Len(read) /\ i \in Int
        BY <2>1, <2>4
      <4>2. \A i, j \in 1..Len(read) : read[i] = read[j] => i = j
        BY <1>0, <2>1 DEF MoverHolds
      <4> QED
        BY <2>4, <4>1, <4>2
    <3>2. SeqRange(read)' \subseteq SeqRange(disk)'
      <4>1. disk' = disk /\ SeqRange(disk)' = SeqRange(disk) /\ SeqRange(read)' = SeqRange(read')
        BY <1>9 DEF ReloadRefill, SeqRange
      <4>2. SeqRange(read) \subseteq SeqRange(disk)
        BY <1>0, <2>1 DEF MoverHolds
      <4> QED
        BY <2>5, <4>1, <4>2
    <3>3. block' = {} /\ disk' = disk
      BY <1>0, <1>9, <2>1 DEF ReloadRefill, MoverHolds
    <3> QED
      BY <1>0, <2>2, <3>1, <3>2, <3>3 DEF MoverHolds
  <2> QED
    BY <2>9, <2>10, MoveKeeps DEF PInv
<1>10. CASE ReloadCommit
  <2>1. /\ mpc = "commit" /\ mpc' = "step" /\ from \in Nat /\ from <= Len(disk)
        /\ disk' = SubSeq(disk, 1, from) /\ Kept = from
    BY <1>0, <1>10 DEF ReloadCommit, MoverOK, StockTypeOK, Kept
  <2>2. Len(disk') = from /\ \A i \in 1..from : disk'[i] = disk[i]
    <3>1. \A i \in 1..from : disk[i] \in Board
      BY <1>0b, <2>1
    <3> QED
      BY <1>0b, <2>1, <3>1, SubSeqProperties
  <2>3. Kept' = from
    BY <2>1, <2>2 DEF Kept
  <2>4. OnDisk' = OnDisk /\ OnTheWay' = OnTheWay
    BY <2>1, <2>2, <2>3 DEF OnDisk, OnTheWay
  <2>5. MovesNothing
    BY <1>10, <2>4 DEF ReloadCommit, MovesNothing
  <2>6. MoverHolds'
    BY <1>0, <1>10, <2>1, <2>2, <2>3 DEF ReloadCommit, MoverHolds
  <2> QED
    BY <2>5, <2>6, NothingKeeps DEF PInv
<1> QED
  BY <1>1, <1>2, <1>3, <1>4, <1>5, <1>6, <1>7, <1>8, <1>9, <1>10 DEF Mover

-----------------------------------------------------------------------------
(* The backup moves nothing.                                               *)

LEMMA BackupPlaces ==
    ASSUME PInv, UNCHANGED <<poolVars, clientVars, moverVars>> PROVE PInv'
<1> USE DEF poolVars, clientVars, moverVars
<1>1. MoverHolds' /\ OnDisk' = OnDisk /\ OnTheWay' = OnTheWay
  BY MoverHoldsKept DEF PInv
<1>2. MovesNothing
  BY <1>1 DEF MovesNothing
<1> QED
  BY <1>1, <1>2, NothingKeeps DEF PInv

LEMMA InitPInv == Init => PInv
<1> SUFFICES ASSUME Init PROVE PInv
  OBVIOUS
<1> USE DEF Init
<1>1. MoverHolds /\ Kept = 0 /\ OnDisk = {} /\ OnTheWay = {}
  BY DEF MoverHolds, Kept, OnDisk, OnTheWay
<1>2. \A p \in Place : Holds(p) = IF p = ListAt(1) THEN Root ELSE {}
  <2>1. ASSUME NEW f \in File PROVE /\ Holds(ListAt(f)) = IF f = 1 THEN Root ELSE {}
                                   /\ Holds(AnalysedAt(f)) = {}
                                   /\ AnalysedAt(f) # ListAt(1) /\ (ListAt(f) = ListAt(1) <=> f = 1)
    BY HoldsAt DEF ListAt, AnalysedAt
  <2>2. ASSUME NEW t \in Thread PROVE Holds(HandOf(t)) = {} /\ HandOf(t) # ListAt(1)
    BY HoldsAt DEF ListAt, HandOf
  <2>3. ASSUME NEW p \in {TierAt, BlockAt, DiskAt, ReadAt} PROVE Holds(p) = {} /\ p # ListAt(1)
    BY <1>1, HoldsAt DEF ListAt, TierAt, BlockAt, DiskAt, ReadAt
  <2> QED
    BY <2>1, <2>2, <2>3, Places
<1>3. ListAt(1) \in Place
  BY Places, StockAssumption DEF File
<1> QED
  BY <1>1, <1>2, <1>3 DEF PInv, InOnePlace, Accounted

LEMMA NextPInv == BInv /\ BInv' /\ PInv /\ [Next]_vars => PInv'
<1> SUFFICES ASSUME BInv, BInv', PInv, [Next]_vars PROVE PInv'
  OBVIOUS
<1>1. CASE Client \/ ServerStep
  BY <1>1, ClientPlaces
<1>2. CASE Mover
  BY <1>2, MoverPlaces
<1>3. CASE BackupOpens
  BY <1>3, BackupPlaces DEF BackupOpens
<1>4. CASE BackupGoesOn
  <2>1. UNCHANGED BackupAlone
    BY <1>4 DEF BackupGoesOn, BackupEnters, LockNext, Freeze, Snapshot, Manifest, WriteAnalysed,
                WriteStock, WriteTier, Embed, RenameAnalysed, RenameStock, WriteSidecar
  <2> QED
    BY <2>1, BackupPlaces DEF BackupAlone
<1>5. CASE UNCHANGED vars
  BY <1>5, BackupPlaces DEF vars
<1> QED
  BY <1>1, <1>2, <1>3, <1>4, <1>5 DEF Next

\* At the instant of the backup nothing is in the hands of the spill thread but what a
\* failed eviction gives back: the frames that a reload has read are still on the disk.
LEMMA WholeAtInstant == BInv /\ PInv => InstantIsWhole
<1> SUFFICES ASSUME BInv, PInv, bpc = "manifest" PROVE InstantIsWhole
  BY DEF InstantIsWhole
<1> DEFINE Carried == Hands \cup aside \cup (IF mpc = "giveBack" THEN block ELSE {})
           Stays == IF mpc \in {"refill", "commit"} THEN SubSeq(disk, 1, from) ELSE disk
           InPlaces == <<Listed, Analysed, tier, SeqRange(Stays)>>
<1>1. mpc \notin {"tier", "push"}
  BY DEF BInv, LocksOK, MoverOK
<1>2. disk \in Seq(Board) /\ Len(disk) \in Nat /\ from \in Nat
      /\ (mpc \in {"refill", "commit"} => from <= Len(disk))
  BY DEF BInv, StockTypeOK, MoverOK
<1>3. SeqRange(Stays) = OnDisk
  <2>1. CASE mpc \in {"refill", "commit"}
    <3>1. \A i \in 1..from : disk[i] \in Board
      BY <1>2, <2>1
    <3>2. Len(Stays) = from /\ \A i \in 1..from : Stays[i] = disk[i]
      BY <1>2, <2>1, <3>1, SubSeqProperties
    <3> QED
      BY <2>1, <3>2 DEF SeqRange, OnDisk, Kept
  <2>2. CASE mpc \notin {"refill", "commit"}
    BY <2>2 DEF SeqRange, OnDisk, Kept
  <2> QED
    BY <2>1, <2>2
<1>4. OnDisk \subseteq SeqRange(disk) /\ OnTheWay \subseteq SeqRange(disk)
  <2>1. Kept \in Nat /\ Kept <= Len(disk)
    BY <1>2 DEF Kept
  <2>2. \A i \in 1..Kept : i \in 1..Len(disk)
    BY <1>2, <2>1
  <2>3. OnDisk \subseteq SeqRange(disk)
    BY <2>2 DEF OnDisk, SeqRange
  <2>4. OnTheWay \subseteq SeqRange(disk)
    BY DEF PInv, MoverHolds, OnTheWay
  <2> QED
    BY <2>3, <2>4
<1>5. /\ \A b : b \in Listed <=> \E f \in File : b \in list[f]
      /\ \A b : b \in Analysed <=> \E f \in File : b \in analysed[f]
  BY DEF Listed, Analysed
<1>6. born \ done \subseteq Listed \cup Analysed \cup tier \cup SeqRange(disk) \cup Carried
  <2>1. SUFFICES ASSUME NEW b \in born, b \notin done, b \notin aside, NEW p \in Place, b \in Holds(p)
                 PROVE  b \in Listed \cup Analysed \cup tier \cup SeqRange(disk) \cup Carried
    BY DEF PInv, Accounted
  <2>2. ASSUME NEW t \in Thread, p = HandOf(t) PROVE b \in Hands
    BY <2>1, <2>2, HoldsAt DEF Hands
  <2>3. ASSUME NEW f \in File, p = ListAt(f) \/ p = AnalysedAt(f) PROVE b \in Listed \cup Analysed
    BY <1>5, <2>1, <2>3, HoldsAt
  <2>4. CASE p = BlockAt
    BY <1>1, <2>1, <2>4, HoldsAt DEF PInv, MoverHolds
  <2>5. CASE p \in {TierAt, DiskAt, ReadAt}
    BY <1>4, <2>1, <2>5, HoldsAt
  <2> QED
    BY <2>2, <2>3, <2>4, <2>5, Places
<1>7. \A i, j \in 1..4 : i # j => InPlaces[i] \cap InPlaces[j] = {}
  <2>1. \A f, g \in File : ListAt(f) # AnalysedAt(g)
    BY DEF ListAt, AnalysedAt
  <2>2. \A f \in File : /\ ListAt(f) # TierAt /\ ListAt(f) # DiskAt
                        /\ AnalysedAt(f) # TierAt /\ AnalysedAt(f) # DiskAt
    BY DEF ListAt, AnalysedAt, TierAt, DiskAt
  <2>3. Listed \cap Analysed = {}
    BY <1>5, <2>1, Places, HoldsAt DEF PInv, InOnePlace
  <2>4. Listed \cap tier = {} /\ Analysed \cap tier = {}
    BY <1>5, <2>2, Places, HoldsAt DEF PInv, InOnePlace
  <2>5. Listed \cap OnDisk = {} /\ Analysed \cap OnDisk = {}
    BY <1>5, <2>2, Places, HoldsAt DEF PInv, InOnePlace
  <2>6. tier \cap OnDisk = {}
    BY Places, HoldsAt DEF PInv, InOnePlace, TierAt, DiskAt
  <2>7. /\ InPlaces[1] = Listed /\ InPlaces[2] = Analysed /\ InPlaces[3] = tier
        /\ InPlaces[4] = OnDisk
    BY <1>3
  <2> HIDE DEF InPlaces
  <2> QED
    BY <2>3, <2>4, <2>5, <2>6, <2>7
<1> QED
  BY <1>6, <1>7 DEF InstantIsWhole

\* At the instant of a consistent backup, every possibility that remains to be analysed
\* is in one of the pools and in one only, but for what a thread carries from one critical
\* section to the next and what was set aside: for every number of files, possibilities
\* and backups.
THEOREM InstantWhole == Spec => []InstantIsWhole
<1> QED
  BY InitBInv, NextBInv, InitPInv, NextPInv, WholeAtInstant, PTL DEF Spec
=============================================================================
