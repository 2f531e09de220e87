---------------------------- MODULE StockBackup ----------------------------
(***************************************************************************)
(* The server's stock and its consistent backup (datamanager.c,             *)
(* stock_spill.c).                                                          *)
(*                                                                         *)
(* A possibility is in a stock list, in the compact RAM tier, on disk, in   *)
(* the analysed pool, or in the hands of a thread that moves it.  While     *)
(* clients are served and the spill thread moves possibilities between      *)
(* lists, tier and disk, a backup takes every lock, copies the disk, writes *)
(* the pools to two files, releasing each pool as it is written, and        *)
(* publishes the files.                                                     *)
(*                                                                         *)
(* File f stands for the pair file_possibility[f],                          *)
(* file_possibility_checked[f], whose locks a backup takes and releases     *)
(* together.  The decisions that depend on the RAM limit are free choices.  *)
(***************************************************************************)
EXTENDS Integers, Sequences, FiniteSets

CONSTANTS
    NF,            \* nb_file_possibility
    Board,         \* possibilities
    Root,          \* the ones in stock at the start
    Kinds,         \* "auto": autobackup; "complete": consistent_backup_self_contained
    None,
    MaxBackups     \* bound: backups of one behaviour

ASSUME StockAssumption ==
    /\ NF \in Nat \ {0} /\ Root \subseteq Board /\ None \notin Board
    /\ Kinds \subseteq {"auto", "complete"} /\ Kinds # {}
    /\ MaxBackups \in Nat

File == 1..NF
Lock == ({"analysed", "stock"} \X File) \cup {<<"tier", 1>>}
TierMutex == <<"tier", 1>>
Thread == {"get", "server"}   \* a client's INST_GET, and server_step

VARIABLES
    list,       \* file_possibility, file_possibility_checked
    analysed,   \* file_possibility_analysed
    tier,       \* the compact blocks in RAM
    disk,       \* the live segments, top last
    hand,       \* hand[t]: what thread t has taken and not yet put
    aside,      \* in ./error_possibility, or reported as lost
    born,       \* possibilities that have existed
    done,       \* acknowledged
    lock,       \* lock[l]: who holds l for more than one step
    maint,      \* maintenance
    mpc,        \* where the spill thread is in stock_spill_step
    block,      \* drained from a list, not yet in the tier
    read,       \* read from the disk, not yet back in a list
    from,       \* where the frames read begin
    bpc,        \* where consistent_backup_impl is
    next,       \* file its loop is at
    tmp,        \* the two .tmp files, and the copy of the segments
    kind,       \* which backups are made
    pub,        \* the published files and the number of the backup that wrote each
    begun,      \* backups begun
    hist        \* hist[n]: what the pools held at the instant of backup n (history)

poolVars == <<list, analysed, tier, disk>>
clientVars == <<hand, aside, born, done>>
moverVars == <<mpc, block, read, from>>
backupVars == <<bpc, next, tmp, kind, pub, begun, hist>>
vars == <<poolVars, clientVars, moverVars, backupVars, lock, maint>>

SeqRange(s) == {s[i] : i \in 1..Len(s)}
Listed == UNION {list[f] : f \in File}
Analysed == UNION {analysed[f] : f \in File}
Hands == {hand[t] : t \in Thread} \ {None}

Free(l) == lock[l] = "free"
StockFree(f) == Free(<<"stock", f>>)
AnalysedFree(f) == Free(<<"analysed", f>>)

Image == [a : SUBSET Board, s : SUBSET Board, d : Seq(Board)]
NoImage == [a |-> {}, s |-> {}, d |-> <<>>]

StockTypeOK ==
    /\ list \in [File -> SUBSET Board] /\ analysed \in [File -> SUBSET Board]
    /\ tier \subseteq Board /\ disk \in Seq(Board)
    /\ hand \in [Thread -> Board \cup {None}]
    /\ aside \subseteq Board /\ born \subseteq Board /\ done \subseteq Board
    /\ lock \in [Lock -> {"free", "backup", "mover"}]
    /\ maint \in Nat
    /\ mpc \in {"idle", "step", "tier", "push", "giveBack", "starved", "refill", "commit"}
    /\ block \subseteq Board /\ read \in Seq(Board) /\ from \in Nat
    /\ bpc \in {"idle", "open", "lockAnalysed", "lockStock", "freeze", "snapshot",
                "manifest", "writeAnalysed", "writeStock", "writeTier", "embed",
                "renameAnalysed", "renameStock", "sidecar"}
    /\ kind \in Kinds /\ next \in File
    /\ tmp \in Image /\ begun \in 0..MaxBackups
    /\ hist \in [1..MaxBackups -> Image]
    /\ pub \in [a : SUBSET Board, s : SUBSET Board, d : Seq(Board), aId : 0..MaxBackups,
                sId : 0..MaxBackups, dId : 0..MaxBackups, named : 0..MaxBackups]

Init ==
    /\ list = [f \in File |-> IF f = 1 THEN Root ELSE {}]
    /\ analysed = [f \in File |-> {}]
    /\ tier = {} /\ disk = <<>>
    /\ hand = [t \in Thread |-> None]
    /\ aside = {} /\ born = Root /\ done = {}
    /\ lock = [l \in Lock |-> "free"] /\ maint = 0
    /\ mpc = "idle" /\ block = {} /\ read = <<>> /\ from = 0
    /\ kind \in Kinds /\ bpc = "idle" /\ next = 1 /\ tmp = NoImage
    /\ pub = [a |-> {}, s |-> {}, d |-> <<>>, aId |-> 0, sId |-> 0, dId |-> 0, named |-> 0]
    /\ begun = 0 /\ hist = [n \in 1..MaxBackups |-> NoImage]

\* maintenance_leave
Left(depth) == IF depth > 0 THEN depth - 1 ELSE 0

-----------------------------------------------------------------------------
(* Clients: each critical section of a handler is one step, taken when the   *)
(* file's lock is free.                                                     *)

\* scroll_from_pool: a possibility leaves its list ...
GetTake(f, b) ==
    /\ StockFree(f) /\ b \in list[f] /\ hand["get"] = None
    /\ list' = [list EXCEPT ![f] = @ \ {b}]
    /\ hand' = [hand EXCEPT !["get"] = b]
    /\ UNCHANGED <<analysed, tier, disk, aside, born, done, moverVars, backupVars,
                   lock, maint>>

\* ... add_possibility_analysed_impl enters it in the analysed pool ...
GetRecord(f) ==
    /\ AnalysedFree(f) /\ hand["get"] # None
    /\ analysed' = [analysed EXCEPT ![f] = @ \cup {hand["get"]}]
    /\ hand' = [hand EXCEPT !["get"] = None]
    /\ UNCHANGED <<list, tier, disk, aside, born, done, moverVars, backupVars,
                   lock, maint>>

\* ... or gives up on a file that stays locked: back to the stock and, when that is
\* locked or full too, to the error file.
GetGivesUp(f) ==
    /\ ~AnalysedFree(f) /\ hand["get"] # None
    /\ \/ \E g \in File : /\ StockFree(g)
                          /\ list' = [list EXCEPT ![g] = @ \cup {hand["get"]}]
                          /\ UNCHANGED aside
       \/ aside' = aside \cup {hand["get"]} /\ UNCHANGED list
    /\ hand' = [hand EXCEPT !["get"] = None]
    /\ UNCHANGED <<analysed, tier, disk, born, done, moverVars, backupVars,
                   lock, maint>>

\* put_to_pool: a client that analyses something adds a new possibility.
Add(f, b) ==
    /\ StockFree(f) /\ b \notin born /\ Analysed # {}
    /\ list' = [list EXCEPT ![f] = @ \cup {b}]
    /\ born' = born \cup {b}
    /\ UNCHANGED <<analysed, tier, disk, hand, aside, done, moverVars, backupVars,
                   lock, maint>>

\* remove_possibility_analysed: the analysis is over.
Ack(f, b) ==
    /\ AnalysedFree(f) /\ b \in analysed[f]
    /\ analysed' = [analysed EXCEPT ![f] = @ \ {b}]
    /\ done' = done \cup {b}
    /\ UNCHANGED <<list, tier, disk, hand, aside, born, moverVars, backupVars,
                   lock, maint>>

\* server_step also runs the autobackup: it does nothing else meanwhile.
ServerStepIdle == kind = "auto" => bpc = "idle"

\* datamanager_reclaim_expired_leases, restock_analysed: out of the analysed pool ...
Reclaim(f, b) ==
    /\ ServerStepIdle /\ AnalysedFree(f) /\ b \in analysed[f] /\ hand["server"] = None
    /\ analysed' = [analysed EXCEPT ![f] = @ \ {b}]
    /\ hand' = [hand EXCEPT !["server"] = b]
    /\ UNCHANGED <<list, tier, disk, aside, born, done, moverVars, backupVars,
                   lock, maint>>

\* rebalance_pool_step: out of the fullest file ...
Rebalance(f, b) ==
    /\ ServerStepIdle /\ StockFree(f) /\ b \in list[f] /\ hand["server"] = None
    /\ \E g \in File : Cardinality(list[g]) < Cardinality(list[f])
    /\ list' = [list EXCEPT ![f] = @ \ {b}]
    /\ hand' = [hand EXCEPT !["server"] = b]
    /\ UNCHANGED <<analysed, tier, disk, aside, born, done, moverVars, backupVars,
                   lock, maint>>

\* ... put_back_to_stock, or the second half of the rebalancing: into the first list
\* that is free, however long it takes.
PutBack(f) ==
    /\ ServerStepIdle /\ StockFree(f) /\ hand["server"] # None
    /\ list' = [list EXCEPT ![f] = @ \cup {hand["server"]}]
    /\ hand' = [hand EXCEPT !["server"] = None]
    /\ UNCHANGED <<analysed, tier, disk, aside, born, done, moverVars, backupVars,
                   lock, maint>>

Client ==
    \E f \in File :
        \/ \E b \in Board : GetTake(f, b) \/ Add(f, b) \/ Ack(f, b)
        \/ GetRecord(f) \/ GetGivesUp(f)

ServerStep ==
    \E f \in File : (\E b \in Board : Reclaim(f, b) \/ Rebalance(f, b)) \/ PutBack(f)

-----------------------------------------------------------------------------
(* The spill thread, stock_spill_step.                                      *)

MoverAlone == <<clientVars, backupVars, maint>>

\* The maintenance window is looked at once, when the step begins.
StepBegins ==
    /\ mpc = "idle" /\ maint = 0
    /\ mpc' = "step"
    /\ UNCHANGED <<poolVars, block, read, from, lock, MoverAlone>>

\* tier_evict, tier_reload and tier_to_disk work under g_tier_mutex ...
TierLock ==
    /\ mpc = "step" /\ Free(TierMutex)
    /\ mpc' = "tier" /\ lock' = [lock EXCEPT ![TierMutex] = "mover"]
    /\ UNCHANGED <<poolVars, block, read, from, MoverAlone>>

\* tier_evict: datamanager_pool_drain_head_compact, when the list's lock is free ...
EvictDrain(f, b) ==
    /\ mpc = "tier" /\ StockFree(f) /\ b \in list[f]
    /\ list' = [list EXCEPT ![f] = @ \ {b}]
    /\ block' = {b} /\ mpc' = "push"
    /\ UNCHANGED <<analysed, tier, disk, read, from, lock, MoverAlone>>

\* ... then tier_push_locked ...
EvictPush ==
    /\ mpc = "push"
    /\ tier' = tier \cup block /\ block' = {} /\ mpc' = "tier"
    /\ UNCHANGED <<list, analysed, disk, read, from, lock, MoverAlone>>

\* ... or, the block not being allocated, the mutex is dropped and the possibilities
\* go back to the list.
EvictFails ==
    /\ mpc = "push"
    /\ mpc' = "giveBack" /\ lock' = [lock EXCEPT ![TierMutex] = "free"]
    /\ UNCHANGED <<poolVars, block, read, from, MoverAlone>>

GiveBack(f) ==
    /\ mpc = "giveBack" /\ StockFree(f)
    /\ list' = [list EXCEPT ![f] = @ \cup block]
    /\ block' = {} /\ mpc' = "step"
    /\ UNCHANGED <<analysed, tier, disk, read, from, lock, MoverAlone>>

\* ... unless they cannot be decoded: they are reported as lost.
GiveBackLoses ==
    /\ mpc = "giveBack"
    /\ aside' = aside \cup block
    /\ block' = {} /\ mpc' = "step"
    /\ UNCHANGED <<poolVars, hand, born, done, read, from, lock, backupVars, maint>>

\* tier_reload: datamanager_pool_refill_compact, when the list's lock is free, and
\* tier_remove_locked.
TierReload(f, b) ==
    /\ mpc = "tier" /\ StockFree(f) /\ b \in tier
    /\ list' = [list EXCEPT ![f] = @ \cup {b}] /\ tier' = tier \ {b}
    /\ UNCHANGED <<analysed, disk, moverVars, lock, MoverAlone>>

\* tier_to_disk: spill_append_frames_locked under g_spill_mutex, then
\* tier_remove_locked.
TierToDisk(b) ==
    /\ mpc = "tier" /\ b \in tier
    /\ disk' = Append(disk, b) /\ tier' = tier \ {b}
    /\ UNCHANGED <<list, analysed, moverVars, lock, MoverAlone>>

TierUnlock ==
    /\ mpc = "tier"
    /\ mpc' = "step" /\ lock' = [lock EXCEPT ![TierMutex] = "free"]
    /\ UNCHANGED <<poolVars, block, read, from, MoverAlone>>

\* tier_reload_starving: the tier is empty, the disk is next.
TierEmpty ==
    /\ mpc = "step" /\ Free(TierMutex) /\ tier = {}
    /\ mpc' = "starved"
    /\ UNCHANGED <<poolVars, block, read, from, lock, MoverAlone>>

\* Mutant: the place of the frames is one too low.
ReloadReadShifted ==
    /\ mpc = "starved" /\ disk # <<>>
    /\ \E k \in 0..(Len(disk) - 1) :
          from' = k - 1 /\ read' = SubSeq(disk, k + 1, Len(disk))
    /\ mpc' = "refill"
    /\ UNCHANGED <<poolVars, block, lock, MoverAlone>>

\* stock_spill_reload: the top frames are read under g_spill_mutex ...
ReloadRead ==
    /\ mpc = "starved" /\ disk # <<>>
    /\ \E k \in 0..(Len(disk) - 1) :
          from' = k /\ read' = SubSeq(disk, k + 1, Len(disk))
    /\ mpc' = "refill"
    /\ UNCHANGED <<poolVars, block, lock, MoverAlone>>

\* ... unless there is none, or the segment cannot be read ...
NothingRead ==
    /\ mpc = "starved"
    /\ mpc' = "step"
    /\ UNCHANGED <<poolVars, block, read, from, lock, MoverAlone>>

\* ... datamanager_pool_refill puts them in the lists, one by one ...
ReloadRefill(f) ==
    /\ mpc = "refill" /\ StockFree(f)
    /\ list' = [list EXCEPT ![f] = @ \cup {Head(read)}]
    /\ read' = Tail(read)
    /\ mpc' = IF Len(read) = 1 THEN "commit" ELSE "refill"
    /\ UNCHANGED <<analysed, tier, disk, block, from, lock, MoverAlone>>

\* ... and only then do they leave the disk: tail_bytes = from.
ReloadCommit ==
    /\ mpc = "commit"
    /\ disk' = SubSeq(disk, 1, from)
    /\ mpc' = "step" /\ from' = 0
    /\ UNCHANGED <<list, analysed, tier, block, read, lock, MoverAlone>>

StepEnds ==
    /\ mpc = "step"
    /\ mpc' = "idle"
    /\ UNCHANGED <<poolVars, block, read, from, lock, MoverAlone>>

Mover ==
    \/ StepBegins \/ TierLock \/ EvictPush \/ EvictFails \/ GiveBackLoses \/ TierUnlock
    \/ TierEmpty \/ ReloadRead \/ NothingRead \/ ReloadCommit \/ StepEnds
    \/ \E b \in Board : TierToDisk(b)
    \/ \E f \in File : \/ GiveBack(f) \/ ReloadRefill(f)
                       \/ \E b \in Board : EvictDrain(f, b) \/ TierReload(f, b)

-----------------------------------------------------------------------------
(* consistent_backup_impl.                                                  *)

BackupAlone == <<poolVars, clientVars, moverVars, kind, begun>>

\* The maintenance window is looked at, the .tmp files are opened ...
BackupOpens ==
    /\ bpc = "idle" /\ maint = 0 /\ begun < MaxBackups
    /\ kind = "auto" => hand["server"] = None
    /\ bpc' = "open" /\ begun' = begun + 1
    /\ UNCHANGED <<poolVars, clientVars, moverVars, kind, next, tmp, pub, hist, lock, maint>>

\* ... the window is entered ...
BackupEnters ==
    /\ bpc = "open"
    /\ bpc' = "lockAnalysed" /\ maint' = maint + 1
    /\ UNCHANGED <<BackupAlone, next, tmp, pub, hist, lock>>

\* for (fp = 0; fp < nb_file_possibility; fp++)
Loop(here, then) ==
    IF next < NF THEN next' = next + 1 /\ bpc' = here ELSE next' = 1 /\ bpc' = then

\* ... and every lock is taken, the analysed files first.
LockNext(pool, here, then) ==
    /\ bpc = here /\ Free(<<pool, next>>)
    /\ lock' = [lock EXCEPT ![<<pool, next>>] = "backup"]
    /\ Loop(here, then)
    /\ UNCHANGED <<BackupAlone, tmp, pub, hist, maint>>

\* Mutant: the tier is not frozen.
FreezeNothing ==
    /\ bpc = "freeze" /\ bpc' = "snapshot"
    /\ UNCHANGED <<BackupAlone, next, tmp, pub, hist, lock, maint>>

\* tier_hook_freeze
Freeze ==
    /\ bpc = "freeze" /\ Free(TierMutex)
    /\ bpc' = "snapshot" /\ lock' = [lock EXCEPT ![TierMutex] = "backup"]
    /\ UNCHANGED <<BackupAlone, next, tmp, pub, hist, maint>>

\* stock_spill_snapshot: the segments are copied under g_spill_mutex.
Snapshot ==
    /\ bpc = "snapshot"
    /\ bpc' = "manifest"
    /\ tmp' = [tmp EXCEPT !.d = disk]
    /\ UNCHANGED <<BackupAlone, next, pub, hist, lock, maint>>

\* The mutex is dropped; the manifest keeps what the descriptors then say of the copy:
\* the end of a reload may have cut the disk meanwhile.  This is instant T.
\* An autobackup replaces the snapshot that the published file names; a self-contained
\* one has a directory of its own.
Manifest ==
    /\ bpc = "manifest"
    /\ bpc' = "writeAnalysed"
    /\ hist' = [hist EXCEPT ![begun] = [a |-> Analysed, s |-> Listed \cup tier, d |-> disk]]
    /\ LET kept == SubSeq(tmp.d, 1, Len(disk))
       IN  /\ tmp' = [tmp EXCEPT !.d = kept]
           /\ pub' = IF kind = "auto" THEN [pub EXCEPT !.d = kept, !.dId = begun] ELSE pub
    /\ UNCHANGED <<BackupAlone, next, lock, maint>>

\* Mutant: the stock file is released with the analysed file.
WriteAnalysedFreesStock ==
    /\ bpc = "writeAnalysed"
    /\ tmp' = [tmp EXCEPT !.a = @ \cup analysed[next]]
    /\ lock' = [lock EXCEPT ![<<"analysed", next>>] = "free", ![<<"stock", next>>] = "free"]
    /\ Loop("writeAnalysed", "writeStock")
    /\ UNCHANGED <<BackupAlone, pub, hist, maint>>

\* Each analysed file is written and released ...
WriteAnalysed ==
    /\ bpc = "writeAnalysed"
    /\ tmp' = [tmp EXCEPT !.a = @ \cup analysed[next]]
    /\ lock' = [lock EXCEPT ![<<"analysed", next>>] = "free"]
    /\ Loop("writeAnalysed", "writeStock")
    /\ UNCHANGED <<BackupAlone, pub, hist, maint>>

\* ... then each stock file ...
WriteStock ==
    /\ bpc = "writeStock"
    /\ tmp' = [tmp EXCEPT !.s = @ \cup list[next]]
    /\ lock' = [lock EXCEPT ![<<"stock", next>>] = "free"]
    /\ Loop("writeStock", "writeTier")
    /\ UNCHANGED <<BackupAlone, pub, hist, maint>>

\* ... then the tier, which is thawed; the window is left.
WriteTier ==
    /\ bpc = "writeTier"
    /\ bpc' = IF kind = "complete" THEN "embed" ELSE "renameAnalysed"
    /\ tmp' = [tmp EXCEPT !.s = @ \cup tier]
    /\ lock' = [lock EXCEPT ![TierMutex] = "free"]
    /\ maint' = Left(maint)
    /\ UNCHANGED <<BackupAlone, next, pub, hist>>

\* stock_spill_embed_snapshot, outside the locks.
Embed ==
    /\ bpc = "embed"
    /\ bpc' = "renameAnalysed"
    /\ tmp' = [tmp EXCEPT !.s = @ \cup SeqRange(tmp.d)]
    /\ UNCHANGED <<BackupAlone, next, pub, hist, lock, maint>>

\* The analysed file is published, unless an error occurred while it was written ...
RenameAnalysed ==
    /\ bpc = "renameAnalysed"
    /\ bpc' = "renameStock"
    /\ pub' \in {pub, [pub EXCEPT !.a = tmp.a, !.aId = begun]}
    /\ UNCHANGED <<BackupAlone, next, tmp, hist, lock, maint>>

\* Mutant: a publication that fails is tried again.
RenameStockRetries ==
    /\ bpc = "renameStock"
    /\ \/ /\ bpc' = IF kind = "auto" THEN "sidecar" ELSE "idle"
          /\ pub' = [pub EXCEPT !.s = tmp.s, !.sId = begun] /\ tmp' = NoImage
       \/ bpc' = "renameAnalysed" /\ UNCHANGED <<pub, tmp>>
    /\ UNCHANGED <<BackupAlone, next, hist, lock, maint>>

\* ... then the stock file, on the same condition; a self-contained one has no
\* .spillcount ...
RenameStock ==
    /\ bpc = "renameStock"
    /\ tmp' = NoImage
    /\ \/ /\ bpc' = IF kind = "auto" THEN "sidecar" ELSE "idle"
          /\ pub' = [pub EXCEPT !.s = tmp.s, !.sId = begun]
       \/ bpc' = "idle" /\ UNCHANGED pub
    /\ UNCHANGED <<BackupAlone, next, hist, lock, maint>>

\* ... and an autobackup writes the .spillcount that names the snapshot, if it can.
WriteSidecar ==
    /\ bpc = "sidecar"
    /\ bpc' = "idle"
    /\ pub' \in {pub, [pub EXCEPT !.named = begun]}
    /\ UNCHANGED <<BackupAlone, next, tmp, hist, lock, maint>>

BackupGoesOn ==
    \/ BackupEnters
    \/ LockNext("analysed", "lockAnalysed", "lockStock")
    \/ LockNext("stock", "lockStock", "freeze")
    \/ Freeze \/ Snapshot \/ Manifest \/ WriteAnalysed \/ WriteStock \/ WriteTier \/ Embed
    \/ RenameAnalysed \/ RenameStock \/ WriteSidecar

-----------------------------------------------------------------------------
Next == Client \/ ServerStep \/ Mover \/ BackupOpens \/ BackupGoesOn

\* The backup's thread runs; a spill step moves at most max_packets possibilities, so
\* it leaves the tier and ends, unless it waits for a list.
Fairness ==
    /\ WF_vars(BackupGoesOn)
    /\ WF_vars(EvictPush \/ EvictFails) /\ SF_vars(TierUnlock) /\ SF_vars(StepEnds)

Spec == Init /\ [][Next]_vars /\ Fairness

-----------------------------------------------------------------------------
(* Properties.                                                             *)

\* What is published is what the pools held at instant T (consistent_backup_impl),
\* although they were released one after the other while the clients, the spill thread
\* and server_step went on, and although the segments were copied before instant T and
\* a reload begun before the window may have cut the disk in between.  An autobackup's stock file
\* is read with the snapshot it shares with the next autobackup: this holds as long as
\* both come from the same backup.
PublishedIsInstant ==
    /\ pub.aId > 0 => pub.a = hist[pub.aId].a
    /\ pub.sId > 0 /\ (kind = "auto" => pub.dId = pub.sId) =>
           pub.s \cup SeqRange(pub.d) = hist[pub.sId].s \cup SeqRange(hist[pub.sId].d)

\* At instant T every possibility that remains to be analysed is in the analysed pool, in
\* a list, in the tier or on disk, and in one of them only (what a reload has put back in
\* a list is still on disk until its commit): the backup misses what a thread has in
\* hand between two critical sections, what a failed eviction gives back, and what
\* was set aside (error file, report of a loss), and nothing else.
InstantIsWhole ==
    bpc = "manifest" =>
        LET Carried == Hands \cup aside
                          \cup (IF mpc = "giveBack" THEN block ELSE {})
            Stays == IF mpc \in {"refill", "commit"} THEN SubSeq(disk, 1, from) ELSE disk
            Places == <<Listed, Analysed, tier, SeqRange(Stays)>>
        IN  /\ born \ done \subseteq
                   Listed \cup Analysed \cup tier \cup SeqRange(disk) \cup Carried
            /\ \A i, j \in 1..4 : i # j => Places[i] \cap Places[j] = {}

\* A backup ends: the locks it waits for while it holds others (pools, then tier) are
\* never held by a spill step that waits for a pool (tier, then a try on the pool).
BackupEnds == (bpc # "idle") ~> (bpc = "idle")
=============================================================================
