# A TLA+ verification of the Eternity II solver

The repository is a distributed solver of the Eternity II puzzle written in C: a
server that owns the search space, client programs that fork worker processes, and
workers that search or prune partial boards. This directory models the parts of it
whose correctness depends on orders of events no unit test fixes, checks the models
with TLC on small instances, and proves the main invariants with TLAPS for every
instance. `PROJECT.json` maps every definition to the source lines it stands for, and
lists the hazards the properties are about.

## 1. Inventory

| Part | Source | State it keeps | Operations | Module |
|---|---|---|---|---|
| Work distribution | `core/datamanager.c`, `app/etii_server.c`, `net/etii_protocol.c` | stock pools (checked, unchecked), analysed pool with an owner per board, per-connection last hand-out, error file | GET, ADD, acknowledgement, end of a session, requeue, lease pass, purge | WorkDistribution |
| Worker process threads | `app/etii_client.c`, `core/etii_search.c` | `works`, `aposs`, the file of boards to acknowledge, the own stock, the `request` flag | feed, search/prune, flush, regulator, pause/resume, stop | RequestFlag, WorkerFeed |
| Fork gate | `app/fork_gate.c`, `ui/console.c` | the request flag, one slot per thread | register, checkpoint, mark blocked, request and release quiescence, I/O locks | ForkGate |
| Fork orchestrator | `app/fork_orchestrator.c`, `app/app_runtime.c` | orchestrator state, pending spawn, pids, last reports, escalation | commands, countdown, spawn, stop escalation, hot restart | ForkOrchestrator |
| Search | `core/etii_search.c`, `core/possibility.c`, `core/part.c` | the decision stack, the incremental state beside the board, the pending brothers | place, undo, prune, delegate, flush, short proof | Puzzle, Search, Exploration |
| Stock pools, backup | `core/datamanager.c`, `core/lifo.c`, `core/backup_stream.c` | arrays of files, each with its lock; backup files | moves between pools, maintenance, consistent backup | StockBackup |
| Expansion of the stock | `core/datamanager.c`, `core/stock_spill.c` | a work file, the threads of a pass, the mark of the tier | a pass, batches, store, evict, relief, flush | SpillTiers, Expansion |
| Checks and sorts of the stock | `core/datamanager.c` | shares of the pairs, flags, `sort_state` | checkDuplicate, checkOrigin, sort of a list, periodic sort | StockAudit |
| Restore of a backup | `core/datamanager.c`, `ui/command_lines.c` | blocks on their way, memory reserved, queue of the workers | read, group, compress, stack in the order of the file, overflow, analysed file | StockImport |
| Disk tier | `core/stock_spill.c`, `core/stock_tier.c` | segments, counters, hard links of a snapshot | append, evict, reload, snapshot, reset, restart, restore | SpillSegments |
| Sort of a backup | `core/backup_sort.c` | ring of frames, runs, ranges, parts | parallel reader, sort, merge, join, publish | SortInput, BackupSort |
| Control channel, known clients | `app/control_registry.c`, `app/etii_control.c`, `app/known_clients_registry.c` | sessions with their queue, desired state, register of machines | register, post, broadcast, send, dosage, reconnect, restart | ControlChannel |
| Wire protocol, HTTP, configuration, console, logger, codecs, statistics, GPU | the rest of `app/`, `net/`, `ui/`, `core/` | | | not modelled, see 6 |

How they interact. A client's parent process drives its forks through the
orchestrator; before each `fork()` it brings its other threads to rest with the gate.
Each fork runs a feed thread and a search thread over shared variables; both speak to
the server on one socket, request by request. The server handles each connection in
its own thread over the shared pools and runs a checker thread that makes lease
passes. A control session per client tells the server which clients are alive, which
is what the lease asks, and carries the operator's orders. A spill thread moves the
stock between memory and disk beside all of them; backups, restores, expansion and
checks are commands that meet all of it.

What is hard. The server tracks every board it has handed out, and takes it back when
its client seems dead; a client that only seemed dead goes on, deposits and
acknowledges, after others were given the same board. Answers are lost after the
request took effect. The worker's flag is written by three parties without a lock.
The orchestrator acts on snapshots while commands change the state. A child inherits
the locks of threads that do not exist in it. The search keeps beside the board a
state that it must undo exactly, and gives away parts of its own stack. A board of the
stock is in a list, a block, a file or somebody's hand, under different locks, and a
snapshot shares the files of the live disk. A client reconnects while its old session
is still served, and both close in any order.

What makes each part correct. Distribution: no branch of the tree is lost, everything
a dead client held comes back. Worker: a board is acknowledged only when its result is
stored; one batch at a time; a stop ends. Gate: nobody runs in the window; no lock of a
resting thread is inherited; nobody stays parked. Orchestrator: forks exist only where commands can
reach them; no pid is overwritten; a stop ends and does not end the parent. Search:
every solution under a root is reported, sent or still to be met, once. Pools, tiers
and backups: each possibility is in one place; a backup is the state of one instant;
what is restored is what was saved; memory stays under its limit; every command ends.
Control: an order reaches who it was meant for, and a client ends in the state the
operator wants however often it reconnects.

## 2. Modules

Each component is one module; its theorems are in a `Proofs` module (those of the three
parts of a client together in `ClientProofs`, those of the commands on the stock,
StockImport and StockAudit, in `StockCommandsProofs`), and `Iteration` holds the inductions that
several proofs take. The runs are made on `MC` modules; those named in section 3 put several components side by side with a
variable `part` chosen by the initial state: a behaviour is a behaviour of one of them,
the others being left alone (the actions `InX`). That is a way to check several
independent components in one run, not an interaction; the interactions are inside the
components' own modules.

### WorkDistribution

The abstract specification of the whole system: the server's pools and tables, and
what every worker may do to them. A possibility is abstracted to the set of terminal
boards below it (`Leaves`), its continuations (`Kids`) and the relation
`is_origin_of` (`Origin`), with the assumptions the code has on them: the
continuations of a board partition what is below it, an origin covers its descendants
and has fewer pieces (`OriginWellFounded`).

| State | Code |
|---|---|
| `stock`, `analysed`, `errfile` | `file_possibility(_checked)`, `file_possibility_analysed` with its index, `./error_possibility` |
| `serves`, `link`, `lastSent`, `unread` | the client table of `etii_server.c`, the connection, `last_sent`, a request still in the socket of a broken connection |
| `ctrl`, `clientUp`, `up` | control sessions of the registry, processes |
| `todo`, `roots`, `local`, `recycled`, `feed`, `sock` | the batch in progress, the worker's analysed file, its own stock files, where `feed_one_thread` is |
| `pass`, `reclaimed` | the lease pass of `check_server_step` |
| `clock`, `explored`, `hazard`, `faults` | history and bounds |

Actions: the exchanges `Ack`, `Get`, `Deposit` and their failures (`...ReplyLost`:
the server acted, the answer is lost; `...Unread`: the request is read after the link
broke; refused; lock budget exhausted), the worker's own work (`Expand`, `Close`,
`TakeLocal`), the end of a session (`EndSession`, `RequeueLastSent`, `FreeSlot`), the
lease pass in its three separately locked steps (`ReclaimExpired`, `PurgeAnalysed`,
`PurgeStock`), and the environment (crashes, lost sessions).

The four ways in which the code can lose a branch are recorded in `hazard` when they
happen: an acknowledgement removes the entry of another hand-out of the same board
(`foreignAck`); the purge runs after the board it keeps has left the stock
(`purgeRace`); a worker dies with boards of its own stock (`localLoss`); a flush drops
boards because the server cannot be reached (`flushDropped`). `LossExplained` says
that nothing else loses a branch. The first two contradict the documentation and have
a run of their own.

### RequestFlag and WorkerFeed

One worker process. `RequestFlag` is the `request` flag with its three writers: the
signal handler, `control_step` and the pause commands, the last two of which read,
decide and write in separate steps. `WorkerFeed` extends it with the feed thread
(`fpc`) and the search thread (`spc`), one action per step between two accesses to
shared state, and an abstract server (`stock`, `tracked`, `stored`).

### ForkGate

`fork_gate.c`: every operation under `g_mutex` is one step, the fast path of the
checkpoint reads the flag without it. Participants take and release locks while they
work; `GateFork` records the locks a child is born with, and whose they were. The
constant `Typist` holds the threads that work while they are declared blocked: the raw
console, which handles keys between `fork_gate_mark_blocked(slot, 1)` and `(slot, 0)`
(`getcmdline_raw`). It is `{console}` in every run. `ChildInheritsNoLock`, which the
comments of `fork_gate.h` and `console.c` say, is then violated (section 5).
What the gate and `fork_gate_acquire_io_locks` do give is `InheritsOnlyFromTypist`: no
child inherits a lock of a thread that was parked, nor the output lock from anyone,
although a typist may be writing when the fork is decided.

### ForkOrchestrator

`fork_orchestrator.c`: commands apply their transition at once, the driver takes a
snapshot (`Wake`) and acts on it later. Forking and recording the pid are two steps; a
child that is already dead when it is recorded is forked again in the same slot
(`RecordDead`), a fork that fails leaves its slot empty, and ten failures end the batch.
Time is counted in units of five seconds, the step of the stop escalation.
`OrchRegulated` lets a fork undo its stop, which `RequestFlag` shows possible.
`staleStart` records that a restart was refused when a start had already been accepted.

### Puzzle, Search and Exploration

`Puzzle` is the data and the pure algorithms of `possibility.c`: pieces, rotations, the
compartments of a cell given its four sides, the checks of a board, the forward check,
the light pruning. `Search` is one exploration of a root by the MRV engine: the stack
of levels (`stack`), the state the engine keeps piece by piece (`used`, `cell_mask`,
`constraints`, the frontier and the weights), the loop by its places (`engPc`),
delegation of pending brothers when the server is hungry, the flush at a stop or on a
shallow root, and the short proof of the server's expansion (no delegation, a budget of
nodes). Packets leave as `put_to_server` sends them, in chunks (`ChunkOf`): a chunk is
accepted (`sent`) or refused and put in the stock of the process (`kept`), and when the
connection breaks the chunk on its way and those after it are put there too. The
delegation then leaves its stack as it was, so its packets are at once handed over and
open here: `doubled` holds them. `Exploration` is what any exploration promises: the solutions under its root
are open; each is closed only by being reported or by leaving in a packet; the root is
declared exhausted only when none is open. A broken exchange is part of the promise: it
may share work without closing it. `Search` implements it
(`ImplementsExploration`), with the open solutions computed from the stack.

### StockBackup

The server's stock in its four places (lists, compact RAM tier, disk, analysed pool),
everything that moves possibilities between them, and `consistent_backup_impl`.

| State | Code |
|---|---|
| `list`, `analysed` | `file_possibility` and `file_possibility_checked` (one pair per file), `file_possibility_analysed` |
| `tier`, `disk` | the compact blocks of `stock_spill.c`, its live segments as one stack |
| `hand`, `aside` | what a handler has taken from one pool and not yet put in another; `./error_possibility` and reported losses |
| `lock`, `maint` | the per-file locks and `g_tier_mutex` when held over several steps, `maintenance` |
| `mpc`, `block`, `read`, `from` | where `stock_spill_step` is, what it carries |
| `bpc`, `next`, `tmp`, `pub` | where the backup is, its `.tmp` files, the published files |
| `begun`, `hist` | history: the number of backups, and what the pools held at the instant of each |

Each critical section of a handler is one action; a lock that is held across several
sections is in `lock`. The clients take (`GetTake`), record or give up (`GetRecord`,
`GetGivesUp`), deposit and acknowledge; `server_step` reclaims and rebalances in two
sections each (`Reclaim`, `Rebalance`, `PutBack`). The spill thread looks at the
maintenance window once, works on the tier under its mutex, and reloads the disk in
three sections (`ReloadRead`, `ReloadRefill`, `ReloadCommit`), the first and the last
of which need no lock that the backup holds. The backup takes the analysed locks, the
stock locks and the tier's mutex, copies the segments, writes the manifest after the
segments' mutex is dropped, writes and releases the pools one by one, then publishes.
What depends on the RAM limit (when to evict, spill or reload) is a free choice. The
model is the configuration with the RAM tier on.

### SpillTiers and Expansion

`SpillTiers` holds the places below a list as values: the blocks of the tier with the
mark of a pass (`stock_tier_link`, `stock_tier_unlink`), the segments with their top.
`Expansion` is `expand_datas_to_level`: passes over the unchecked stock, threads that
take batches under the pass's lock, read the disk one at a time, develop, prune, prove
shortly, store their children in a list or in the tier under the RAM cap, evict and
relieve on demand, beside clients that take and the spill thread. A segment that is not
the top of its stack is read outside `g_spill_mutex` and removed later, if it is still
the same (`UnlinkSegment`); without the tier an eviction drains a list in one critical
section and appends to the disk in another, in the spill thread as in a thread of the
pass (`ReliefDrains`, `ReliefAppends`). Memory is counted in
the units of `PacketBytes` and `TierBytes`. Developing a board is a fixed tree
(`Children`, `Proved`): `Search` is about that part. `settings` say with what the
server was started (tier, disk, both, neither), and what fails.

### StockAudit

The commands that look at every pair or list: `check_duplicate` and its threads with
their shares of the pairs, `check_origin` and its purge in two phases, the sort of one
list and the record `sort_state` that tells the periodic sort what to skip. Both first
commands hold every lock of the stock, so that only their own threads run beside them.

### StockImport

`restore_apply`: the disk part is replaced first, then the file is read, its records
grouped in blocks, compressed by workers and stacked in the order of the file, under
the soft limit of memory; what the tier refuses goes to the lists; then the analysed
file. `Backups` and `ImpSettings` choose the kind of backup, its faults, the limits.

### SpillSegments

The disk as files: an inode is its names and its frames; a stack of segments per list
with its logical top; a snapshot that shares full segments by hard link and copies the
top; the reset of the checked stacks, segment by segment; a crash, a restart, and the
restore with another number of lists. Four races of the code break its properties;
each is a value of the constant `Races` (section 5), empty in the passing run.

### SortInput and BackupSort

`SortInput` is the parallel reader of a compressed backup: a dispatcher cuts frames
into a ring, workers decompress, the reader takes slots in the order of the file; one
mutex and three condition variables, on which the threads wait and are signalled as in
the code. `BackupSort` is the sort itself: two buffers, slices sorted by threads and
written as runs with an index, ranges chosen from samples, one merge per range, the
parts joined and the output renamed, with each error path.

### ControlChannel

| State | Code |
|---|---|
| `reg` | `g_sessions` (number, client, queue of each slot), the next number, the desired pause, `g_desired_roles`, the dosage of the automatic policy |
| `ctlLink` | each connection: is the client's end open, where the server's thread is, its slot, the frame on the wire |
| `cl` | the client: request flag, staged and applied dosage, current connection |
| `known`, `saved` | the register of machines, each with the time it was last seen, evicted in that order; its file |
| `ctlHist` | history: who had a number when it was given, whom the desired state does not cover |

A client opens a connection (`CtlConnect`), obeys and answers (`ServeFrame`), gives it
up; the server's thread registers it (`Hello`), shows it (`KnowConnect`), sends what is
queued (`Dequeue`), polls, and ends in two steps (`KnowDisconnect`, `Leave`). The
operator orders to all, to a target (number, client, label) or a dosage; the server may
restart and restore its file while clients are connected.

## 3. Runs

| Run | Module | Expect | Shows |
|---|---|---|---|
| `WD_loss` | MCWorkDistribution | pass | `TypeOK`, `LossExplained`, `RootsAccounted`, `LateAcksAccounted` under two faults among lost links, lost answers, refusals, suspicions, crashes of clients and forks |
| `SV_clients` | MCServer (work, control) | pass | `LossExplained` under crashes and busy locks; `CommandsReachAddressee`, `RegisterExact`, `DesiredStateReached`; `GoneIsReleased`: what a client that is gone held, a board or a slot, is taken back |
| `CP_client` | MCClient (run, stop, orch) | pass | `WorkerTypeOK`, `ResultBeforeAckWhileRunning`, `OneBatch`, `NoForkWhileWaiting`, `NoForkLost`, `ParentOutlivesStop`; `WaitsEnd`: a stop ends |
| `WK_search` | MCWorker (search, gate) | pass | `EngineStateExact`, `PruningSound`, `SharedWorkIsDisjoint`, `QuietWindow`, `InheritsOnlyFromTypist`; the refinement `ImplementsExploration`; `ThreadsProceed` |
| `BK_files` | MCBackup (backup, sort) | pass | `StockTypeOK`, `PublishedIsInstant`, `InstantIsWhole`, `SortRight`, `SortLeavesNoTrace`; `BackupEnds` |
| `SK_stock` | MCStock (expand, audit, import, reader, segments) | pass | `EachBoardOnce`, `LevelByLevel`, `OriginsRight`, `SortRemembered`, `ImportRight`, `MemoryBounded`, `InputRight`, `DiskTrue`, `SnapshotStays`, `RefusedWhenFull`; `CommandsEnd` |
| `WD_purge_race` | MCWorkDistribution | violation | `PurgeSafe`: a GET between the lease pass and its purge |
| `WD_late_ack` | MCWorkDistribution | violation | `LateAckHarmless`: a late acknowledgement finds another client's entry |
| `WF_ack_early` | MCWorkerFeed | violation | `ResultBeforeAck`: at a stop the feed thread acknowledges boards still being explored |
| `FO_restart_fail` | MCForkOrchestrator | violation | `NoForkOutsideRunning`: start during a restart that is then refused |
| `AU_missed` | MCAudit | violation | `DuplicatesFound`: with more threads than shares, pairs that no thread compares |
| `SP_clobber` | MCSegments | violation | `StockInOnePlace`: a snapshot copies a top onto a file the live stack shares |

Bounds. *Distribution*: two workers and two slots are what a race for one board needs,
an old owner and a new one; a tree of a root and two continuations has an origin, a
descendant and a sibling; two faults and two hand-outs let a board be handed out, given
back, handed out again and acknowledged late. *Client*: two boards in one batch, one
stop signal; two forks and three commands cover stop, start and restart in any order.
*Gate*: three participants of the two kinds, one of them the console at its keys, two
locks, one of them the logger's; two quiescences so that the second meets what the first
left. *Search*: nine pieces and two inner colours, roots of one, two and five pieces, so
that edges are found from both sides and a short proof fails for depth; one or two
delegation checks, hunger none or three, two chunks, so that one is accepted before the
connection breaks and one never leaves (20 841 distinct states). *Backup*: two files, so that one is
released while the other is locked; two possibilities, one saved while the other moves;
one backup of each kind. *Sort*: every sequence of four records of four, two longer
inputs, each fault; buffers of three records and two threads make several runs and
ranges. *Expansion*: seven possibilities on three levels, two threads, memory for two
and a half of them, so that eviction, relief, refusal and deferral all happen (496 000
distinct states with the other parts of `SK_stock`; 1.2 million in `CP_client`). *Audit*:
four possibilities over four lists in all orders, two threads (eight in `AU_missed`),
thread creation that may fail. *Import*: seven records, queue of one, blocks of two,
memory for eight. *Reader*: ring of two, two workers, files of up to five items.
*Segments*: three records, frames of two records per segment, three segments, one
snapshot, two reloads or one restart. *Control*: two clients of one or two machines,
three connections, two slots, queues of three (the two commands of a dosage and a
pause), one place in the register. Deadlock is checked in `BK_files`, where the clients
can always go on or the backup can; elsewhere it is not: bounded environments stop, and
an idle system waits.

Fairness. *Distribution*: the server's session threads and its checker thread run;
nothing is assumed of workers. *Control*: the server's threads run, their receives and
sends being bounded by timeouts; nothing of clients and operators. *Client*: both
threads of a living process are scheduled, the regulator and the operator may never
act; the driver runs, time passes, and a fork that stops falls silent because its last
exchanges are bounded by `tcp_timeout`. *Gate*: the orchestrator thread is scheduled
(its wait is bounded by a timeout), a thread woken by the condition variable runs, and
a lock taken is eventually released, and the orchestrator, which waits for the output
lock, gets it when it is free again and again (strong fairness). *Search*: its thread is
scheduled, and it is not paused again and again for ever. *Backup*: its thread runs; a
spill step moves at most `max_packets` possibilities, so it puts what it has drained in
the tier or gives it up (weak fairness), and leaves the tier and ends when it can again
and again (strong fairness); nothing of clients, `server_step`, or a spill step that
waits for a list. *Stock*: each thread of a command is scheduled (`Thread(k)` is the
k-th thread of whichever command the behaviour is about), and nothing else.

## 4. Proofs

Assumptions: only the named `ASSUME`s of the modules.

- `WorkDistributionProofs`: `Invariance` proves `Spec => []IInv` with `IInv` the
  conjunction of `TypeOK`, `SockOK` (a worker's socket leads to the slot the server
  keeps for it), `HandOutsOK` (no hand-out number is ahead of the clock),
  `LossExplained`, `RootsAccounted` and `LateAcksAccounted`. The strengthening is the
  point: `LossExplained` is not inductive, since an acknowledgement removes an entry.
  `RootsAccounted` says, of each hand-out not acknowledged, that every terminal board
  below it is covered by something *younger* or is still in the worker's memory.
  Because hand-outs are ordered by the clock, two workers cannot cover for each other
  in a circle. `TypeCorrect`, `NothingLost`, `AcksAreSafe` and `LateAcksAreSafe` (the
  same of a request that is still in a socket) follow.
- `ClientProofs`, of a worker: `WorkerInvariance`, from which `WorkerTypeCorrect`,
  `AckAfterResult` and `OneBatchAtATime`. The invariant ties the batch, what has been
  taken up, and the file of boards to acknowledge to where both threads are.
- `ClientProofs`, of the gate: `GateInvariance`, from which `WindowIsQuiet` and
  `InheritedIsTypists`, for any threads and locks, with any of them typists. The
  invariant relates a thread's slot to where it is, and says that no thread passes from
  rest to its loop while the request stands; that a thread which rests and is no typist
  holds nothing; and that nobody holds the output lock while the orchestrator does.
- `ClientProofs`, of the orchestrator: `OInvAlways`, from which `WaitingHasNoFork`,
  `ForksStayReachable` and `StopKeepsParent`. The driver acts on a snapshot that the
  commands make stale; the invariant says what stays true of each place of the driver
  whatever they do: a spawn is pending only when nothing lives, only the driver leaves
  RUNNING or STOPPING, and a living fork is in its slot or about to be recorded.
- `StockBackupProofs`: `BInv` is inductive, and gives `StockTypeCorrect` and
  `BackupIsInstant`. It says, for each place of the backup, which locks are still held,
  and that what is already written, together with what the pools still locked hold, is
  the image of the instant. The other threads are dealt with once: whatever they do,
  they leave alone what a lock of the backup covers, and with the tier frozen the disk
  can only lose its top (`Elsewhere`), so that the manifest, written after the copy,
  names a beginning of it.
  From a second invariant of the same module, `InstantWhole`: an instant holds every
  possibility which
  remains to be analysed, in one pool only. Each possibility has at most one place
  among lists, tier, disk, analysed pool, hands, what the spill thread carries, and
  what was set aside; and those under a root that nobody closed have one. A step moves
  a set from one place to another, and one lemma (`MoveKeeps`) says that this keeps
  both. A reload is the hard case: between its refill and its commit the same frames
  are in a list and on the disk, so the disk counts only below the place where the
  reload began.
- `StockCommandsProofs`, of the import: `ImportInvariant`, from which `ImportMemoryBounded` and
  `TierLeftWhenFull`, for any backup, limits, number of threads and depth of queue. It
  is an account of reservations (`ReservationsTrue`): each job in a queue that is not
  linked yet stands for as many places as its block has records and one more, the
  block on its way to a slot for its own, and `g_import_inflight` is the number of all
  these places. It needs that the slots of a queue in use do not overlap, whatever the
  place of its head (`RankAt`), and that a thread at work has its job at the head
  (`QueuesOK`). Then linking a block releases more than it adds, and what is linked
  plus what is reserved grows only where the limit has been tested (`MemoryOK`). A
  refusal is settled by `RefusalOK`: between the reading of what is in flight and the
  refusal, `inflight` can only shrink, and a thread that would change the stock holds a
  reservation; so with nothing seen in flight the stock is as the disk left it.
- `StockCommandsProofs`, of checkOrigin: `OriginsAreRight` is `OriginsRight`, for any
  lists, number of threads and order of their steps. The account is one of pairs
  (`PairsSeen`): an entry that an earlier one covers is flagged, or a thread still has
  the pair before it (`Ahead`: its place, then every `NB_ORIGIN_THREAD`-th root), and a
  thread moves past a pair only when it has flagged it or it need not (`ThreadMoves`).
  When the threads have ended no pair is left, so what is kept covers nothing that is
  kept; and the first entry that covers a given one is itself covered by none, so
  everything that is removed has a root which is not. It needs the order of `qsort` (a
  root has fewer pieces, so it comes before) and that `origin_upper_bound` separates the
  copies from what has more pieces (`UpperBoundIs`).
- `StockCommandsProofs`, of the sorts: `SortsAreRemembered` is `SortRemembered`. The
  walk of `sort_one_file_*` moves elements in the list it walks; the list stays a
  permutation, in order up to the place of the walk (`WalkOK`). An element that comes
  after the next one goes before the first of the next level that is known, or to the
  end, and that is always behind the next element (`MovedPlace`): what is before the
  walk has a level at most its own. Each level known to the table is the level of the
  element it names (`LairOK`). For `sort_state`, a list that is said to be in order is
  so step by step, and the sorted list that the periodic sort puts in its place is
  (`LevelsSortedIs`, by `FoldInduction`).
- `SortInputProofs`: `ReaderIsRight`. Sequence numbers in the ring form a window of at
  most `Ring` numbers, so slots of different numbers are apart and no two threads work
  on one; what the state of a slot promises (claimed, full of item *n*, failed) is
  kept by whoever holds it; so what the reader is given is the file, from its
  beginning, without a hole, whoever decompressed what first.
  `SortCleansUp` is `SortLeavesNoTrace`: a sort that ends leaves its output and nothing
  else, and one that is refused or fails, at any step of any thread, the files there
  were. By `TraceInv`, between the opening and the end there is nothing but the runs that
  the main thread has counted, the temporary file and, during the merge only, parts of
  its ranges: a merging thread runs only in the merge, on a range of the bounds, and
  these stay as they are until the threads have ended.
- `ControlChannelProofs`: `ChannelInvariant`, from which `OrdersReachAddressee` and
  `SlotsHaveOneOwner`. A slot in use belongs to the one connection that knows it and
  bears its client; session numbers only grow, so whoever had a number when the
  operator read it is who has it now, or nobody; a queue is emptied with its slot. The
  operator's four orders are one case (`PostsKeep`): they add to queues that have room
  and change neither numbers nor clients.

  `ClientsAsWanted` is `DesiredStateReached`, for all clients, orders, connections and
  restarts of the server at once. That a client with nothing on its way is as wanted is
  not inductive; that what is on its way will make it so is (`Told`). `Paused`,
  `Staged` and `Done` are the client as it will be once it has obeyed the frame on its
  connection, `PausedAfter` and `DosedAfter` what the queue then makes of it: the last
  pause or resume of the queue is what the operator wants, or there is none and the
  client is already so; the last config of the queue has the dosage and a later
  configApply, or there is none and the dosage is staged, and applied or about to be.
  Taking a command from the queue to the connection, or obeying it, leaves all this as
  it is (`PauseTaken`, `DoseTaken`, `ServeFrameTold`), so the interleaving of the threads
  with the client does not matter; a lost connection takes its session with it, and
  the next is told everything anew, provided its queue has room (`RoomForFirst`: three
  commands; `CONTROL_SESSION_QUEUE_CAP` is 16). It needs that the connection a client
  is on is its own and open, and that nothing is on a connection whose thread is not
  waiting (`LinkageOK`).

  `RegisterIsExact` is `RegisterExact`. Each entry of the register holds one session for
  a client at most and counts them, in all and by mode (`EntryOK`), so that an entry
  which is evicted, having no active session, loses none; and a client that was never on
  two connections at once is, from the time the server shows it to the time it hides it,
  in the entry of its machine, if that had room (`ShownOK`). A file is loaded one record
  after the other, and may hold more machines than the register: that each load of a
  record keeps `KnownOK` is the step, and `FoldInduction` makes of it the whole file.

- `Iteration`: a fold over a sequence or the numbers below a bound, and a recursive
  function on `0 .. n`, exist, are unfolded one step at a time, and have by induction
  what their first value has and each step keeps (`RecursionInduction`,
  `FoldInduction`). The operator folded and what is shown of it are constants of the
  module; a proof takes it with an `INSTANCE` for each fold.
- `SearchProofs`, for any board size, pieces, roots and settings. The inductive invariant
  is `EngineInv`: the board is a good one that keeps the pieces of its root (`BoardInv`);
  the constraints, the used pieces, the masks, the frontier and its counts are those
  which the board implies (`KeptInv`); each level of the stack holds the candidates its
  cell had on the *lifted* board, the board without that level's piece and those above
  (`LevelsInv`, `StackOK`). Exactness alone is not inductive: an undo puts back what was
  true of a board that is no longer there, and only the lifted boards say which.
  - `EngineExact` is `EngineStateExact`: placing and undoing a piece keep the state
    beside the board exact, and the packed comparison of the fast path chooses the cell
    of the plain one.
  - `SearchIsExploration` is the refinement `ImplementsExploration`, step by step. The
    open solutions are those below the board and below the pending brothers of each
    level (`OpenIs`); the regions of two levels are apart (`RegionsApart`); choosing a
    cell splits the solutions below a board among its candidates, the forward check
    drops only boards without solutions, and a delegation or a flush takes out of the
    open ones exactly what its packets hold.
  - `JudgementsHold` is `PruningSound`: what is forced is in every solution
    (`ForcingSound`), a refused board has none (`RefusedIsDead`), the count of the light
    pruning is the number of candidates (`CountIs`), the children of a board share out
    its solutions (`ChildrenShare`), and a short proof never completes a board, since it
    places at most one piece per node it counts (`ProofInv`).
  - `WorkIsInOnePlace` is `SharedWorkIsDisjoint`: a solution is under one packet at most,
    at the server or in the stock of the process, and then no longer open here
    (`SharedInv`), but for the packets of exchanges that broke, which are in two
    places. It rests on the refinement: what is open only shrinks, the packets of a step
    are apart and were open before it, and the chunks cut them in two sets (`PutIs`,
    `BrokenIs`).

  It assumes what the code is built for: a position fits a byte (`Size * Size <= 256`),
  the roots are boards of the puzzle whose pieces show no grey inside, and a search that
  does not delegate has a budget.

Only model-checked, and why. Liveness is out of the prover's reach: `GoneIsReleased`,
`WaitsEnd`, `ThreadsProceed`, `BackupEnds`, `CommandsEnd`. The others are within reach
and not proved yet. `EachBoardOnce` and `LevelByLevel` rest on `tier_to_disk`,
a fold for which `Iteration` has the induction. `SortRight` and `ImportRight` are about
sequences that are selected, merged and permuted, for which the library has few facts
(`SelectSeq` has none); of `ImportRight` the memory side is proved
(`ImportMemoryBounded`). `DiskTrue` and `SnapshotStays` need an invariant on which names
share which file, under three commands that may be cut anywhere by a crash.

## 5. Where the code and its documentation differ

The six violation runs show one each, and `PROJECT.json` quotes the lines. Others were
met while modelling. They are kept out of the properties, each by an explicit condition,
and the definitions named here are what a run of their own would check:

- *Disk tier* (`Races` of SpillSegments). `clobber`: a snapshot copies its top onto, or
  the live stack appends to, a file that both share (the run `SP_clobber`;
  `stock_spill.c:747` appends to a linked segment whose size is its logical top, against
  the comment at :733). `reload`: the commit of a reload sets the top to a place computed
  before its refill (`stock_spill.c:1188`; with `Races = {"reload"}` TLC finds `CutIsReloaded`
  violated by frames appended in between). `window`: the maintenance window is looked at
  only when a step begins (`stock_spill.c:3832`). `crash`: an autobackup replaces the
  shared snapshot before its stock file is renamed (`datamanager.c:3634`).
- *Delegation.* When a connection breaks between two chunks, `put_to_server` returns -1
  although the server has accepted some and the rest is in the stock of the process
  (`datamanager.c:1239`); `bt_delegate_if_needed` then leaves its stack unmarked, "le
  travail reste local" (`etii_search.c:1257`), and explores that work again.
  `FailedSendStaysHere` says that it does not, and TLC finds it violated; `doubled` is
  the work concerned, and `SharedWorkIsDisjoint` is about the rest.
- *Console.* `fork_gate.h:81` and `console.c:295` say that a thread marked blocked holds no
  lock; `getcmdline_raw` handles every key while marked, and takes `g_orch_mutex` and the
  logger's lock (`console.c:182`-186). `ChildInheritsNoLock` says what the comments do, and
  TLC finds it violated by a lock other than the logger's.
- *Restore.* `restore_apply` purges the disk stock before it has validated the file
  (`command_lines.c:1232`); the import of an analysed file ignores a refusal
  (`datamanager.c:4476`), and a truncated one is reported as complete
  (`datamanager.c:4340`).
- *Checks.* `sort_state` is not reset by the sorts of all files (`datamanager.c:7420`,
  :7711), by a sort with nothing to regroup, nor by the splice of the reset
  (`datamanager.c:7078`); it is read without the lock its comment names
  (`datamanager.c:7751`, `datamanager.h:588`); `sortDesc n` sorts without it
  (`command_lines.c:522`). `bypass` marks the lists concerned. A thread that cannot be
  created leaves its share of the pairs undone without a word.
- *Register of machines.* A process that reconnects before its old session ends is
  counted twice or not at all (`known_clients_registry.c:211`, against
  `known_clients_registry.h:74` and :50); a `resume` is not replayed to a client that
  connects while paused (`control_registry.c:217`, against `control_registry.h:245`).
  `ctlHist.unshown` and `pauseAmiss` mark the clients concerned.

Left out of a module that is otherwise complete: two sorts of backups at once with the
same output, or an `<out>.sorting` that an interrupted sort has left
(`backup_sort.c:1657`, :1875); the torn tail of a file of the old format, which a sort
drops without a word (`backup_sort.c:673`); the directory, copy or manifest of a
snapshot that cannot be written, which the backup does not notice
(`stock_spill.c:4100`-4214); a block of an import whose possibilities can be put neither
in the tier nor in a list because memory fails twice, which is logged as a loss
(`stock_spill.c:2272`).

## 6. Plan and what is not modelled

1. Done: the modules of section 2, and the theorems of section 4.
2. Next theorems: what the fold of `tier_to_disk` keeps, and from it that an expansion
   keeps each board in one place (`EachBoardOnce`) and proceeds by levels
   (`LevelByLevel`); the order of a stack in an import.
3. Next models: placement and scrolling of the pools under try-locks and budgets, shown
   to implement the bag `stock` of WorkDistribution; the byte stream of a connection
   after a receive timeout.

Not modelled: reading of data files, argument parsing, socket wrappers, logging, line
editing and screen layout are input and output; the packet codec is a packing of bits
its unit tests cover; the sliding rates and the best board are single records under one
mutex; the HTTP interface is a parser whose orders are those of ControlChannel; the
configuration is sequential, one file at a time; the CUDA pruner is out of TLC's reach
and has the contract of the CPU pruner. `PROJECT.json` lists every part with its reason.
