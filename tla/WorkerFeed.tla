----------------------------- MODULE WorkerFeed -----------------------------
(***************************************************************************)
(* The two threads of one worker process: the feed thread                  *)
(* (feed_thread_aposs), which acknowledges finished work and gets new       *)
(* work, and the search or pruner thread (autosearch_step,                  *)
(* autoprune_step), which does it.  They share `works` and `aposs`, the     *)
(* worker's file of boards to acknowledge, the socket, and the request      *)
(* flag.  The server is the abstract one of WorkDistribution: what it has   *)
(* to hand out, what it tracks as being analysed, what has come back.       *)
(***************************************************************************)
EXTENDS RequestFlag, FiniteSets

CONSTANTS
    Board,       \* the boards the server hands out to this worker
    Batch,       \* largest batch: pruner_batch_size, or 1 for a search client
    Unreliable   \* an exchange with the server may fail

ASSUME WorkerAssumption == Batch \in Nat \ {0} /\ Unreliable \in BOOLEAN

VARIABLES
    fpc,      \* where the feed thread is
    got,      \* what get_last_possibility gave it, not yet published
    works,    \* client->works
    aposs,    \* client->aposs ({} is NULL)
    recycled, \* the published batch came from the worker's own stock
    spc,      \* where the search thread is
    seen,     \* boards of aposs the search thread has taken up (index a)
    result,   \* boards in its stack or its batch of survivors
    file,     \* file_possibility_analysed: boards to acknowledge
    stock,    \* server: boards to hand out
    tracked,  \* server: boards handed out and not acknowledged
    stored,   \* boards whose result is with the server, or that are closed
    local,    \* the worker's own stock
    dropped   \* boards a flush dropped, the server being unreachable (history)

feedVars == <<fpc, got>>
searchVars == <<spc, seen, result>>
serverVars == <<stock, tracked, stored>>
workVars == <<feedVars, searchVars, serverVars, works, aposs, recycled, file, local,
              dropped>>
processVars == <<flagVars, workVars>>

WorkerTypeOK ==
    /\ FlagTypeOK
    /\ fpc \in {"top", "ack", "get", "record", "publish", "final", "done"}
    /\ spc \in {"wait", "work", "check", "requeue", "ack", "free", "reset", "done"}
    /\ works \in BOOLEAN /\ recycled \in BOOLEAN
    /\ {got, aposs, seen, result, file, stock, tracked, stored, local,
        dropped} \subseteq SUBSET Board

FeedInit ==
    /\ FlagInit
    /\ fpc = "top" /\ got = {}
    /\ works = FALSE /\ aposs = {} /\ recycled = FALSE
    /\ spc = "wait" /\ seen = {} /\ result = {}
    /\ file = {}
    /\ stock = Board /\ tracked = {} /\ stored = {} /\ local = {}
    /\ dropped = {}

-----------------------------------------------------------------------------
(* Exchanges with the server, each one atomic under socket_mutex.          *)

\* send_possibility_analysed.  When the exchange fails the boards go back to
\* the file, whether or not the server has removed them (B); nothing is sent
\* when the feed thread holds the lock of the file (it records a batch).
SendAnalysed ==
    \/ file' = {} /\ tracked' = tracked \ file
    \/ /\ Unreliable
       /\ \E A \in SUBSET file : \E B \in SUBSET file :
             A \subseteq B /\ file' = file \ A /\ tracked' = tracked \ B
    \/ fpc = "record" /\ UNCHANGED <<file, tracked>>

\* add_possibility of the results of the boards D, or of D themselves (back):
\* to the server, or to the worker's own stock; or, when put_to_server cannot
\* connect, nowhere: its callers log the error and free the boards.
Add(D, back) ==
    \/ /\ stored' = IF back THEN stored ELSE stored \cup D
       /\ stock' = IF back THEN stock \cup D ELSE stock
       /\ UNCHANGED <<local, dropped>>
    \/ Unreliable /\ local' = local \cup D /\ UNCHANGED <<stored, stock, dropped>>
    \/ Unreliable /\ dropped' = dropped \cup D /\ UNCHANGED <<stored, stock, local>>

-----------------------------------------------------------------------------
(* The feed thread.                                                        *)

\* Mutant: the feed thread does not look at works.
FeedAlways ==
    /\ fpc = "top" /\ request = "continue"
    /\ fpc' = "ack"
    /\ UNCHANGED <<flagVars, got, searchVars, serverVars, works, aposs, recycled,
                   file, local, dropped>>

\* feed_one_thread sees that the search thread needs work.
FeedNeeded ==
    /\ fpc = "top" /\ request = "continue" /\ ~works
    /\ fpc' = "ack"
    /\ UNCHANGED <<flagVars, got, searchVars, serverVars, works, aposs, recycled,
                   file, local, dropped>>

FeedAck ==
    /\ fpc = "ack"
    /\ SendAnalysed
    /\ fpc' = "get"
    /\ UNCHANGED <<flagVars, got, searchVars, stock, stored, works, aposs, recycled,
                   local, dropped>>

\* get_last_possibility: the own stock first, then the server, which tracks
\* what it hands out.
FeedGet ==
    /\ fpc = "get"
    /\ \/ \E S \in SUBSET local \ {{}} :
             /\ Cardinality(S) <= Batch
             /\ got' = S /\ local' = local \ S
             /\ recycled' = TRUE /\ fpc' = "publish"
             /\ UNCHANGED <<stock, tracked>>
       \/ \E S \in SUBSET stock \ {{}} :
             /\ local = {} /\ Cardinality(S) <= Batch
             /\ got' = S /\ stock' = stock \ S /\ tracked' = tracked \cup S
             /\ recycled' = FALSE /\ fpc' = "record"
             /\ UNCHANGED local
       \/ /\ local = {} /\ (stock = {} \/ Unreliable)
          /\ fpc' = "top"
          /\ UNCHANGED <<got, recycled, stock, tracked, local>>
    /\ UNCHANGED <<flagVars, searchVars, stored, works, aposs, file, dropped>>

\* add_possibility_analysed; its lock budget may run out while the search
\* thread acknowledges, and the return value is ignored.
FeedRecord ==
    /\ fpc = "record"
    /\ \/ file' = file \cup got
       \/ spc = "ack" /\ UNCHANGED file
    /\ fpc' = "publish"
    /\ UNCHANGED <<flagVars, got, searchVars, serverVars, works, aposs, recycled,
                   local, dropped>>

FeedPublish ==
    /\ fpc = "publish"
    /\ aposs' = got /\ works' = TRUE
    /\ got' = {} /\ fpc' = "top"
    /\ UNCHANGED <<flagVars, searchVars, serverVars, recycled, file, local, dropped>>

\* feed_thread_aposs leaves its loop.
FeedStops ==
    /\ fpc = "top" /\ request = "stop"
    /\ fpc' = "final"
    /\ UNCHANGED <<flagVars, got, searchVars, serverVars, works, aposs, recycled,
                   file, local, dropped>>

\* ... and acknowledges a last time.
FeedFinalAck ==
    /\ fpc = "final"
    /\ SendAnalysed
    /\ fpc' = "done"
    /\ UNCHANGED <<flagVars, got, searchVars, stock, stored, works, aposs, recycled,
                   local, dropped>>

-----------------------------------------------------------------------------
(* The search (or pruner) thread.                                          *)

\* Mutant: a stop does not wake the thread.
SearchWakesForWork ==
    /\ spc = "wait"
    /\ works /\ aposs # {}
    /\ spc' = "work"
    /\ UNCHANGED <<flagVars, feedVars, seen, result, serverVars, works, aposs,
                   recycled, file, local, dropped>>

\* Work has come, or a stop.
SearchWakes ==
    /\ spc = "wait"
    /\ (works /\ aposs # {}) \/ request = "stop"
    /\ spc' = "work"
    /\ UNCHANGED <<flagVars, feedVars, seen, result, serverVars, works, aposs,
                   recycled, file, local, dropped>>

\* The next board of the batch is taken up.
SearchTakes ==
    /\ spc = "work" /\ request # "stop"
    /\ \E b \in aposs \ seen : seen' = seen \cup {b} /\ result' = result \cup {b}
    /\ UNCHANGED <<flagVars, feedVars, spc, serverVars, works, aposs, recycled, file,
                   local, dropped>>

\* A board is refuted, or its subtree exhausted, or it holds a solution.
SearchCloses ==
    /\ spc = "work"
    /\ \E b \in result : result' = result \ {b} /\ stored' = stored \cup {b}
    /\ UNCHANGED <<flagVars, feedVars, spc, seen, stock, tracked, works, aposs,
                   recycled, file, local, dropped>>

\* Mutant: the survivors are not deposited.
SearchForgets ==
    /\ spc = "work"
    /\ aposs \subseteq seen \/ request = "stop"
    /\ result' = {}
    /\ spc' = "check"
    /\ UNCHANGED <<flagVars, feedVars, seen, serverVars, works, aposs, recycled, file,
                   local, dropped>>

\* End of the batch, or a stop: what is left in memory is deposited first
\* (prune_alive_flush, bt_flush_pending).
SearchFlushes ==
    /\ spc = "work"
    /\ aposs \subseteq seen \/ request = "stop"
    /\ Add(result, FALSE)
    /\ result' = {}
    /\ spc' = "check"
    /\ UNCHANGED <<flagVars, feedVars, seen, tracked, works, aposs, recycled, file>>

\* if (request == REQUEST_STOP)
SearchChecks ==
    /\ spc = "check"
    /\ spc' = IF request = "stop" THEN "requeue" ELSE "free"
    /\ UNCHANGED <<flagVars, feedVars, seen, result, serverVars, works, aposs,
                   recycled, file, local, dropped>>

\* requeue_unprocessed_packets
SearchRequeues ==
    /\ spc = "requeue"
    /\ Add(aposs \ seen, TRUE)
    /\ spc' = "ack"
    /\ UNCHANGED <<flagVars, feedVars, seen, result, tracked, works, aposs, recycled,
                   file>>

SearchFinalAck ==
    /\ spc = "ack"
    /\ SendAnalysed
    /\ spc' = "free"
    /\ UNCHANGED <<flagVars, feedVars, seen, result, stock, stored, works, aposs,
                   recycled, local, dropped>>

SearchFrees ==
    /\ spc = "free"
    /\ aposs' = {} /\ seen' = {}
    /\ spc' = "reset"
    /\ UNCHANGED <<flagVars, feedVars, result, serverVars, works, recycled, file,
                   local, dropped>>

SearchResets ==
    /\ spc = "reset"
    /\ works' = FALSE
    /\ spc' = IF request = "stop" THEN "done" ELSE "wait"
    /\ UNCHANGED <<flagVars, feedVars, seen, result, serverVars, aposs, recycled,
                   file, local, dropped>>

-----------------------------------------------------------------------------
FeedStep ==
    \/ FeedNeeded \/ FeedAck \/ FeedGet \/ FeedRecord \/ FeedPublish
    \/ FeedStops \/ FeedFinalAck

SearchStep ==
    \/ SearchWakes \/ SearchTakes \/ SearchCloses \/ SearchFlushes \/ SearchChecks
    \/ SearchRequeues \/ SearchFinalAck \/ SearchFrees \/ SearchResets

FeedNext == FeedStep \/ SearchStep \/ (FlagNext /\ UNCHANGED workVars)

FeedSpec == FeedInit /\ [][FeedNext]_processVars

\* Both threads of a running process are scheduled.
FeedFairSpec == FeedSpec /\ WF_processVars(FeedStep) /\ WF_processVars(SearchStep)

-----------------------------------------------------------------------------
(* Properties.                                                             *)

\* Boards whose result is not only in the memory of this worker.
Safe ==
    stock \cup tracked \cup stored \cup local
        \cup (IF recycled THEN got \cup aposs \cup result ELSE {})

\* autoprune_step: the server never stops tracking a board whose result has
\* not been stored (a result the flush dropped is WorkDistribution's subject).
ResultBeforeAck == Board \subseteq Safe \cup dropped

\* The same as long as no stop has been requested.
ResultBeforeAckWhileRunning == ~stopSent => ResultBeforeAck

\* A batch is published only when the search thread has let go of the last one.
OneBatch == ~stopSent /\ fpc \in {"ack", "get", "record", "publish"} =>
                ~works /\ aposs = {} /\ result = {}

\* A stop request ends both threads, unless the regulator or a command has read
\* the flag before it and assigns it after.
StopHeard == request = "stop" /\ regSaw = "none" /\ cmd = NoCmd
BothEnded == fpc = "done" /\ spc = "done"
StopEnds == StopHeard ~> BothEnded
=============================================================================
