-------------------------- MODULE WorkDistribution --------------------------
(***************************************************************************)
(* How the server and the worker processes share the search tree.          *)
(*                                                                         *)
(* A possibility is a partial board.  The server keeps the ones nobody     *)
(* works on in its stock, and keeps every one it has handed out in the     *)
(* "analysed" pool, with its owner, until it is acknowledged.  A worker    *)
(* process takes a possibility, explores it, deposits parts of it back     *)
(* (delegation, or the survivors of a pruner's batch) and acknowledges it  *)
(* when its own part is finished.  Work comes back to the stock when a     *)
(* connection ends (requeue_last_sent_possibility) or when the lease of a  *)
(* client without any session expires (datamanager_reclaim_expired_leases).*)
(*                                                                         *)
(* A possibility is abstracted to the set of terminal boards below it      *)
(* (Leaves) and its place in the tree (Kids, Origin); the checked and      *)
(* unchecked stock pools are one bag here.                                 *)
(***************************************************************************)
EXTENDS Integers, FiniteSets

CONSTANTS
    Poss,       \* the possibilities (partial boards)
    Leaf,       \* the terminal boards of the tree
    Leaves,     \* Leaves[p]: the terminal boards below p
    Kids,       \* Kids[p]: the boards one placement below p
    Origin,     \* pairs <<a, b>> with is_origin_of(a, b)
    Root,       \* the board the search starts from
    Client,     \* client programs (client_uid), each a parent and its forks
    Worker,     \* worker processes (forks)
    ClientOf,   \* ClientOf[w]: the client a worker belongs to
    Slot,       \* slots of the server's client table
    None,       \* no socket
    Faults,     \* the kinds of fault the environment may cause: an idle link or
                \* an exchange breaks, the server cannot be reached, refuses, is busy
                \* or finds no file to record a hand-out in, a client or one of its
                \* forks dies, a control session is lost
    MaxFaults,  \* bound: how many faults one behaviour may contain
    Batch,      \* the largest batch a GET is answered with
    MaxHandOut  \* bound: how many GETs one behaviour may contain

FaultKinds == {"idle", "loss", "unreachable", "refusal", "busy", "unrecorded", "crash", "forkCrash", "suspicion"}

ASSUME TreeAssumption ==
    /\ Root \in Poss
    /\ Leaves \in [Poss -> SUBSET Leaf]
    /\ Leaves[Root] = Leaf
    /\ Kids \in [Poss -> SUBSET Poss]
    /\ \A p \in Poss : Kids[p] # {} =>
          Leaves[p] = UNION {Leaves[q] : q \in Kids[p]}
    /\ Origin \subseteq Poss \X Poss
    /\ \A p, q \in Poss : <<p, q>> \in Origin => Leaves[q] \subseteq Leaves[p]

\* is_origin_of(r, p) needs fewer pieces on r than on p: among the origins of a
\* board that belong to a given set, one has no origin in that set.
ASSUME OriginWellFounded ==
    \A R \in SUBSET Poss : \A p \in Poss :
        (\E r \in R : <<r, p>> \in Origin) =>
            \E r \in R : /\ <<r, p>> \in Origin
                        /\ \A q \in R : <<q, r>> \notin Origin

ASSUME ProcessAssumption ==
    /\ ClientOf \in [Worker -> Client]
    /\ None \notin Slot
    /\ Faults \subseteq FaultKinds
    /\ MaxFaults \in Nat
    /\ Batch \in Nat \ {0}
    /\ MaxHandOut \in Nat

VARIABLES
    stock,      \* stock[p]: copies of p in file_possibility and _checked
    analysed,   \* the entries of file_possibility_analysed and its index
    errfile,    \* boards saved in ./error_possibility
    reclaimed,  \* boards given back by the current lease pass, not yet purged
    pass,       \* where the lease pass of check_server_step is
    serves,     \* serves[s]: the worker slot s is given to, or None
    link,       \* link[s]: state of the connection of slot s
    lastSent,   \* lastSent[s]: what the last GET of this connection was given
    unread,     \* unread[s]: a request still in the socket of a broken link
    ctrl,       \* ctrl[k]: client k has a registered control session
    clientUp,   \* clientUp[k]: the parent process of client k runs
    up,         \* up[w]: the worker process runs
    sock,       \* sock[w]: the slot w is connected to, or None
    feed,       \* what feed_one_thread of w does next when w has no work
    todo,       \* todo[w]: boards of the current cycle w has yet to explore
    roots,      \* roots[w]: hand-outs w has not acknowledged (its analysed file)
    local,      \* local[w]: the boards of the worker's own stock files
    recycled,   \* recycled[w]: the current work came from local[w]
    clock,      \* number of the last hand-out (history)
    explored,   \* terminal boards somebody has reached or refuted (history)
    hazard,     \* which of the ways to lose a branch have happened (history)
    faults      \* faults left

serverVars == <<stock, analysed, errfile, reclaimed, pass>>
slotVars == <<serves, link, lastSent, unread>>
workerVars == <<up, sock, feed, todo, roots, local, recycled>>
historyVars == <<clock, explored, hazard>>
vars == <<serverVars, slotVars, ctrl, clientUp, workerVars, historyVars, faults>>

Entry   == [p : Poss, w : Worker, t : Nat]
HandOut == [p : Poss, t : Nat]
Request == [op : {"none", "GET", "ADD", "ACK"}, s : SUBSET Poss, t : Nat]
NoReq   == [op |-> "none", s |-> {}, t |-> 0]
Hazards == {"foreignAck", "purgeRace", "localLoss", "flushDropped"}

TypeOK ==
    /\ stock \in [Poss -> Nat]
    /\ analysed \subseteq Entry
    /\ errfile \subseteq Poss
    /\ reclaimed \subseteq Poss
    /\ pass \in {"scan", "purge"}
    /\ serves \in [Slot -> Worker \cup {None}]
    /\ link \in [Slot -> {"free", "open", "broken", "closing"}]
    /\ lastSent \in [Slot -> SUBSET HandOut]
    /\ unread \in [Slot -> Request]
    /\ ctrl \in [Client -> BOOLEAN]
    /\ clientUp \in [Client -> BOOLEAN]
    /\ up \in [Worker -> BOOLEAN]
    /\ sock \in [Worker -> Slot \cup {None}]
    /\ feed \in [Worker -> {"ack", "get"}]
    /\ todo \in [Worker -> SUBSET Poss]
    /\ roots \in [Worker -> SUBSET HandOut]
    /\ local \in [Worker -> SUBSET Poss]
    /\ recycled \in [Worker -> BOOLEAN]
    /\ clock \in Nat
    /\ explored \subseteq Leaf
    /\ hazard \subseteq Hazards
    /\ faults \in Nat

Init ==
    /\ stock = [p \in Poss |-> IF p = Root THEN 1 ELSE 0]
    /\ analysed = {}
    /\ errfile = {}
    /\ reclaimed = {}
    /\ pass = "scan"
    /\ serves = [s \in Slot |-> None]
    /\ link = [s \in Slot |-> "free"]
    /\ lastSent = [s \in Slot |-> {}]
    /\ unread = [s \in Slot |-> NoReq]
    /\ ctrl = [k \in Client |-> TRUE]
    /\ clientUp = [k \in Client |-> TRUE]
    /\ up = [w \in Worker |-> TRUE]
    /\ sock = [w \in Worker |-> None]
    /\ feed = [w \in Worker |-> "ack"]
    /\ todo = [w \in Worker |-> {}]
    /\ roots = [w \in Worker |-> {}]
    /\ local = [w \in Worker |-> {}]
    /\ recycled = [w \in Worker |-> FALSE]
    /\ clock = 0
    /\ explored = {}
    /\ hazard = {}
    /\ faults = MaxFaults

-----------------------------------------------------------------------------
(* What the server's handlers do to its pools.                             *)

IsOriginOf(p, q) == <<p, q>> \in Origin

\* Mutant: off by one.
InStockOrZero == {p \in Poss : stock[p] >= 0}
InStock == {p \in Poss : stock[p] > 0}

\* put_to_local of a batch: every board of S goes to its stock pool.
Stocked(S) == [p \in Poss |-> stock[p] + (IF p \in S THEN 1 ELSE 0)]

\* scroll_from_local of a batch: one copy of every board of S leaves the stock.
Unstocked(S) == [p \in Poss |-> stock[p] - (IF p \in S THEN 1 ELSE 0)]

\* Entries remove_possibility_analysed may remove for the acknowledgement of
\* board p, handed out to w as hand-out t: the pool is searched by board, so
\* the entry of another client that holds the same board may be found first.
\* Two entries of one board and one client are the same to the code: the
\* hand-out number, a history, is taken to be the acknowledged one if there.
Own(p, w, t) == {e \in analysed : e.p = p /\ e.w = w /\ e.t = t}
Foreign(p, w, t) ==
    {e \in analysed :
        /\ e.p = p
        /\ e \notin Own(p, w, t)
        /\ Own(p, w, t) = {} \/ ClientOf[e.w] # ClientOf[w]}

\* INST_GET / INST_GET_TO_CHECK[_BATCH]: take S from the stock and record it as
\* handed out to w before answering.
HandleGet(w, S) ==
    /\ S \subseteq InStock
    /\ Cardinality(S) <= Batch
    /\ clock < MaxHandOut
    /\ stock' = Unstocked(S)
    /\ clock' = clock + 1
    /\ analysed' = analysed \cup {[p |-> p, w |-> w, t |-> clock + 1] : p \in S}
    /\ UNCHANGED <<errfile, reclaimed, pass, explored, hazard>>

\* INST_ADD / INST_ADD_BATCH accepted.
HandleAdd(S) ==
    /\ stock' = Stocked(S)
    /\ UNCHANGED <<analysed, errfile, reclaimed, pass, historyVars>>

\* INST_POSSIBILITY_ANALYSED[_BATCH] for one board: the entry is removed; or
\* it is confirmed absent; or (busy) the lock budget of the removal runs out
\* and the entry stays.  The answer is INST_CONSIDERED in every case.
HandleAck(p, w, t) ==
    /\ \/ \E e \in Own(p, w, t) : analysed' = analysed \ {e} /\ UNCHANGED hazard
       \/ \E e \in Foreign(p, w, t) :
             analysed' = analysed \ {e} /\ hazard' = hazard \cup {"foreignAck"}
       \/ /\ Own(p, w, t) \cup Foreign(p, w, t) = {} \/ "busy" \in Faults
          /\ UNCHANGED <<analysed, hazard>>
    /\ UNCHANGED <<stock, errfile, reclaimed, pass, clock, explored>>

-----------------------------------------------------------------------------
(* Connections.                                                            *)

Fault(kind) == kind \in Faults /\ faults > 0 /\ faults' = faults - 1

Connected(w) == up[w] /\ sock[w] # None

\* The link of w breaks while request r is outstanding (r = NoReq: the server
\* has read and answered it, or nothing was sent).  The server notices later.
Broken(w, r) ==
    /\ sock' = [sock EXCEPT ![w] = None]
    /\ link' = [link EXCEPT ![sock[w]] = "broken"]
    /\ unread' = [unread EXCEPT ![sock[w]] = r]
    /\ UNCHANGED serves

\* check_and_connect_to_server and try_assign_client_slot.
Connect(w) ==
    /\ up[w] /\ sock[w] = None
    /\ \E s \in Slot :
          /\ link[s] = "free"
          /\ serves' = [serves EXCEPT ![s] = w]
          /\ link' = [link EXCEPT ![s] = "open"]
          /\ sock' = [sock EXCEPT ![w] = s]
    /\ UNCHANGED <<serverVars, lastSent, unread, ctrl, clientUp, up, feed, todo,
                   roots, local, recycled, historyVars, faults>>

\* An idle link breaks; the client notices at its next keepalive.
LinkLost(w) ==
    /\ Connected(w)
    /\ Fault("idle")
    /\ Broken(w, NoReq)
    /\ UNCHANGED <<serverVars, lastSent, ctrl, clientUp, up, feed, todo, roots,
                   local, recycled, historyVars>>

-----------------------------------------------------------------------------
(* The feed thread of a worker without work (feed_one_thread): acknowledge  *)
(* what is finished, then take work from the local stock or the server.     *)

\* Mutant: the feed thread does not wait for the search thread.
NeedsNothing(w) == up[w]
NeedsWork(w) == up[w] /\ todo[w] = {}

\* send_possibility_analysed, the exchange for one hand-out succeeds.
Ack(w) ==
    /\ NeedsWork(w) /\ feed[w] = "ack" /\ sock[w] # None
    /\ \E h \in roots[w] :
          /\ HandleAck(h.p, w, h.t)
          /\ roots' = [roots EXCEPT ![w] = @ \ {h}]
    /\ UNCHANGED <<slotVars, ctrl, clientUp, up, sock, feed, todo, local, recycled,
                   faults>>

\* The answer is lost: the batch goes back to the worker's analysed file.
AckReplyLost(w) ==
    /\ NeedsWork(w) /\ feed[w] = "ack" /\ sock[w] # None
    /\ Fault("loss")
    /\ \E h \in roots[w] : HandleAck(h.p, w, h.t)
    /\ Broken(w, NoReq)
    /\ feed' = [feed EXCEPT ![w] = "get"]
    /\ UNCHANGED <<lastSent, ctrl, clientUp, up, todo, roots, local, recycled>>

\* The worker gives up before the server has read the request.
AckUnread(w) ==
    /\ NeedsWork(w) /\ feed[w] = "ack" /\ sock[w] # None
    /\ Fault("loss")
    /\ \E h \in roots[w] : Broken(w, [op |-> "ACK", s |-> {h.p}, t |-> h.t])
    /\ feed' = [feed EXCEPT ![w] = "get"]
    /\ UNCHANGED <<serverVars, lastSent, ctrl, clientUp, up, todo, roots, local,
                   recycled, historyVars>>

\* Nothing (more) to acknowledge, or no connection to do it on.
AckDone(w) ==
    /\ NeedsWork(w) /\ feed[w] = "ack"
    /\ roots[w] = {} \/ sock[w] = None
    /\ feed' = [feed EXCEPT ![w] = "get"]
    /\ UNCHANGED <<serverVars, slotVars, ctrl, clientUp, up, sock, todo, roots, local,
                   recycled, historyVars, faults>>

\* get_last_possibility: the local stock first (from_server = 0).
TakeLocal(w) ==
    /\ NeedsWork(w) /\ feed[w] = "get"
    /\ \E p \in local[w] :
          /\ todo' = [todo EXCEPT ![w] = {p}]
          /\ local' = [local EXCEPT ![w] = @ \ {p}]
    /\ recycled' = [recycled EXCEPT ![w] = TRUE]
    /\ feed' = [feed EXCEPT ![w] = "ack"]
    /\ UNCHANGED <<serverVars, slotVars, ctrl, clientUp, up, sock, roots,
                   historyVars, faults>>

\* get_last_possibility: the server answers with S (from_server = 1), which
\* the worker records in its own analysed file.
Get(w) ==
    /\ NeedsWork(w) /\ feed[w] = "get" /\ local[w] = {} /\ sock[w] # None
    /\ \E S \in SUBSET Poss \ {{}} :
          /\ HandleGet(w, S)
          /\ LET H == {[p |-> p, t |-> clock + 1] : p \in S} IN
             /\ lastSent' = [lastSent EXCEPT ![sock[w]] = H]
             /\ roots' = [roots EXCEPT ![w] = @ \cup H]
          /\ todo' = [todo EXCEPT ![w] = S]
    /\ recycled' = [recycled EXCEPT ![w] = FALSE]
    /\ feed' = [feed EXCEPT ![w] = "ack"]
    /\ UNCHANGED <<serves, link, unread, ctrl, clientUp, up, sock, local, faults>>

\* The answer with the possibility is lost.
GetReplyLost(w) ==
    /\ NeedsWork(w) /\ feed[w] = "get" /\ local[w] = {} /\ sock[w] # None
    /\ Fault("loss")
    /\ \E S \in SUBSET Poss \ {{}} :
          /\ HandleGet(w, S)
          /\ lastSent' = [lastSent EXCEPT ![sock[w]] =
                                      {[p |-> p, t |-> clock + 1] : p \in S}]
    /\ Broken(w, NoReq)
    /\ feed' = [feed EXCEPT ![w] = "ack"]
    /\ UNCHANGED <<ctrl, clientUp, up, todo, roots, local, recycled>>

\* The worker gives up before the server has read the GET.
GetUnread(w) ==
    /\ NeedsWork(w) /\ feed[w] = "get" /\ local[w] = {} /\ sock[w] # None
    /\ Fault("loss")
    /\ Broken(w, [op |-> "GET", s |-> {}, t |-> 0])
    /\ feed' = [feed EXCEPT ![w] = "ack"]
    /\ UNCHANGED <<serverVars, lastSent, ctrl, clientUp, up, todo, roots, local,
                   recycled, historyVars>>

\* No work to be had: not connected, or the stock is empty (lastSent is freed).
GetNothing(w) ==
    /\ NeedsWork(w) /\ feed[w] = "get" /\ local[w] = {}
    /\ \/ sock[w] = None /\ UNCHANGED lastSent
       \/ /\ sock[w] # None /\ InStock = {}
          /\ lastSent' = [lastSent EXCEPT ![sock[w]] = {}]
    /\ feed' = [feed EXCEPT ![w] = "ack"]
    /\ UNCHANGED <<serverVars, serves, link, unread, ctrl, clientUp, up, sock, todo,
                   roots, local, recycled, historyVars, faults>>

\* record_batch_analysed_for_client finds no free file, and the way back to
\* the stock fails as well: the board is saved in ./error_possibility.
GetNotRecorded(w) ==
    /\ NeedsWork(w) /\ feed[w] = "get" /\ local[w] = {} /\ sock[w] # None
    /\ Fault("unrecorded")
    /\ \E p \in InStock :
          /\ stock' = Unstocked({p})
          /\ errfile' = errfile \cup {p}
    /\ lastSent' = [lastSent EXCEPT ![sock[w]] = {}]
    /\ feed' = [feed EXCEPT ![w] = "ack"]
    /\ UNCHANGED <<analysed, reclaimed, pass, serves, link, unread, ctrl, clientUp,
                   up, sock, todo, roots, local, recycled, historyVars>>

-----------------------------------------------------------------------------
(* The search (or pruner) thread of a worker.                              *)

\* The backtracking descends one level, or a pruner places forced pieces.
Expand(w) ==
    /\ up[w]
    /\ \E p \in todo[w] :
          /\ Kids[p] # {}
          /\ todo' = [todo EXCEPT ![w] = (@ \ {p}) \cup Kids[p]]
    /\ UNCHANGED <<serverVars, slotVars, ctrl, clientUp, up, sock, feed, roots, local,
                   recycled, historyVars, faults>>

\* A subtree is exhausted: explored to its end or proved to hold no solution.
Close(w) ==
    /\ up[w]
    /\ \E p \in todo[w] :
          /\ todo' = [todo EXCEPT ![w] = @ \ {p}]
          /\ explored' = explored \cup Leaves[p]
    /\ UNCHANGED <<serverVars, slotVars, ctrl, clientUp, up, sock, feed, roots, local,
                   recycled, clock, hazard, faults>>

\* put_to_server, one chunk S, acknowledged INST_CONSIDERED.
Deposit(w) ==
    /\ Connected(w)
    /\ \E S \in SUBSET todo[w] \ {{}} :
          /\ HandleAdd(S)
          /\ todo' = [todo EXCEPT ![w] = @ \ S]
    /\ UNCHANGED <<slotVars, ctrl, clientUp, up, sock, feed, roots, local, recycled,
                   faults>>

\* Mutant: a refused chunk is not kept.
DepositDropped(w) ==
    /\ Connected(w)
    /\ Fault("refusal")
    /\ \E S \in SUBSET todo[w] \ {{}} : todo' = [todo EXCEPT ![w] = @ \ S]
    /\ UNCHANGED <<serverVars, slotVars, ctrl, clientUp, up, sock, feed, roots, local,
                   recycled, historyVars>>

\* The server answers INST_ERROR (RAM cap, or no file could be locked): the
\* worker keeps the chunk in its own stock and goes on as if it were deposited.
\* The lot may nevertheless be in the server's stock (put_to_pool on the last
\* file of its last sweep).
DepositRefused(w) ==
    /\ Connected(w)
    /\ Fault("refusal")
    /\ \E S \in SUBSET todo[w] \ {{}} :
          /\ HandleAdd(S) \/ UNCHANGED <<serverVars, historyVars>>
          /\ todo' = [todo EXCEPT ![w] = @ \ S]
          /\ local' = [local EXCEPT ![w] = @ \cup S]
    /\ UNCHANGED <<slotVars, ctrl, clientUp, up, sock, feed, roots, recycled>>

\* The exchange fails, after (HandleAdd) or before the server has read it:
\* put_to_local(remaining).  A delegation keeps S in the stack as well
\* (bt_delegate_if_needed), a flush does not (prune_alive_flush).
DepositFailed(w) ==
    /\ Connected(w)
    /\ Fault("loss")
    /\ \E S \in SUBSET todo[w] \ {{}} :
          /\ \/ HandleAdd(S) /\ Broken(w, NoReq)
             \/ /\ Broken(w, [op |-> "ADD", s |-> S, t |-> 0])
                /\ UNCHANGED <<serverVars, historyVars>>
          /\ \/ UNCHANGED todo
             \/ todo' = [todo EXCEPT ![w] = @ \ S]
          /\ local' = [local EXCEPT ![w] = @ \cup S]
    /\ UNCHANGED <<lastSent, ctrl, clientUp, up, feed, roots, recycled>>

\* put_to_server cannot connect and returns at once.  A delegation keeps its
\* boards in the stack (nothing happens); a flush (prune_alive_flush,
\* bt_flush_pending) logs the error and drops them.
FlushUnreachable(w) ==
    /\ up[w] /\ sock[w] = None
    /\ Fault("unreachable")
    /\ \E S \in SUBSET todo[w] \ {{}} : todo' = [todo EXCEPT ![w] = @ \ S]
    /\ hazard' = hazard \cup {"flushDropped"}
    /\ UNCHANGED <<serverVars, slotVars, ctrl, clientUp, up, sock, feed, roots, local,
                   recycled, clock, explored>>

-----------------------------------------------------------------------------
(* Crashes, and control sessions.                                          *)

\* The processes of D die: their memory is gone, their links break.
Die(D) ==
    /\ up' = [w \in Worker |-> up[w] /\ w \notin D]
    /\ todo' = [w \in Worker |-> IF w \in D THEN {} ELSE todo[w]]
    /\ roots' = [w \in Worker |-> IF w \in D THEN {} ELSE roots[w]]
    /\ local' = [w \in Worker |-> IF w \in D THEN {} ELSE local[w]]
    /\ recycled' = [w \in Worker |-> recycled[w] /\ w \notin D]
    /\ sock' = [w \in Worker |-> IF w \in D THEN None ELSE sock[w]]
    /\ link' = [s \in Slot |->
                  IF link[s] = "open" /\ serves[s] \in D THEN "broken" ELSE link[s]]
    /\ hazard' = IF \E w \in D : local[w] # {} \/ (recycled[w] /\ todo[w] # {})
                 THEN hazard \cup {"localLoss"} ELSE hazard

\* One fork dies (a signal, an abort); its parent and siblings go on.
ForkCrash(w) ==
    /\ up[w]
    /\ Fault("forkCrash")
    /\ Die({w})
    /\ UNCHANGED <<serverVars, serves, lastSent, unread, ctrl, clientUp, feed, clock,
                   explored>>

\* The client's machine stops: the parent and all its forks die.
ClientCrash(k) ==
    /\ clientUp[k]
    /\ Fault("crash")
    /\ clientUp' = [clientUp EXCEPT ![k] = FALSE]
    /\ Die({w \in Worker : up[w] /\ ClientOf[w] = k})
    /\ UNCHANGED <<serverVars, serves, lastSent, unread, ctrl, feed, clock, explored>>

\* The server drops the control session of a dead client.
CtrlClosed(k) ==
    /\ ctrl[k] /\ ~clientUp[k]
    /\ ctrl' = [ctrl EXCEPT ![k] = FALSE]
    /\ UNCHANGED <<serverVars, slotVars, clientUp, workerVars, historyVars, faults>>

\* The control session of a running client is lost (network, ping timeout, or
\* the reconnection control_channel_request_reconnect asks for).
CtrlLost(k) ==
    /\ ctrl[k] /\ clientUp[k]
    /\ Fault("suspicion")
    /\ ctrl' = [ctrl EXCEPT ![k] = FALSE]
    /\ UNCHANGED <<serverVars, slotVars, clientUp, workerVars, historyVars>>

CtrlOpened(k) ==
    /\ ~ctrl[k] /\ clientUp[k]
    /\ ctrl' = [ctrl EXCEPT ![k] = TRUE]
    /\ UNCHANGED <<serverVars, slotVars, clientUp, workerVars, historyVars, faults>>

-----------------------------------------------------------------------------
(* The server's side of a broken connection (communicate_with_client).     *)

\* The request that was still in the socket is read and handled; the answer
\* cannot be sent.
LateRequest(s) ==
    /\ link[s] = "broken"
    /\ \/ /\ unread[s].op = "GET"
          /\ \E S \in SUBSET Poss \ {{}} :
                /\ HandleGet(serves[s], S)
                /\ lastSent' = [lastSent EXCEPT ![s] =
                                  {[p |-> p, t |-> clock + 1] : p \in S}]
       \/ unread[s].op = "ADD" /\ HandleAdd(unread[s].s) /\ UNCHANGED lastSent
       \/ /\ unread[s].op = "ACK"
          /\ \E p \in unread[s].s : HandleAck(p, serves[s], unread[s].t)
          /\ UNCHANGED lastSent
    /\ unread' = [unread EXCEPT ![s] = NoReq]
    /\ UNCHANGED <<serves, link, ctrl, clientUp, workerVars, faults>>

\* End of the session loop; an unread request is discarded with the socket.
\* requeue_last_sent_possibility returns at once while the client's control
\* session is alive.
EndSession(s) ==
    /\ link[s] = "broken"
    /\ link' = [link EXCEPT ![s] = "closing"]
    /\ unread' = [unread EXCEPT ![s] = NoReq]
    /\ lastSent' = [lastSent EXCEPT ![s] = IF ctrl[ClientOf[serves[s]]] THEN {} ELSE @]
    /\ UNCHANGED <<serverVars, serves, ctrl, clientUp, workerVars, historyVars, faults>>

\* One turn of the loop of requeue_last_sent_possibility: a board confirmed
\* absent is left alone; one found is removed and put back to the stock; one
\* whose absence is not confirmed (busy) is put back as well; a board the
\* stock refuses is saved in ./error_possibility.
RequeueLastSent(s) ==
    /\ link[s] = "closing"
    /\ \E h \in lastSent[s] :
          /\ lastSent' = [lastSent EXCEPT ![s] = @ \ {h}]
          /\ LET found == {e \in analysed : e.p = h.p} IN
             \/ found = {} /\ UNCHANGED <<analysed, stock, errfile>>
             \/ /\ \/ \E e \in found : analysed' = analysed \ {e}
                   \/ "busy" \in Faults /\ UNCHANGED analysed
                /\ \/ stock' = Stocked({h.p}) /\ UNCHANGED errfile
                   \/ /\ "refusal" \in Faults
                      /\ errfile' = errfile \cup {h.p} /\ UNCHANGED stock
    /\ UNCHANGED <<reclaimed, pass, serves, link, unread, ctrl, clientUp, workerVars,
                   historyVars, faults>>

\* Mutant: the slot is left marked as open.
SlotNotFreed(s) ==
    /\ link[s] = "closing" /\ lastSent[s] = {}
    /\ UNCHANGED vars

\* socket_id = -1, exist = 0: the slot can be given to another connection.
FreeSlot(s) ==
    /\ link[s] = "closing" /\ lastSent[s] = {}
    /\ link' = [link EXCEPT ![s] = "free"]
    /\ serves' = [serves EXCEPT ![s] = None]
    /\ UNCHANGED <<serverVars, lastSent, unread, ctrl, clientUp, workerVars,
                   historyVars, faults>>

-----------------------------------------------------------------------------
(* The lease pass of check_server_step.                                    *)

\* owner_client_alive: a control session, or an open work connection.
OwnerAlive(k) ==
    \/ ctrl[k]
    \/ \E s \in Slot : link[s] # "free" /\ ClientOf[serves[s]] = k

\* Mutant: the expired entry is removed before the stock has accepted it.
ReclaimForgets ==
    /\ pass = "scan"
    /\ \E e \in analysed :
          /\ ~OwnerAlive(ClientOf[e.w])
          /\ analysed' = analysed \ {e}
    /\ UNCHANGED <<stock, errfile, reclaimed, pass, slotVars, ctrl, clientUp,
                   workerVars, historyVars, faults>>

\* One expired entry of a client that is not alive goes back to the stock.
\* The lease runs out at any time after the hand-out.
ReclaimExpired ==
    /\ pass = "scan"
    /\ \E e \in analysed :
          /\ ~OwnerAlive(ClientOf[e.w])
          /\ analysed' = analysed \ {e}
          /\ stock' = Stocked({e.p})
          /\ reclaimed' = reclaimed \cup {e.p}
    /\ UNCHANGED <<errfile, pass, slotVars, ctrl, clientUp, workerVars, historyVars,
                   faults>>

\* Mutant: the purge does not spare the board given back.
RedundantOrSame(p) == \E r \in reclaimed : r = p \/ IsOriginOf(r, p)
Redundant(p) == \E r \in reclaimed : IsOriginOf(r, p)

\* A reclaimed board has been handed out again before the purge has run.
PurgeHazard == IF \E r \in reclaimed : stock[r] = 0
               THEN hazard \cup {"purgeRace"} ELSE hazard

\* datamanager_purge_descendants_of, first the analysed pool ...
PurgeAnalysed ==
    /\ pass = "scan" /\ reclaimed # {}
    /\ pass' = "purge"
    /\ analysed' = {e \in analysed : ~Redundant(e.p)}
    /\ hazard' = PurgeHazard
    /\ UNCHANGED <<stock, errfile, reclaimed, slotVars, ctrl, clientUp, workerVars,
                   clock, explored, faults>>

\* ... then, with other locks, the stock.
PurgeStock ==
    /\ pass = "purge"
    /\ pass' = "scan"
    /\ reclaimed' = {}
    /\ stock' = [p \in Poss |-> IF Redundant(p) THEN 0 ELSE stock[p]]
    /\ hazard' = PurgeHazard
    /\ UNCHANGED <<analysed, errfile, slotVars, ctrl, clientUp, workerVars, clock,
                   explored, faults>>

-----------------------------------------------------------------------------
WorkerStep(w) ==
    \/ Connect(w) \/ LinkLost(w)
    \/ Ack(w) \/ AckReplyLost(w) \/ AckUnread(w) \/ AckDone(w)
    \/ TakeLocal(w) \/ Get(w) \/ GetReplyLost(w) \/ GetUnread(w)
    \/ GetNothing(w) \/ GetNotRecorded(w)
    \/ Expand(w) \/ Close(w)
    \/ Deposit(w) \/ DepositRefused(w) \/ DepositFailed(w) \/ FlushUnreachable(w)
    \/ ForkCrash(w)

ClientStep(k) == ClientCrash(k) \/ CtrlClosed(k) \/ CtrlLost(k) \/ CtrlOpened(k)

SlotStep(s) == LateRequest(s) \/ EndSession(s) \/ RequeueLastSent(s) \/ FreeSlot(s)

Next ==
    \/ \E w \in Worker : WorkerStep(w)
    \/ \E k \in Client : ClientStep(k)
    \/ \E s \in Slot : SlotStep(s)
    \/ ReclaimExpired \/ PurgeAnalysed \/ PurgeStock

Spec == Init /\ [][Next]_vars

-----------------------------------------------------------------------------
(* Properties.                                                             *)

\* Terminal board l is accounted for by work handed out after hand-out t, or
\* by work no hand-out is needed for: it has been explored; or a board above it
\* is in the server's stock or error file, in an entry of the analysed pool
\* younger than t, or in the own stock of a worker (or was taken from there).
\* The memory of a worker that explores a hand-out is not counted: it can die.
Covered(l, t) ==
    \/ l \in explored
    \/ \E p \in Poss :
          /\ l \in Leaves[p]
          /\ \/ stock[p] > 0
             \/ p \in errfile
             \/ \E e \in analysed : e.p = p /\ e.t > t
             \/ \E w \in Worker : p \in local[w]
             \/ \E w \in Worker : recycled[w] /\ p \in todo[w]

\* A branch of the tree is never lost, unless an acknowledgement removed the
\* entry of another hand-out of the same board, the purge ran after the board
\* it keeps had left the stock, a worker died holding work of its own stock, or
\* a worker flushed its results while the server could not be reached.
LossExplained == hazard = {} => \A l \in Leaf : Covered(l, 0)

\* What a worker has not acknowledged is either still in its memory or
\* accounted for without its entry, and by nothing older: so that the entry may
\* go when the worker has finished, whatever else has been acknowledged,
\* requeued, reclaimed or purged in the meantime.
RootsAccounted ==
    hazard = {} =>
        \A w \in Worker : \A h \in roots[w] : \A l \in Leaves[h.p] :
            Covered(l, h.t) \/ \E p \in todo[w] : l \in Leaves[p]

\* The same for an acknowledgement the server has yet to read.
LateAcksAccounted ==
    hazard = {} =>
        \A s \in Slot : unread[s].op = "ACK" =>
            \A p \in unread[s].s : \A l \in Leaves[p] : Covered(l, unread[s].t)

\* A worker's socket leads to an open slot that the server keeps for it.
SockOK ==
    /\ \A w \in Worker : sock[w] # None =>
           link[sock[w]] = "open" /\ serves[sock[w]] = w
    /\ \A s \in Slot : link[s] # "free" => serves[s] \in Worker

\* No hand-out number is ahead of the clock.
HandOutsOK ==
    /\ \A e \in analysed : 0 < e.t /\ e.t <= clock
    /\ \A w \in Worker : \A h \in roots[w] : h.t <= clock
    /\ \A s \in Slot : unread[s].t <= clock

IInv == TypeOK /\ SockOK /\ HandOutsOK /\ LossExplained /\ RootsAccounted
        /\ LateAcksAccounted

-----------------------------------------------------------------------------
(* Liveness, and what the documentation promises.                          *)

\* The server's threads run: a broken connection is noticed, its session ends,
\* its slot is freed, the control session of a dead client is dropped by the
\* ping timeout, and check_server_step keeps making lease passes.  Nothing is
\* assumed of the workers.
SessionEnds(s) == EndSession(s) \/ RequeueLastSent(s) \/ FreeSlot(s)
LeasePass == ReclaimExpired \/ PurgeAnalysed \/ PurgeStock
Fairness ==
    /\ \A s \in Slot : WF_vars(SessionEnds(s))
    /\ \A k \in Client : WF_vars(CtrlClosed(k))
    /\ WF_vars(LeasePass)

FairSpec == Spec /\ Fairness

\* Everything a dead client was handed out leaves the analysed pool: it goes
\* back to the stock, by the end of a session or by the lease, or it is purged
\* because a board above it went back.
DeadClientHolds == \E e \in analysed : ~clientUp[ClientOf[e.w]]
DeadClientRecovered == DeadClientHolds ~> ~DeadClientHolds

NothingUncovered == \A l \in Leaf : Covered(l, 0)

\* The purge after a lease pass removes only what the board given back covers.
PurgeSafe == hazard \subseteq {"purgeRace"} => NothingUncovered

\* An acknowledgement that comes after its entry was reclaimed finds nothing,
\* and does no harm.
LateAckHarmless == hazard \subseteq {"foreignAck"} => NothingUncovered
=============================================================================
