----------------------- MODULE WorkDistributionProofs -----------------------
(***************************************************************************)
(* Proofs about WorkDistribution, for every value of its constants: any     *)
(* tree, any number of clients, workers and slots, any number of faults.    *)
(*                                                                          *)
(* IInv is the inductive invariant.  BasicStep shows that its first part    *)
(* (Basic) is preserved.  For the rest, CoverStep shows that every step     *)
(* keeps what is covered (or marks a hazard), and Frame derives the three   *)
(* accounting invariants from that.                                         *)
(***************************************************************************)
EXTENDS WorkDistribution, TLAPS

Basic == TypeOK /\ SockOK /\ HandOutsOK

\* The initial state satisfies the whole inductive invariant.
LEMMA InitIInv == Init => IInv
<1> SUFFICES ASSUME Init PROVE IInv
  OBVIOUS
<1>1. Basic
  BY TreeAssumption, ProcessAssumption
  DEF Init, Basic, TypeOK, SockOK, HandOutsOK, NoReq, Request, HandOut, Entry, Hazards
<1>2. LossExplained
  BY TreeAssumption DEF Init, LossExplained, Covered
<1>3. RootsAccounted
  <2>1. \A w \in Worker : roots[w] = {}
    BY DEF Init
  <2> QED
    BY <2>1 DEF RootsAccounted
<1>4. LateAcksAccounted
  <2>1. \A s \in Slot : unread[s].op # "ACK"
    BY DEF Init, NoReq
  <2> QED
    BY <2>1 DEF LateAcksAccounted
<1> QED BY <1>1, <1>2, <1>3, <1>4 DEF IInv, Basic

\* Types, sockets and hand-out numbers are right after every step.
LEMMA BasicStep == Basic /\ [Next]_vars => Basic'
<1> SUFFICES ASSUME Basic, [Next]_vars PROVE Basic'
  OBVIOUS
<1> USE TreeAssumption, ProcessAssumption
    DEF serverVars, slotVars, workerVars, historyVars, Basic, TypeOK, SockOK,
       HandOutsOK,
        Request, NoReq, HandOut, Entry, Hazards
<1>1. ASSUME NEW w \in Worker, Connect(w) PROVE Basic'
  BY <1>1 DEF Connect
<1>2. ASSUME NEW w \in Worker, LinkLost(w) PROVE Basic'
  BY <1>2 DEF LinkLost, Connected, Broken, Fault
<1>3. ASSUME NEW w \in Worker, Ack(w) PROVE Basic'
  BY <1>3 DEF Ack, NeedsWork, HandleAck, Own, Foreign
<1>4. ASSUME NEW w \in Worker, AckReplyLost(w) PROVE Basic'
  BY <1>4 DEF AckReplyLost, NeedsWork, HandleAck, Own, Foreign, Broken, Fault
<1>5. ASSUME NEW w \in Worker, AckUnread(w) PROVE Basic'
  BY <1>5 DEF AckUnread, NeedsWork, Broken, Fault
<1>6. ASSUME NEW w \in Worker, AckDone(w) PROVE Basic'
  BY <1>6 DEF AckDone, NeedsWork
<1>7. ASSUME NEW w \in Worker, TakeLocal(w) PROVE Basic'
  BY <1>7 DEF TakeLocal, NeedsWork
<1>8. ASSUME NEW w \in Worker, Get(w) PROVE Basic'
  BY <1>8 DEF Get, NeedsWork, HandleGet, InStock, Unstocked
<1>9. ASSUME NEW w \in Worker, GetReplyLost(w) PROVE Basic'
  BY <1>9 DEF GetReplyLost, NeedsWork, HandleGet, InStock, Unstocked, Broken, Fault
<1>10. ASSUME NEW w \in Worker, GetUnread(w) PROVE Basic'
  BY <1>10 DEF GetUnread, NeedsWork, Broken, Fault
<1>11. ASSUME NEW w \in Worker, GetNothing(w) PROVE Basic'
  <2>1. lastSent' \in [Slot -> SUBSET HandOut]
    BY <1>11 DEF GetNothing
  <2>2. feed' \in [Worker -> {"ack", "get"}]
    BY <1>11 DEF GetNothing
  <2> QED BY <1>11, <2>1, <2>2 DEF GetNothing
<1>12. ASSUME NEW w \in Worker, GetNotRecorded(w) PROVE Basic'
  BY <1>12 DEF GetNotRecorded, NeedsWork, InStock, Unstocked, Fault
<1>13. ASSUME NEW w \in Worker, Expand(w) PROVE Basic'
  BY <1>13 DEF Expand
<1>14. ASSUME NEW w \in Worker, Close(w) PROVE Basic'
  BY <1>14 DEF Close
<1>15. ASSUME NEW w \in Worker, Deposit(w) PROVE Basic'
  BY <1>15 DEF Deposit, Connected, HandleAdd, Stocked
<1>16. ASSUME NEW w \in Worker, FlushUnreachable(w) PROVE Basic'
  BY <1>16 DEF FlushUnreachable, Fault
<1>17. ASSUME NEW w \in Worker, ForkCrash(w) PROVE Basic'
  BY <1>17 DEF ForkCrash, Die, Fault
<1>18. ASSUME NEW k \in Client, ClientCrash(k) PROVE Basic'
  BY <1>18 DEF ClientCrash, Die, Fault
<1>19. ASSUME NEW k \in Client, CtrlClosed(k) PROVE Basic'
  BY <1>19 DEF CtrlClosed
<1>20. ASSUME NEW k \in Client, CtrlLost(k) PROVE Basic'
  BY <1>20 DEF CtrlLost, Fault
<1>21. ASSUME NEW k \in Client, CtrlOpened(k) PROVE Basic'
  BY <1>21 DEF CtrlOpened
<1>22. ASSUME NEW s \in Slot, EndSession(s) PROVE Basic'
  BY <1>22 DEF EndSession
<1>23. ASSUME NEW s \in Slot, FreeSlot(s) PROVE Basic'
  BY <1>23 DEF FreeSlot
<1>24. ASSUME ReclaimExpired PROVE Basic'
  BY <1>24 DEF ReclaimExpired, Stocked
<1>25. ASSUME PurgeAnalysed PROVE Basic'
  BY <1>25 DEF PurgeAnalysed, PurgeHazard
<1>26. ASSUME PurgeStock PROVE Basic'
  BY <1>26 DEF PurgeStock, PurgeHazard
<1>27. ASSUME NEW w \in Worker, DepositRefused(w) PROVE Basic'
  <2>1. PICK S \in SUBSET todo[w] :
          /\ HandleAdd(S) \/ UNCHANGED <<serverVars, historyVars>>
          /\ todo' = [todo EXCEPT ![w] = @ \ S]
          /\ local' = [local EXCEPT ![w] = @ \cup S]
    BY <1>27 DEF DepositRefused
  <2>2. stock' \in [Poss -> Nat]
    BY <2>1 DEF HandleAdd, Stocked
  <2> QED BY <1>27, <2>1, <2>2 DEF DepositRefused, Fault, HandleAdd
<1>28. ASSUME NEW w \in Worker, DepositFailed(w) PROVE Basic'
  <2>1. PICK S \in SUBSET todo[w] :
          /\ \/ HandleAdd(S) /\ Broken(w, NoReq)
             \/ /\ Broken(w, [op |-> "ADD", s |-> S, t |-> 0])
                /\ UNCHANGED <<serverVars, historyVars>>
          /\ \/ UNCHANGED todo
             \/ todo' = [todo EXCEPT ![w] = @ \ S]
          /\ local' = [local EXCEPT ![w] = @ \cup S]
    BY <1>28 DEF DepositFailed
  <2>2. stock' \in [Poss -> Nat]
    BY <2>1 DEF HandleAdd, Stocked
  <2>3. todo' \in [Worker -> SUBSET Poss] /\ local' \in [Worker -> SUBSET Poss]
    <3>1. S \subseteq Poss
      OBVIOUS
    <3>2. todo' \in [Worker -> SUBSET Poss]
      BY <2>1, <3>1
    <3>3. local' \in [Worker -> SUBSET Poss]
      BY <2>1, <3>1
    <3> QED BY <3>2, <3>3
  <2>4. PICK r \in {NoReq, [op |-> "ADD", s |-> S, t |-> 0]} : Broken(w, r)
    BY <2>1
  <2>5. r \in Request /\ r.t = 0
    BY <2>4
  <2>6. sock[w] \in Slot
    BY <1>28 DEF DepositFailed, Connected
  <2>7. unread' \in [Slot -> Request] /\ \A s \in Slot : unread'[s].t <= clock
    BY <2>4, <2>5, <2>6 DEF Broken
  <2>8. UNCHANGED <<analysed, errfile, reclaimed, pass, clock, explored, hazard>>
    BY <2>1 DEF HandleAdd
  <2>9. SockOK'
    BY <1>28, <2>4, <2>6 DEF Broken, DepositFailed
  <2> QED BY <1>28, <2>2, <2>3, <2>4, <2>7, <2>8, <2>9 DEF DepositFailed, Fault,
     Broken
<1>29. ASSUME NEW s \in Slot, LateRequest(s) PROVE Basic'
  <2>1. CASE \E S \in SUBSET Poss \ {{}} :
                /\ HandleGet(serves[s], S)
                /\ lastSent' = [lastSent EXCEPT ![s] =
                                  {[p |-> p, t |-> clock + 1] : p \in S}]
    BY <1>29, <2>1 DEF LateRequest, HandleGet, InStock, Unstocked
  <2>2. CASE HandleAdd(unread[s].s) /\ UNCHANGED lastSent
    BY <1>29, <2>2 DEF LateRequest, HandleAdd, Stocked
  <2>3. CASE UNCHANGED lastSent /\ \E p \in unread[s].s : HandleAck(p, serves[s],
     unread[s].t)
    BY <1>29, <2>3 DEF LateRequest, HandleAck, Own, Foreign
  <2> QED BY <1>29, <2>1, <2>2, <2>3 DEF LateRequest
<1>30. ASSUME NEW s \in Slot, RequeueLastSent(s) PROVE Basic'
  <2>1. PICK h \in lastSent[s] :
          /\ lastSent' = [lastSent EXCEPT ![s] = @ \ {h}]
          /\ stock' = stock \/ stock' = Stocked({h.p})
          /\ errfile' \subseteq errfile \cup {h.p}
          /\ analysed' \subseteq analysed
    BY <1>30 DEF RequeueLastSent
  <2>2. Stocked({h.p}) \in [Poss -> Nat]
    BY DEF Stocked
  <2>3. stock' \in [Poss -> Nat]
    <3>1. CASE stock' = stock
      BY <3>1
    <3>2. CASE stock' = Stocked({h.p})
      BY <2>2, <3>2
    <3> QED BY <2>1, <3>1, <3>2
  <2>4. h.p \in Poss /\ lastSent' \in [Slot -> SUBSET HandOut]
    BY <2>1
  <2> QED BY <1>30, <2>1, <2>3, <2>4 DEF RequeueLastSent
<1>31. CASE UNCHANGED vars
  BY <1>31 DEF vars
<1> QED BY <1>1, <1>2, <1>3, <1>4, <1>5, <1>6, <1>7, <1>8, <1>9, <1>10, <1>11,
   <1>12, <1>13, <1>14, <1>15, <1>16, <1>17, <1>18, <1>19, <1>20, <1>21, <1>22,
      <1>23, <1>24, <1>25, <1>26, <1>27, <1>28, <1>29, <1>30, <1>31 DEF Next,
         WorkerStep, ClientStep, SlotStep

-----------------------------------------------------------------------------
(* What a step may do to the boards that account for the tree.             *)

\* What was covered stays covered.
Keeps == \A l \in Leaf : \A t \in Nat : t <= clock /\ Covered(l, t) => Covered(l, t)'

\* What a worker had in memory stays there or gets covered otherwise.
TodoKept == \A v \in Worker : \A p \in todo[v] : \A l \in Leaves[p] : \A t \in Nat :
    \/ roots'[v] = {}
    \/ \E q \in todo'[v] : l \in Leaves[q]
    \/ Covered(l, t)'

\* A new hand-out is in the memory of the worker that got it.
NewRootsHeld == \A v \in Worker : \A h \in roots'[v] : h \in roots[v] \/ h.p \in todo'[v]

\* A new acknowledgement in a broken socket is for something covered.
NewAcksCovered == \A s \in Slot :
    \/ unread'[s] = unread[s]
    \/ unread'[s].op # "ACK"
    \/ \A p \in unread'[s].s : \A l \in Leaves[p] : Covered(l, unread[s].t)'

Preserved ==
    /\ hazard \subseteq hazard'
    /\ hazard' = {} => Keeps /\ TodoKept /\ NewRootsHeld /\ NewAcksCovered

\* A step that is Preserved preserves the accounting invariants.
LEMMA Frame ==
    ASSUME Basic, LossExplained, RootsAccounted, LateAcksAccounted, Preserved
    PROVE  LossExplained' /\ RootsAccounted' /\ LateAcksAccounted'
<1> SUFFICES ASSUME hazard' = {}
             PROVE  LossExplained' /\ RootsAccounted' /\ LateAcksAccounted'
  BY DEF LossExplained, RootsAccounted, LateAcksAccounted
<1>0. hazard = {} /\ Keeps /\ TodoKept /\ NewRootsHeld /\ NewAcksCovered
  BY DEF Preserved
<1>1. \A l \in Leaf : Covered(l, 0)'
  BY <1>0 DEF LossExplained, Keeps, Basic, TypeOK
<1>2. ASSUME NEW w \in Worker, NEW h \in roots'[w], NEW l \in Leaves[h.p]
      PROVE  Covered(l, h.t)' \/ \E p \in todo'[w] : l \in Leaves[p]
  <2>0. CASE h \notin roots[w]
    BY <1>0, <2>0 DEF NewRootsHeld
  <2>1. CASE h \in roots[w]
    <3>1. h.p \in Poss /\ h.t \in Nat /\ h.t <= clock /\ l \in Leaf
      BY <2>1, TreeAssumption DEF Basic, TypeOK, HandOutsOK, HandOut
    <3>2. CASE Covered(l, h.t)
      BY <1>0, <3>1, <3>2 DEF Keeps
    <3>3. CASE \E p \in todo[w] : l \in Leaves[p]
      BY <1>0, <3>1, <3>3 DEF TodoKept
    <3> QED BY <1>0, <2>1, <3>1, <3>2, <3>3 DEF RootsAccounted
  <2> QED BY <2>0, <2>1
<1>3. ASSUME NEW s \in Slot, unread'[s].op = "ACK",
             NEW p \in unread'[s].s, NEW l \in Leaves[p]
      PROVE  Covered(l, unread[s].t)'
  <2>0. CASE unread'[s] # unread[s]
    BY <1>0, <1>3, <2>0 DEF NewAcksCovered
  <2>1. CASE unread'[s] = unread[s]
    <3>1. p \in Poss /\ l \in Leaf /\ unread[s].t \in Nat /\ unread[s].t <= clock
      BY <1>3, <2>1, TreeAssumption DEF Basic, TypeOK, HandOutsOK, Request
    <3>2. Covered(l, unread[s].t)
      BY <1>0, <1>3, <2>1, <3>1 DEF LateAcksAccounted
    <3>3. \A t \in Nat : t = unread'[s].t => (Covered(l, t)' => Covered(l, unread[s].t)')
      BY DEF Covered
    <3>4. \A t \in Nat : t = unread[s].t => Covered(l, t)'
      BY <1>0, <3>1, <3>2 DEF Keeps
    <3> QED BY <2>1, <3>1, <3>3, <3>4
  <2> QED BY <2>0, <2>1
<1>4. LossExplained'
  BY <1>1 DEF LossExplained
<1>5. RootsAccounted'
  BY <1>2 DEF RootsAccounted
<1>6. LateAcksAccounted'
  BY <1>3 DEF LateAcksAccounted
<1> QED BY <1>4, <1>5, <1>6

\* Removing the entry of an acknowledged hand-out uncovers nothing, when its
\* board is covered without it.
LEMMA HandleAckKeeps ==
    ASSUME Basic, NEW p \in Poss, NEW w \in Worker, NEW t \in Nat, t <= clock,
           \A l \in Leaves[p] : Covered(l, t),
           HandleAck(p, w, t), hazard' = {},
           local' = local, recycled' = recycled, todo' = todo
    PROVE  Keeps
<1> SUFFICES ASSUME NEW l \in Leaf, NEW u \in Nat, u <= clock, Covered(l, u)
             PROVE  Covered(l, u)'
  BY DEF Keeps
<1>1. CASE analysed' = analysed
  BY <1>1 DEF Covered, HandleAck
<1>2. CASE \E e \in Own(p, w, t) : analysed' = analysed \ {e}
  <2>1. PICK e \in Own(p, w, t) : analysed' = analysed \ {e}
    BY <1>2
  <2>2. e \in analysed /\ e.p = p /\ e.t = t
    BY DEF Own
  <2>3. CASE ~(l \in Leaves[p] /\ t > u)
    <3>1. \A x \in analysed : x.t > u /\ l \in Leaves[x.p] => x \in analysed'
      BY <2>1, <2>2, <2>3
    <3> QED BY <3>1 DEF Covered, HandleAck
  <2>4. CASE l \in Leaves[p] /\ t > u
    <3>1. Covered(l, t)
      BY <2>4
    <3>2. \A x \in analysed : x.t > t => x \in analysed' /\ x.t > u
      BY <2>1, <2>2, <2>4 DEF Basic, TypeOK, Entry
    <3> QED BY <3>1, <3>2 DEF Covered, HandleAck
  <2> QED BY <2>3, <2>4
<1> QED BY <1>1, <1>2 DEF HandleAck

\* Handing S out keeps its boards covered: they leave the stock for entries
\* that are younger than every earlier hand-out.
LEMMA HandleGetKeeps ==
    ASSUME Basic, NEW w \in Worker, NEW S \in SUBSET Poss, HandleGet(w, S),
           \A v \in Worker : /\ local'[v] = local[v]
                             /\ recycled[v] /\ todo[v] # {} =>
                                    recycled'[v] /\ todo[v] \subseteq todo'[v]
    PROVE  Keeps
<1> SUFFICES ASSUME NEW l \in Leaf, NEW t \in Nat, t <= clock, Covered(l, t)
             PROVE  Covered(l, t)'
  BY DEF Keeps
<1>1. \A p \in Poss : stock[p] > 0 => stock'[p] > 0 \/ p \in S
  BY DEF HandleGet, Unstocked, Basic, TypeOK
<1>2. \A p \in S : \E e \in analysed' : e.p = p /\ e.t > t
  <2> SUFFICES ASSUME NEW p \in S PROVE \E e \in analysed' : e.p = p /\ e.t > t
    OBVIOUS
  <2>1. [p |-> p, w |-> w, t |-> clock + 1] \in analysed'
    BY DEF HandleGet
  <2>2. clock + 1 > t
    BY DEF Basic, TypeOK
  <2> QED BY <2>1, <2>2
<1>3. analysed \subseteq analysed' /\ explored' = explored /\ errfile' = errfile
  BY DEF HandleGet
<1>4. CASE l \in explored
  BY <1>3, <1>4 DEF Covered
<1>5. CASE l \notin explored
  <2>1. PICK p \in Poss :
          /\ l \in Leaves[p]
          /\ \/ stock[p] > 0
             \/ p \in errfile
             \/ \E e \in analysed : e.p = p /\ e.t > t
             \/ \E v \in Worker : p \in local[v]
             \/ \E v \in Worker : recycled[v] /\ p \in todo[v]
    BY <1>5 DEF Covered
  <2>2. \/ stock'[p] > 0
        \/ p \in errfile'
        \/ \E e \in analysed' : e.p = p /\ e.t > t
        \/ \E v \in Worker : p \in local'[v]
        \/ \E v \in Worker : recycled'[v] /\ p \in todo'[v]
    BY <1>1, <1>2, <1>3, <2>1
  <2> QED BY <2>1, <2>2 DEF Covered
<1> QED BY <1>4, <1>5

\* The purge of the stock keeps, for every board it removes, the topmost of the
\* reclaimed boards above it.
LEMMA PurgeStockKeeps ==
    ASSUME Basic, PurgeStock, hazard' = {}
    PROVE  Keeps
<1> SUFFICES ASSUME NEW l \in Leaf, NEW t \in Nat, Covered(l, t)
             PROVE  Covered(l, t)'
  BY DEF Keeps
<1>1. \A r \in reclaimed : stock[r] # 0
  BY DEF PurgeStock, PurgeHazard
<1>2. ASSUME NEW p \in Poss, l \in Leaves[p], stock[p] > 0, Redundant(p)
      PROVE  \E r \in Poss : l \in Leaves[r] /\ stock'[r] > 0
  <2>1. reclaimed \in SUBSET Poss
    BY DEF Basic, TypeOK
  <2>2. PICK r \in reclaimed : /\ <<r, p>> \in Origin
                               /\ \A q \in reclaimed : <<q, r>> \notin Origin
    BY <1>2, <2>1, OriginWellFounded DEF Redundant, IsOriginOf
  <2>3. r \in Poss /\ ~Redundant(r) /\ l \in Leaves[r]
    BY <1>2, <2>1, <2>2, TreeAssumption DEF Redundant, IsOriginOf
  <2>4. stock'[r] = stock[r] /\ stock[r] > 0
    BY <1>1, <2>3 DEF PurgeStock, Basic, TypeOK
  <2> QED BY <2>3, <2>4
<1>3. ASSUME NEW p \in Poss, l \in Leaves[p], stock[p] > 0
      PROVE  \E r \in Poss : l \in Leaves[r] /\ stock'[r] > 0
  BY <1>2, <1>3 DEF PurgeStock
<1> QED BY <1>3 DEF PurgeStock, slotVars, workerVars, Covered

\* Every step keeps what is covered, or marks a hazard.
LEMMA CoverStep ==
    ASSUME Basic, RootsAccounted, LateAcksAccounted, [Next]_vars
    PROVE  Preserved
<1> USE TreeAssumption
    DEF serverVars, slotVars, workerVars, historyVars, Basic, TypeOK, Preserved,
       NoReq
<1>a. ASSUME UNCHANGED <<stock, analysed, errfile, explored, hazard, local,
   recycled,
                         todo, roots>>,
             \A s \in Slot : unread'[s] = unread[s] \/ unread'[s].op # "ACK"
      PROVE  Preserved
  BY <1>a DEF Keeps, TodoKept, NewRootsHeld, NewAcksCovered, Covered
<1>1. ASSUME NEW w \in Worker, Connect(w) PROVE Preserved
  BY <1>a, <1>1 DEF Connect
<1>2. ASSUME NEW w \in Worker, LinkLost(w) PROVE Preserved
  BY <1>a, <1>2 DEF LinkLost, Connected, Broken, Fault
<1>3. ASSUME NEW w \in Worker, AckDone(w) PROVE Preserved
  BY <1>a, <1>3 DEF AckDone, NeedsWork
<1>4. ASSUME NEW w \in Worker, TakeLocal(w) PROVE Preserved
  BY <1>4 DEF TakeLocal, NeedsWork, Keeps, TodoKept, NewRootsHeld, NewAcksCovered,
     Covered, Entry
<1>5. ASSUME NEW w \in Worker, GetUnread(w) PROVE Preserved
  BY <1>a, <1>5 DEF GetUnread, NeedsWork, Broken, Fault
<1>6. ASSUME NEW w \in Worker, GetNothing(w) PROVE Preserved
  BY <1>a, <1>6 DEF GetNothing, NeedsWork, InStock
<1>7. ASSUME NEW w \in Worker, GetNotRecorded(w) PROVE Preserved
  BY <1>7 DEF GetNotRecorded, NeedsWork, InStock, Unstocked, Fault, Keeps,
     TodoKept, NewRootsHeld, NewAcksCovered, Covered, Entry
<1>8. ASSUME NEW w \in Worker, Expand(w) PROVE Preserved
  BY <1>8 DEF Expand, Keeps, TodoKept, NewRootsHeld, NewAcksCovered, Covered, Entry
<1>9. ASSUME NEW w \in Worker, Close(w) PROVE Preserved
  BY <1>9 DEF Close, Keeps, TodoKept, NewRootsHeld, NewAcksCovered, Covered, Entry
<1>10. ASSUME NEW w \in Worker, Deposit(w) PROVE Preserved
  BY <1>10 DEF Deposit, Connected, HandleAdd, Stocked, Keeps, TodoKept,
     NewRootsHeld, NewAcksCovered, Covered, Entry
<1>11. ASSUME NEW w \in Worker, FlushUnreachable(w) PROVE Preserved
  BY <1>11 DEF FlushUnreachable, Fault, Keeps, TodoKept, NewRootsHeld,
     NewAcksCovered, Covered, Entry
<1>12. ASSUME NEW w \in Worker, ForkCrash(w) PROVE Preserved
  BY ZenonT(60), <1>12 DEF ForkCrash, Die, Fault, Keeps, TodoKept, NewRootsHeld,
     NewAcksCovered, Covered, Entry
<1>13. ASSUME NEW k \in Client, ClientCrash(k) PROVE Preserved
  BY ZenonT(60), <1>13 DEF ClientCrash, Die, Fault, Keeps, TodoKept, NewRootsHeld,
     NewAcksCovered, Covered, Entry
<1>14. ASSUME NEW k \in Client, CtrlClosed(k) PROVE Preserved
  BY <1>a, <1>14 DEF CtrlClosed
<1>15. ASSUME NEW k \in Client, CtrlLost(k) PROVE Preserved
  BY <1>a, <1>15 DEF CtrlLost, Fault
<1>16. ASSUME NEW k \in Client, CtrlOpened(k) PROVE Preserved
  BY <1>a, <1>16 DEF CtrlOpened
<1>17. ASSUME NEW s \in Slot, EndSession(s) PROVE Preserved
  BY <1>a, <1>17 DEF EndSession
<1>18. ASSUME NEW s \in Slot, FreeSlot(s) PROVE Preserved
  BY <1>a, <1>18 DEF FreeSlot
<1>19. ASSUME ReclaimExpired PROVE Preserved
  BY <1>19 DEF ReclaimExpired, Stocked, Keeps, TodoKept, NewRootsHeld,
     NewAcksCovered, Covered, Entry
<1>20. ASSUME NEW w \in Worker, Ack(w) PROVE Preserved
  <2>1. PICK h \in roots[w] : /\ HandleAck(h.p, w, h.t)
                              /\ roots' = [roots EXCEPT ![w] = @ \ {h}]
    BY <1>20 DEF Ack
  <2>2. h.p \in Poss /\ h.t \in Nat /\ h.t <= clock
    BY DEF HandOutsOK, HandOut
  <2>3. hazard \subseteq hazard'
    BY <2>1 DEF HandleAck
  <2>4. hazard' = {} => \A l \in Leaves[h.p] : Covered(l, h.t)
    BY <1>20, <2>3 DEF RootsAccounted, Ack, NeedsWork
  <2>5. hazard' = {} => Keeps
    BY <1>20, <2>1, <2>2, <2>4, HandleAckKeeps DEF Ack
  <2>6. TodoKept /\ NewAcksCovered
    BY <1>20 DEF TodoKept, NewAcksCovered, Ack
  <2>7. NewRootsHeld
    BY <2>1 DEF NewRootsHeld
  <2> QED BY <2>3, <2>5, <2>6, <2>7
<1>21. ASSUME NEW w \in Worker, AckReplyLost(w) PROVE Preserved
  <2>1. PICK h \in roots[w] : HandleAck(h.p, w, h.t)
    BY <1>21 DEF AckReplyLost
  <2>2. h.p \in Poss /\ h.t \in Nat /\ h.t <= clock
    BY DEF HandOutsOK, HandOut
  <2>3. hazard \subseteq hazard'
    BY <2>1 DEF HandleAck
  <2>4. hazard' = {} => \A l \in Leaves[h.p] : Covered(l, h.t)
    BY <1>21, <2>3 DEF RootsAccounted, AckReplyLost, NeedsWork
  <2>5. hazard' = {} => Keeps
    BY <1>21, <2>1, <2>2, <2>4, HandleAckKeeps DEF AckReplyLost
  <2>6. TodoKept /\ NewRootsHeld /\ NewAcksCovered
    BY <1>21 DEF TodoKept, NewRootsHeld, NewAcksCovered, AckReplyLost, Broken
  <2> QED BY <2>3, <2>5, <2>6
<1>22. ASSUME NEW w \in Worker, AckUnread(w) PROVE Preserved
  <2>1. PICK h \in roots[w] : Broken(w, [op |-> "ACK", s |-> {h.p}, t |-> h.t])
    BY <1>22 DEF AckUnread
  <2>2. h.p \in Poss /\ h.t \in Nat
    BY DEF HandOut
  <2>3. /\ UNCHANGED <<stock, analysed, errfile, explored, hazard, local, recycled>>
        /\ UNCHANGED <<todo, roots>>
    BY <1>22 DEF AckUnread
  <2>4. Keeps /\ TodoKept /\ NewRootsHeld
    BY <2>3 DEF Keeps, TodoKept, NewRootsHeld, Covered
  <2>5. ASSUME hazard' = {} PROVE NewAcksCovered
    <3>1. \A l \in Leaves[h.p] : Covered(l, h.t)
      BY <1>22, <2>3, <2>5 DEF RootsAccounted, AckUnread, NeedsWork
    <3>2. \A l \in Leaves[h.p] : Covered(l, h.t)'
      BY <2>3, <3>1 DEF Covered
    <3>3. ASSUME NEW s \in Slot, unread'[s] # unread[s]
          PROVE  unread'[s] = [op |-> "ACK", s |-> {h.p}, t |-> h.t]
      BY <2>1, <3>3 DEF Broken
    <3>4. ASSUME NEW s \in Slot, NEW l \in Leaf, NEW t \in Nat,
                 t = unread'[s].t, Covered(l, t)'
          PROVE  Covered(l, unread[s].t)'
      BY <3>4 DEF Covered
    <3>5. Leaves[h.p] \subseteq Leaf
      BY <2>2
    <3> QED BY <2>2, <3>2, <3>3, <3>4, <3>5 DEF NewAcksCovered
  <2> QED BY <2>3, <2>4, <2>5
<1>23. ASSUME NEW w \in Worker, Get(w) PROVE Preserved
  <2>1. PICK S \in SUBSET Poss :
          /\ HandleGet(w, S)
          /\ roots' = [roots EXCEPT ![w] = @ \cup {[p |-> p,
             t |-> clock + 1] : p \in S}]
          /\ todo' = [todo EXCEPT ![w] = S]
    BY <1>23 DEF Get
  <2>2. todo[w] = {} /\ UNCHANGED <<local, unread>>
        /\ recycled' = [recycled EXCEPT ![w] = FALSE]
    BY <1>23 DEF Get, NeedsWork
  <2>3. Keeps
    BY <2>1, <2>2, HandleGetKeeps
  <2>4. hazard' = hazard
    BY <2>1 DEF HandleGet
  <2>5. TodoKept /\ NewRootsHeld /\ NewAcksCovered
    BY <2>1, <2>2 DEF TodoKept, NewRootsHeld, NewAcksCovered
  <2> QED BY <2>3, <2>4, <2>5
<1>24. ASSUME NEW w \in Worker, GetReplyLost(w) PROVE Preserved
  <2>1. PICK S \in SUBSET Poss : HandleGet(w, S)
    BY <1>24 DEF GetReplyLost
  <2>2. UNCHANGED <<local, recycled, todo, roots>>
    BY <1>24 DEF GetReplyLost
  <2>3. Keeps
    BY <2>1, <2>2, HandleGetKeeps
  <2>4. hazard' = hazard
    BY <2>1 DEF HandleGet
  <2>5. TodoKept /\ NewRootsHeld /\ NewAcksCovered
    BY <1>24, <2>2 DEF TodoKept, NewRootsHeld, NewAcksCovered, GetReplyLost, Broken
  <2> QED BY <2>3, <2>4, <2>5
<1>25. ASSUME NEW w \in Worker, DepositRefused(w) PROVE Preserved
  <2>1. \A p \in Poss : stock[p] > 0 => stock'[p] > 0
    BY <1>25 DEF DepositRefused, HandleAdd, Stocked
  <2>2. UNCHANGED <<analysed, errfile, explored, hazard, recycled, roots, unread>>
    BY <1>25 DEF DepositRefused, HandleAdd
  <2>3. \A v \in Worker : /\ local[v] \subseteq local'[v]
                          /\ todo[v] \subseteq todo'[v] \cup local'[v]
    BY <1>25 DEF DepositRefused
  <2> QED BY <2>1, <2>2, <2>3 DEF Keeps, TodoKept, NewRootsHeld, NewAcksCovered,
     Covered
<1>26. ASSUME NEW w \in Worker, DepositFailed(w) PROVE Preserved
  <2>1. \A p \in Poss : stock[p] > 0 => stock'[p] > 0
    BY <1>26 DEF DepositFailed, HandleAdd, Stocked
  <2>2. UNCHANGED <<analysed, errfile, explored, hazard, recycled, roots>>
    BY <1>26 DEF DepositFailed, HandleAdd
  <2>3. \A v \in Worker : /\ local[v] \subseteq local'[v]
                          /\ todo[v] \subseteq todo'[v] \cup local'[v]
    BY <1>26 DEF DepositFailed
  <2>4. NewAcksCovered
    BY <1>26 DEF DepositFailed, Broken, NewAcksCovered
  <2> QED BY <2>1, <2>2, <2>3, <2>4 DEF Keeps, TodoKept, NewRootsHeld, Covered
<1>27. ASSUME NEW s \in Slot, LateRequest(s) PROVE Preserved
  <2>1. UNCHANGED workerVars
    BY <1>27 DEF LateRequest
  <2>2. TodoKept /\ NewRootsHeld /\ NewAcksCovered
    BY <1>27 DEF TodoKept, NewRootsHeld, NewAcksCovered, LateRequest
  <2>3. serves[s] \in Worker
    BY <1>27 DEF LateRequest, SockOK
  <2>4. CASE \E S \in SUBSET Poss : HandleGet(serves[s], S)
    <3>1. PICK S \in SUBSET Poss : HandleGet(serves[s], S)
      BY <2>4
    <3>2. Keeps
      BY <2>1, <2>3, <3>1, HandleGetKeeps
    <3> QED BY <2>2, <3>1, <3>2 DEF HandleGet
  <2>5. CASE HandleAdd(unread[s].s)
    BY <2>1, <2>2, <2>5 DEF HandleAdd, Stocked, Keeps, Covered
  <2>6. CASE /\ unread[s].op = "ACK"
             /\ \E p \in unread[s].s : HandleAck(p, serves[s], unread[s].t)
    <3>1. PICK p \in unread[s].s : HandleAck(p, serves[s], unread[s].t)
      BY <2>6
    <3>2. p \in Poss /\ unread[s].t \in Nat /\ unread[s].t <= clock
      BY DEF HandOutsOK, Request
    <3>3. hazard \subseteq hazard'
      BY <3>1 DEF HandleAck
    <3>4. hazard' = {} => \A l \in Leaves[p] : Covered(l, unread[s].t)
      BY <2>6, <3>3 DEF LateAcksAccounted
    <3>5. hazard' = {} => Keeps
      BY <2>1, <2>3, <3>1, <3>2, <3>4, HandleAckKeeps
    <3> QED BY <2>2, <3>3, <3>5
  <2> QED BY <1>27, <2>4, <2>5, <2>6 DEF LateRequest
<1>28. ASSUME NEW s \in Slot, RequeueLastSent(s) PROVE Preserved
  BY <1>28 DEF RequeueLastSent, Stocked, Keeps, TodoKept, NewRootsHeld,
     NewAcksCovered,
     Covered, Entry
<1>29. ASSUME PurgeAnalysed PROVE Preserved
  <2>1. hazard' = {} => Keeps
    <3> SUFFICES ASSUME hazard' = {}, NEW l \in Leaf, NEW t \in Nat, Covered(l, t)
                 PROVE  Covered(l, t)'
      BY DEF Keeps
    <3>1. \A r \in reclaimed : stock[r] # 0
      BY <1>29 DEF PurgeAnalysed, PurgeHazard
    <3>2. ASSUME NEW e \in analysed, l \in Leaves[e.p], e \notin analysed'
          PROVE  \E r \in Poss : l \in Leaves[r] /\ stock'[r] > 0
      <4>1. Redundant(e.p) /\ stock' = stock
        BY <1>29, <3>2 DEF PurgeAnalysed
      <4>2. PICK r \in reclaimed : <<r, e.p>> \in Origin
        BY <4>1 DEF Redundant, IsOriginOf
      <4>3. r \in Poss /\ stock[r] > 0
        BY <3>1
      <4>4. l \in Leaves[r]
        BY <3>2, <4>2 DEF Entry
      <4> QED BY <4>1, <4>3, <4>4
    <3> QED BY <1>29, <3>2 DEF PurgeAnalysed, Covered, Entry
  <2> QED BY <1>29, <2>1
      DEF PurgeAnalysed, PurgeHazard, TodoKept, NewRootsHeld, NewAcksCovered
<1>30. ASSUME PurgeStock PROVE Preserved
  <2>1. hazard' = {} => Keeps
    BY <1>30, PurgeStockKeeps
  <2> QED BY <1>30, <2>1
      DEF PurgeStock, PurgeHazard, TodoKept, NewRootsHeld, NewAcksCovered
<1>31. CASE UNCHANGED vars
  BY <1>a, <1>31 DEF vars
<1> QED BY <1>1, <1>2, <1>3, <1>4, <1>5, <1>6, <1>7, <1>8, <1>9, <1>10, <1>11,
   <1>12, <1>13, <1>14, <1>15, <1>16, <1>17, <1>18, <1>19, <1>20, <1>21, <1>22,
      <1>23, <1>24, <1>25, <1>26, <1>27, <1>28, <1>29, <1>30, <1>31
    DEF Next, WorkerStep, ClientStep, SlotStep

-----------------------------------------------------------------------------
\* IInv is an invariant of the specification.
THEOREM Invariance == Spec => []IInv
<1>1. IInv /\ [Next]_vars => IInv'
  BY BasicStep, CoverStep, Frame DEF IInv, Basic
<1> QED BY InitIInv, <1>1, PTL DEF Spec

\* Every variable keeps its type, whatever the workers, the network and the
\* lease pass of check_server_step do.
THEOREM TypeCorrect == Spec => []TypeOK
<1>1. IInv => TypeOK
  BY DEF IInv
<1> QED BY Invariance, <1>1, PTL

\* No branch of the tree is lost by handing out, requeueing, reclaiming,
\* purging, acknowledging late, twice or not at all, unless one of the four
\* hazards has happened.
THEOREM NothingLost == Spec => []LossExplained
<1>1. IInv => LossExplained
  BY DEF IInv
<1> QED BY Invariance, <1>1, PTL

\* When a worker has finished, everything it was handed out is accounted for
\* by something younger than the entry its acknowledgement removes.
THEOREM AcksAreSafe == Spec => []RootsAccounted
<1>1. IInv => RootsAccounted
  BY DEF IInv
<1> QED BY Invariance, <1>1, PTL

\* The same of an acknowledgement that a worker has sent and the server has yet to read,
\* whatever happens to the entry in between: lease, requeue, purge, another hand-out.
THEOREM LateAcksAreSafe == Spec => []LateAcksAccounted
<1>1. IInv => LateAcksAccounted
  BY DEF IInv
<1> QED BY Invariance, <1>1, PTL
=============================================================================
