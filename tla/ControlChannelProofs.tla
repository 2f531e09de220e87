------------------------ MODULE ControlChannelProofs ------------------------
(***************************************************************************)
(* Three promises of the control channel, for any number of clients,       *)
(* sessions, machines and connections.                                     *)
(*                                                                         *)
(* An order posted for one client never reaches another.  Three things     *)
(* make it true together.  A slot in use belongs to the one connection     *)
(* that knows it, and bears the client of that connection (LinksOK).       *)
(* Numbers are given in increasing order, so the client a number was given *)
(* to is the one whose slot bears it (NumbersOK).  A queue is emptied with *)
(* its slot (QueuesOK).                                                    *)
(*                                                                         *)
(* A client that has served all that was posted to it is as the operator   *)
(* wants it.  What is inductive is about the way there: the frame on the   *)
(* connection, then the queue, make the client what is wanted (Told).      *)
(*                                                                         *)
(* The register of machines shows the clients that are connected, and      *)
(* counts them right (RInv).                                               *)
(***************************************************************************)
EXTENDS ControlChannel, FiniteSetTheorems, SequenceTheorems, TLAPS

AnyClient == CtlClient \cup {NoClient}
Cmds == {"none", "stats", "pause", "resume", "config", "configApply"}
EntryT == [cmd : Cmds, n : Int, to : AnyClient]
SlotT == [no : Nat, client : AnyClient, queue : Seq(EntryT)]
RegT == [slot : [CtlSlot -> SlotT], next : Nat, pause : BOOLEAN, roles : [Machine -> Int], dosage : Int]
FrameT == [is : {"none", "request", "answer"}, e : EntryT, v : Int]
Pcs == {"none", "hello", "known", "idle", "wait", "closing", "leaving", "gone"}
LinkT == [client : AnyClient, cOpen : BOOLEAN, pc : Pcs, slot : 0 .. MaxSlot, wire : FrameT]
ClT == [req : {"run", "admin", "stop"}, staged : Int, dosage : Int, applying : BOOLEAN,
        checked : Nat, link : 0 .. MaxLinks]
HistT == [named : [Link -> AnyClient], pauseAmiss : SUBSET AnyClient,
          roleAmiss : SUBSET AnyClient, unshown : SUBSET AnyClient]
TypesOK ==
  /\ ctlSet \in CtlSettings
  /\ reg \in RegT
  /\ ctlLink \in [Link -> LinkT]
  /\ cl \in [CtlClient -> ClT]
  /\ ctlHist \in HistT

\* Numbers increase; the client a number was given to has it for as long as a slot bears it.
NumberOK(r, named, i) ==
  r.slot[i].no # 0 => /\ r.slot[i].no < r.next /\ r.slot[i].client \in CtlClient
                      /\ r.slot[i].no \in Link => named[r.slot[i].no] = r.slot[i].client
NumbersOK ==
  /\ reg.next > 0
  /\ \A i \in CtlSlot : NumberOK(reg, ctlHist.named, i)
  /\ \A n \in Link : n >= reg.next => ctlHist.named[n] = NoClient

\* The connections a thread of the server serves have a slot, their own.
Serving == {"known", "idle", "wait", "closing", "leaving"}
LinkOK(r, l) ==
  /\ l.slot # 0 <=> l.pc \in Serving
  /\ l.slot # 0 => r.slot[l.slot].no # 0 /\ r.slot[l.slot].client = l.client
  /\ l.pc \notin {"none", "gone"} => l.client \in CtlClient
  /\ l.wire.e.to \in {NoClient, l.client}
LinksOK ==
  /\ \A k \in Link : LinkOK(reg, ctlLink[k])
  /\ \A j, k \in Link : ctlLink[j].slot = ctlLink[k].slot /\ ctlLink[k].slot # 0 => j = k
  /\ \A i \in CtlSlot : reg.slot[i].no # 0 => \E k \in Link : ctlLink[k].slot = i

QueueOK(s) ==
  /\ Len(s.queue) <= QueueCap
  /\ \A j \in 1 .. Len(s.queue) : s.queue[j].to \in {NoClient, s.client}
QueuesOK == \A i \in CtlSlot : QueueOK(reg.slot[i])

CInv == TypesOK /\ NumbersOK /\ LinksOK /\ QueuesOK

-----------------------------------------------------------------------------
LEMMA Bounds ==
  /\ QueueCap \in Nat /\ QueueCap > 0 /\ MaxSlot \in Nat /\ MaxSlot > 0
  /\ MaxLinks \in Nat /\ MaxDosage \in Nat /\ 0 \notin CtlSlot /\ CtlSlot \subseteq 0 .. MaxSlot
  /\ CtlSlot \subseteq Nat /\ Link \subseteq Nat \ {0}
BY ControlAssumption DEF CtlSlot, Link

LEMMA EntryType ==
  ASSUME NEW cmd \in Cmds, NEW n \in Int, NEW to \in AnyClient
  PROVE  CtlEntry(cmd, n, to) \in EntryT /\ CtlEntry(cmd, n, to).to = to
BY DEF CtlEntry, EntryT

\* A post adds at the end of a queue that has room.
LEMMA PostOK ==
  ASSUME NEW s \in SlotT, QueueOK(s), NEW e \in EntryT, e.to \in {NoClient, s.client},
         Len(s.queue) < QueueCap
  PROVE  LET t == [s EXCEPT !.queue = Append(s.queue, e)]
         IN  t \in SlotT /\ t.no = s.no /\ t.client = s.client /\ QueueOK(t)
<1> DEFINE q == Append(s.queue, e)
           t == [s EXCEPT !.queue = q]
<1>1. s.queue \in Seq(EntryT) /\ Len(s.queue) \in Nat /\ QueueCap \in Nat
  BY Bounds DEF SlotT
<1>2. q \in Seq(EntryT) /\ Len(q) = Len(s.queue) + 1
  BY <1>1
<1>3. \A j \in 1 .. Len(q) : q[j].to \in {NoClient, s.client}
  <2> SUFFICES ASSUME NEW j \in 1 .. Len(q) PROVE q[j].to \in {NoClient, s.client}
    OBVIOUS
  <2>1. CASE j = Len(q)
    BY <1>1, <1>2, <2>1
  <2>2. CASE j # Len(q)
    <3>1. j \in 1 .. Len(s.queue) /\ q[j] = s.queue[j]
      BY <1>1, <1>2, <2>2
    <3> QED
      BY <3>1 DEF QueueOK
  <2> QED
    BY <2>1, <2>2
<1> HIDE DEF q
<1>4. t \in SlotT /\ t.no = s.no /\ t.client = s.client /\ t.queue = q
  BY <1>2 DEF SlotT
<1> QED
  BY <1>1, <1>2, <1>3, <1>4 DEF QueueOK, q

\* What the operator may do to the registry: it posts, and remembers what it wants.
Posts(r) ==
  /\ r \in RegT /\ r.next = reg.next
  /\ \A i \in CtlSlot : /\ r.slot[i].no = reg.slot[i].no
                        /\ r.slot[i].client = reg.slot[i].client
                        /\ QueueOK(r.slot[i])

LEMMA PostsKeep ==
  ASSUME CInv, Posts(reg'), UNCHANGED <<ctlSet, ctlLink, cl>>,
         ctlHist' \in HistT, ctlHist'.named = ctlHist.named
  PROVE  CInv'
<1>1. TypesOK'
  BY DEF CInv, TypesOK, Posts
<1>2. NumbersOK'
  BY DEF CInv, NumbersOK, NumberOK, Posts
<1>3. LinksOK'
  <2>1. \A k \in Link : ctlLink[k].slot # 0 => ctlLink[k].slot \in CtlSlot
    BY Bounds DEF CInv, TypesOK, LinkT, CtlSlot
  <2> QED
    BY <2>1 DEF CInv, LinksOK, LinkOK, Posts
<1>4. QueuesOK'
  BY DEF QueuesOK, Posts
<1> QED
  BY <1>1, <1>2, <1>3, <1>4 DEF CInv

\* What a step on connection k may do that gives and takes no slot.
LEMMA LinkKeeps ==
  ASSUME CInv, UNCHANGED <<ctlSet, reg>>, cl' \in [CtlClient -> ClT],
         ctlHist' \in HistT, ctlHist'.named = ctlHist.named,
         NEW k \in Link, NEW l \in LinkT, ctlLink' = [ctlLink EXCEPT ![k] = l],
         l.slot = ctlLink[k].slot, l.slot # 0 => l.client = ctlLink[k].client,
         l.slot # 0 <=> l.pc \in Serving,
         l.pc \notin {"none", "gone"} => l.client \in CtlClient,
         l.wire.e.to \in {NoClient, l.client}
  PROVE  CInv'
<1>0. /\ ctlLink' \in [Link -> LinkT] /\ ctlLink'[k] = l
      /\ \A j \in Link : j # k => ctlLink'[j] = ctlLink[j]
      /\ \A j \in Link : ctlLink'[j].slot = ctlLink[j].slot
  BY DEF CInv, TypesOK
<1>1. TypesOK'
  BY <1>0 DEF CInv, TypesOK
<1>2. NumbersOK' /\ QueuesOK'
  BY DEF CInv, NumbersOK, QueuesOK
<1>3. LinksOK'
  <2>1. \A j \in Link : LinkOK(reg, ctlLink'[j])
    <3> SUFFICES ASSUME NEW j \in Link PROVE LinkOK(reg, ctlLink'[j])
      OBVIOUS
    <3>1. LinkOK(reg, ctlLink[j])
      BY DEF CInv, LinksOK
    <3>2. CASE j # k
      BY <1>0, <3>1, <3>2
    <3>3. CASE j = k
      BY <1>0, <3>1, <3>3 DEF LinkOK
    <3> QED
      BY <3>2, <3>3
  <2> QED
    BY <1>0, <2>1 DEF CInv, LinksOK
<1> QED
  BY <1>1, <1>2, <1>3 DEF CInv

-----------------------------------------------------------------------------
(* The clients, and the threads of the server that keep their slot.        *)

LEMMA FrameTypes ==
  /\ NoFrame \in FrameT /\ NoFrame.e.to = NoClient
  /\ NoLink \in LinkT /\ NoLink.slot = 0 /\ NoLink.wire = NoFrame /\ NoLink.pc = "none"
  /\ Over \in LinkT /\ Over.slot = 0 /\ Over.wire = NoFrame /\ Over.pc = "gone"
  /\ \A e \in EntryT : CtlRequest(e) \in FrameT /\ CtlRequest(e).e = e
  /\ \A e \in EntryT, v \in Int : Answer(e, v) \in FrameT /\ Answer(e, v).e = e
<1>1. NoFrame \in FrameT /\ NoFrame.e.to = NoClient
  <2>1. CtlEntry(NoCmd, 0, NoClient) \in EntryT /\ CtlEntry(NoCmd, 0, NoClient).to = NoClient
    BY EntryType DEF NoCmd, Cmds, AnyClient
  <2> QED
    BY <2>1 DEF NoFrame, FrameT
<1>2. NoLink \in LinkT /\ NoLink.slot = 0 /\ NoLink.wire = NoFrame /\ NoLink.pc = "none"
  BY <1>1, Bounds DEF NoLink, LinkT, Pcs, AnyClient
<1>3. Over \in LinkT /\ Over.slot = 0 /\ Over.wire = NoFrame /\ Over.pc = "gone"
  <2>1. Over = [NoLink EXCEPT !.pc = "gone"]
    BY DEF Over
  <2> QED
    BY <1>2, <2>1 DEF LinkT, Pcs
<1>4. \A e \in EntryT : CtlRequest(e) \in FrameT /\ CtlRequest(e).e = e
  BY <1>1 DEF CtlRequest, FrameT
<1>5. \A e \in EntryT, v \in Int : Answer(e, v) \in FrameT /\ Answer(e, v).e = e
  BY DEF Answer, FrameT
<1> QED
  BY <1>1, <1>2, <1>3, <1>4, <1>5

LEMMA LinkFacts ==
  ASSUME CInv, NEW k \in Link
  PROVE  ctlLink[k] \in LinkT /\ LinkOK(reg, ctlLink[k]) /\ ctlHist \in HistT
         /\ ctlLink[k].wire.e \in EntryT /\ cl \in [CtlClient -> ClT]
BY DEF CInv, TypesOK, LinksOK, LinkT, FrameT

LEMMA CtlConnectKeeps == ASSUME CInv, NEW c \in CtlClient, CtlConnect(c) PROVE CInv'
<1>1. PICK k \in Link :
        /\ ctlLink[k].pc = "none"
        /\ ctlLink' = [ctlLink EXCEPT ![k] = [NoLink EXCEPT !.client = c, !.cOpen = TRUE, !.pc = "hello"]]
        /\ cl' = [cl EXCEPT ![c].link = k]
  BY DEF CtlConnect
<1>2. PICK l : l = [NoLink EXCEPT !.client = c, !.cOpen = TRUE, !.pc = "hello"]
  OBVIOUS
<1>3. l \in LinkT /\ l.slot = 0 /\ l.client = c /\ l.pc = "hello" /\ l.wire = NoFrame
  BY <1>2, FrameTypes DEF LinkT, Pcs, AnyClient
<1>4. cl' \in [CtlClient -> ClT] /\ ctlLink[k].slot = 0
  BY <1>1, LinkFacts, Bounds DEF ClT, Link, LinkOK, Serving
<1>5. UNCHANGED <<ctlSet, reg>> /\ ctlHist' = ctlHist /\ ctlHist \in HistT
  BY LinkFacts DEF CtlConnect
<1>6. /\ l.slot = ctlLink[k].slot /\ (l.slot # 0 => l.client = ctlLink[k].client)
      /\ (l.slot # 0 <=> l.pc \in Serving) /\ l.client \in CtlClient /\ l.wire.e.to \in {NoClient, l.client}
  BY <1>3, <1>4, FrameTypes DEF Serving
<1>7. ctlLink' = [ctlLink EXCEPT ![k] = l]
  BY <1>1, <1>2
<1> QED
  BY <1>3, <1>4, <1>5, <1>6, <1>7, LinkKeeps

LEMMA ObeyType == ASSUME NEW x \in ClT, NEW e \in EntryT PROVE Obey(x, e) \in ClT
<1>1. admin_pause_transition(x.req, TRUE) \in {"run", "admin", "stop"}
  BY DEF admin_pause_transition, ClT
<1>2. admin_pause_transition(x.req, FALSE) \in {"run", "admin", "stop"}
  BY DEF admin_pause_transition, ClT
<1> HIDE DEF admin_pause_transition
<1>3. e.n \in Int
  BY DEF EntryT
<1> QED
  BY <1>1, <1>2, <1>3 DEF Obey, ClT

LEMMA ServeFrameKeeps == ASSUME CInv, NEW c \in CtlClient, ServeFrame(c) PROVE CInv'
<1> DEFINE k == cl[c].link
           e == ctlLink[k].wire.e
           v == IF e.cmd = "stats" THEN cl[c].checked ELSE 0
<1>1. /\ k # 0 /\ cl' = [cl EXCEPT ![c] = Obey(cl[c], e)]
      /\ ctlLink' = [ctlLink EXCEPT ![k].wire = Answer(e, v)]
      /\ UNCHANGED <<ctlSet, reg, ctlHist>>
  BY DEF ServeFrame
<1>2. k \in Link /\ cl[c] \in ClT /\ v \in Int
  BY <1>1, Bounds DEF CInv, TypesOK, ClT, Link
<1>3. ctlLink[k] \in LinkT /\ LinkOK(reg, ctlLink[k]) /\ e \in EntryT /\ ctlHist \in HistT
  BY <1>2, LinkFacts
<1>4. PICK l : l = [ctlLink[k] EXCEPT !.wire = Answer(e, v)]
  OBVIOUS
<1>5. /\ l \in LinkT /\ l.slot = ctlLink[k].slot /\ l.client = ctlLink[k].client
      /\ l.pc = ctlLink[k].pc /\ l.wire.e = e
  BY <1>2, <1>3, <1>4, FrameTypes DEF LinkT
<1>6. ctlLink' = [ctlLink EXCEPT ![k] = l]
  BY <1>1, <1>4
<1>7. cl' \in [CtlClient -> ClT]
  BY <1>1, <1>2, <1>3, ObeyType DEF CInv, TypesOK
<1> HIDE DEF k, e, v
<1> QED
  BY <1>1, <1>2, <1>3, <1>5, <1>6, <1>7, LinkKeeps DEF LinkOK, e

LEMMA GiveUpKeeps == ASSUME CInv, NEW c \in CtlClient, GiveUp(c) PROVE CInv'
<1> DEFINE k == cl[c].link
           l == ClientEnds(ctlLink[k])
<1>1. /\ k # 0 /\ cl' = [cl EXCEPT ![c].link = 0] /\ ctlLink' = [ctlLink EXCEPT ![k] = l]
      /\ UNCHANGED <<ctlSet, reg, ctlHist>>
  BY DEF GiveUp
<1>2. k \in Link /\ cl' \in [CtlClient -> ClT]
  <2>1. cl \in [CtlClient -> ClT] /\ cl[c] \in ClT
    BY DEF CInv, TypesOK
  <2>2. k \in Link
    BY <1>1, <2>1, Bounds DEF ClT, Link
  <2>3. [cl[c] EXCEPT !.link = 0] \in ClT
    BY <2>1, Bounds DEF ClT
  <2> QED
    BY <1>1, <2>1, <2>2, <2>3
<1>3. ctlLink[k] \in LinkT /\ LinkOK(reg, ctlLink[k]) /\ ctlHist \in HistT
  BY <1>2, LinkFacts
<1>4. /\ l \in LinkT /\ l.slot = ctlLink[k].slot /\ l.pc = ctlLink[k].pc /\ l.wire = NoFrame
      /\ l.pc # "gone" => l.client = ctlLink[k].client
  <2>1. CASE ctlLink[k].pc = "gone"
    BY <1>3, <2>1, FrameTypes DEF ClientEnds, LinkOK, Serving
  <2>2. CASE ctlLink[k].pc # "gone"
    BY <1>3, <2>2, FrameTypes DEF ClientEnds, LinkT
  <2> QED
    BY <2>1, <2>2
<1> HIDE DEF l, k
<1> QED
  BY <1>1, <1>2, <1>3, <1>4, LinkKeeps, FrameTypes DEF LinkOK, Serving

\* Steps that change the place of a thread of the server, its frame and the history.
LEMMA ThreadMoves ==
  ASSUME CInv, UNCHANGED <<ctlSet, reg, cl>>, NEW k \in Link, ctlLink[k].pc \in Serving,
         NEW pc \in Serving, NEW w \in FrameT, w.e.to \in {NoClient, ctlLink[k].client},
         ctlLink' = [ctlLink EXCEPT ![k] = [ctlLink[k] EXCEPT !.pc = pc, !.wire = w]],
         ctlHist' \in HistT, ctlHist'.named = ctlHist.named
  PROVE  CInv'
<1>1. ctlLink[k] \in LinkT /\ LinkOK(reg, ctlLink[k]) /\ cl \in [CtlClient -> ClT]
  BY LinkFacts
<1>2. PICK l : l = [ctlLink[k] EXCEPT !.pc = pc, !.wire = w]
  OBVIOUS
<1>3. /\ l \in LinkT /\ l.slot = ctlLink[k].slot /\ l.pc = pc /\ l.wire = w
      /\ l.client = ctlLink[k].client
  BY <1>1, <1>2 DEF LinkT, Pcs, Serving
<1> QED
  BY <1>1, <1>2, <1>3, LinkKeeps DEF LinkOK, Serving

LEMMA PcMoves ==
  ASSUME CInv, UNCHANGED <<ctlSet, reg, cl>>, NEW k \in Link, ctlLink[k].pc \in Serving,
         NEW pc \in Serving, SetPc(k, pc), ctlHist' \in HistT, ctlHist'.named = ctlHist.named
  PROVE  CInv'
<1>1. ctlLink[k] \in LinkT /\ LinkOK(reg, ctlLink[k])
  BY LinkFacts
<1>2. [ctlLink[k] EXCEPT !.pc = pc, !.wire = ctlLink[k].wire] = [ctlLink[k] EXCEPT !.pc = pc]
  BY <1>1 DEF LinkT
<1>3. ctlLink' = [ctlLink EXCEPT ![k] = [ctlLink[k] EXCEPT !.pc = pc, !.wire = ctlLink[k].wire]]
  BY <1>2 DEF SetPc
<1>4. ctlLink[k].wire \in FrameT /\ ctlLink[k].wire.e.to \in {NoClient, ctlLink[k].client}
  BY <1>1 DEF LinkT, LinkOK
<1> QED
  BY <1>3, <1>4, ThreadMoves

LEMMA SamePlaceKeeps ==
  ASSUME CInv, NEW k \in Link,
         KnowConnect(k) \/ PingFails(k) \/ NoReply(k) \/ KnowDisconnect(k)
  PROVE  CInv'
<1>1. ctlHist \in HistT
  BY DEF CInv, TypesOK
<1>2. CASE KnowConnect(k)
  <2>1. PICK u : ctlHist' = [ctlHist EXCEPT !.unshown = IF u THEN @ \cup {ctlLink[k].client} ELSE @ \ {ctlLink[k].client}]
    BY <1>2 DEF KnowConnect
  <2>2. ctlLink[k].client \in AnyClient
    BY LinkFacts DEF LinkT
  <2>3. ctlHist' \in HistT /\ ctlHist'.named = ctlHist.named
    BY <1>1, <2>1, <2>2 DEF HistT
  <2> QED
    BY <1>2, <2>3, PcMoves DEF KnowConnect, Serving
<1>3. CASE PingFails(k)
  BY <1>1, <1>3, PcMoves DEF PingFails, Serving
<1>4. CASE NoReply(k)
  BY <1>1, <1>4, PcMoves DEF NoReply, Serving
<1>5. CASE KnowDisconnect(k)
  BY <1>1, <1>5, PcMoves DEF KnowDisconnect, Serving
<1> QED
  BY <1>2, <1>3, <1>4, <1>5

LEMMA AutoStatsKeeps == ASSUME CInv, NEW k \in Link, AutoStats(k) PROVE CInv'
<1>1. CtlEntry("stats", 0, NoClient) \in EntryT /\ CtlEntry("stats", 0, NoClient).to = NoClient
  BY EntryType DEF AnyClient, Cmds
<1>2. PICK w : w = CtlRequest(CtlEntry("stats", 0, NoClient))
  OBVIOUS
<1>3. w \in FrameT /\ w.e.to = NoClient
  BY <1>1, <1>2, FrameTypes
<1>4. ctlLink' = [ctlLink EXCEPT ![k] = [ctlLink[k] EXCEPT !.pc = "wait", !.wire = w]]
  BY <1>2 DEF AutoStats
<1> QED
  BY <1>3, <1>4, ThreadMoves, LinkFacts DEF AutoStats, Serving

LEMMA ReplyKeeps == ASSUME CInv, NEW k \in Link, Reply(k) PROVE CInv'
<1>1. ctlLink' = [ctlLink EXCEPT ![k] = [ctlLink[k] EXCEPT !.pc = "idle", !.wire = NoFrame]]
  BY DEF Reply
<1> QED
  BY <1>1, ThreadMoves, FrameTypes, LinkFacts DEF Reply, Serving

-----------------------------------------------------------------------------
(* The threads that take from a queue, take a slot and give it back.       *)

\* The slot of a served connection.
LEMMA ServedSlot ==
  ASSUME CInv, NEW k \in Link, ctlLink[k].pc \in Serving
  PROVE  /\ ctlLink[k].slot \in CtlSlot /\ reg.slot[ctlLink[k].slot] \in SlotT
         /\ reg.slot[ctlLink[k].slot].no # 0 /\ reg.slot[ctlLink[k].slot].client = ctlLink[k].client
         /\ QueueOK(reg.slot[ctlLink[k].slot])
<1>1. ctlLink[k].slot \in CtlSlot
  BY LinkFacts, Bounds DEF LinkT, LinkOK, CtlSlot
<1> QED
  BY <1>1, LinkFacts DEF CInv, TypesOK, RegT, LinkOK, QueuesOK

LEMMA DequeueKeeps == ASSUME CInv, NEW k \in Link, Dequeue(k) PROVE CInv'
<1> DEFINE i == ctlLink[k].slot
           s == reg.slot[i]
           open == ctlLink[k].cOpen
<1>0. /\ ctlLink[k].pc = "idle" /\ s.queue # <<>> /\ UNCHANGED <<ctlSet, cl, ctlHist>>
      /\ reg' = [reg EXCEPT !.slot[i].queue = Tail(s.queue)]
      /\ ctlLink' = [ctlLink EXCEPT
           ![k] = [ctlLink[k] EXCEPT !.pc = IF open THEN "wait" ELSE "closing",
                                     !.wire = IF open THEN CtlRequest(Head(s.queue)) ELSE NoFrame]]
  BY DEF Dequeue, Queue
<1>1. i \in CtlSlot /\ s \in SlotT /\ s.no # 0 /\ s.client = ctlLink[k].client /\ QueueOK(s)
  BY <1>0, ServedSlot DEF Serving
<1>2. ctlLink[k] \in LinkT /\ LinkOK(reg, ctlLink[k]) /\ reg \in RegT
  BY LinkFacts DEF CInv, TypesOK
\* The registry after the command has left the queue.
<1>3. PICK q : q = Tail(s.queue)
  OBVIOUS
<1>4. s.queue \in Seq(EntryT) /\ Len(s.queue) \in Nat /\ Len(s.queue) > 0 /\ QueueCap \in Nat
  <2>1. s.queue \in Seq(EntryT) /\ s.queue # <<>>
    BY <1>0, <1>1 DEF SlotT
  <2> HIDE DEF s
  <2> QED
    BY <2>1, Bounds
<1>5. q \in Seq(EntryT) /\ Len(q) = Len(s.queue) - 1 /\ \A j \in 1 .. Len(q) : q[j] = s.queue[j + 1]
  BY <1>0, <1>3, <1>4
<1>6. PICK t : t = [s EXCEPT !.queue = q]
  OBVIOUS
<1>7. t \in SlotT /\ t.no = s.no /\ t.client = s.client /\ t.queue = q
  BY <1>1, <1>5, <1>6 DEF SlotT
<1>8. QueueOK(t)
  <2>1. ASSUME NEW j \in 1 .. Len(q) PROVE q[j].to \in {NoClient, s.client}
    <3>1. j + 1 \in 1 .. Len(s.queue) /\ q[j] = s.queue[j + 1]
      BY <1>4, <1>5
    <3> QED
      BY <1>1, <3>1 DEF QueueOK
  <2>2. Len(q) <= QueueCap
    BY <1>1, <1>4, <1>5 DEF QueueOK
  <2> QED
    BY <1>7, <2>1, <2>2 DEF QueueOK
<1>9. PICK r : r = [reg EXCEPT !.slot[i] = t]
  OBVIOUS
<1>10. /\ r \in RegT /\ r.next = reg.next /\ r.slot[i] = t
       /\ \A j \in CtlSlot : j # i => r.slot[j] = reg.slot[j]
  <2>1. [reg.slot EXCEPT ![i] = t] \in [CtlSlot -> SlotT]
    BY <1>1, <1>2, <1>7 DEF RegT
  <2> QED
    BY <1>1, <1>2, <1>9, <2>1 DEF RegT
<1>11. reg' = r
  BY <1>0, <1>3, <1>6, <1>9
\* The frame on the connection.
<1>12. PICK w : w = IF open THEN CtlRequest(Head(s.queue)) ELSE NoFrame
  OBVIOUS
<1>13. w \in FrameT /\ w.e.to \in {NoClient, ctlLink[k].client}
  <2>1. 1 \in 1 .. Len(s.queue) /\ Head(s.queue) = s.queue[1] /\ s.queue[1] \in EntryT
    BY <1>4
  <2>2. s.queue[1].to \in {NoClient, s.client}
    BY <1>1, <2>1 DEF QueueOK
  <2> QED
    BY <1>1, <1>12, <2>1, <2>2, FrameTypes
<1>14. PICK pc \in Serving : pc = IF open THEN "wait" ELSE "closing"
  BY DEF Serving
<1>15. PICK l : l = [ctlLink[k] EXCEPT !.pc = pc, !.wire = w]
  OBVIOUS
<1>16. /\ l \in LinkT /\ l.slot = i /\ l.pc = pc /\ l.wire = w /\ l.client = ctlLink[k].client
  BY <1>2, <1>13, <1>14, <1>15 DEF LinkT, Pcs, Serving
<1>17. /\ ctlLink' \in [Link -> LinkT] /\ ctlLink'[k] = l
       /\ \A j \in Link : j # k => ctlLink'[j] = ctlLink[j]
  BY <1>0, <1>12, <1>14, <1>15, <1>16 DEF CInv, TypesOK
<1> HIDE DEF s, i, open
<1>18. \A j \in CtlSlot : r.slot[j].no = reg.slot[j].no /\ r.slot[j].client = reg.slot[j].client
  BY <1>7, <1>10 DEF s
<1>19. TypesOK'
  BY <1>0, <1>10, <1>11, <1>17 DEF CInv, TypesOK
<1>20. NumbersOK'
  BY <1>0, <1>10, <1>11, <1>18 DEF CInv, NumbersOK, NumberOK
<1>21. LinksOK'
  <2>1. \A j \in Link : ctlLink'[j].slot = ctlLink[j].slot
    BY <1>16, <1>17 DEF i
  <2>2. \A j \in Link : LinkOK(r, ctlLink'[j])
    <3> SUFFICES ASSUME NEW j \in Link PROVE LinkOK(r, ctlLink'[j])
      OBVIOUS
    <3>1. LinkOK(reg, ctlLink[j]) /\ (ctlLink[j].slot # 0 => ctlLink[j].slot \in CtlSlot)
      <4>1. ctlLink[j] \in LinkT /\ LinkOK(reg, ctlLink[j])
        BY LinkFacts
      <4>2. ctlLink[j].slot \in 0 .. MaxSlot
        BY <4>1 DEF LinkT
      <4> QED
        BY <4>1, <4>2, Bounds DEF CtlSlot
    <3>2. CASE j # k
      BY <1>17, <1>18, <3>1, <3>2 DEF LinkOK
    <3>3. CASE j = k
      <4>1. ctlLink'[j] = l /\ ctlLink[k].pc \in Serving
        BY <1>0, <1>17, <3>3 DEF Serving
      <4>2. /\ l.slot # 0 /\ l.pc \in Serving /\ l.slot \in CtlSlot
            /\ reg.slot[l.slot].no # 0 /\ reg.slot[l.slot].client = l.client
        BY <1>14, <1>16, <3>1, <3>3, <4>1 DEF LinkOK, i
      <4>3. l.client \in CtlClient
        BY <1>16, <3>1, <3>3, <4>1 DEF LinkOK, Serving
      <4> QED
        BY <1>13, <1>16, <1>18, <4>1, <4>2, <4>3 DEF LinkOK
    <3> QED
      BY <3>2, <3>3
  <2> QED
    BY <1>11, <1>18, <2>1, <2>2 DEF CInv, LinksOK
<1>22. QueuesOK'
  BY <1>8, <1>10, <1>11 DEF CInv, QueuesOK
<1> QED
  BY <1>19, <1>20, <1>21, <1>22 DEF CInv

\* What a session is told first is for whoever has it.
LEMMA FirstOK ==
  ASSUME CInv, NEW c \in CtlClient
  PROVE  FirstCommands(reg, c) \in Seq(EntryT) /\ Len(FirstCommands(reg, c)) <= QueueCap
         /\ \A j \in 1 .. Len(FirstCommands(reg, c)) : FirstCommands(reg, c)[j].to = NoClient
<1> DEFINE m == MachineOf(c)
           p == CtlEntry("pause", 0, NoClient)
           a == CtlEntry("config", reg.roles[m], NoClient)
           b == CtlEntry("configApply", 0, NoClient)
           pause == IF reg.pause THEN <<p>> ELSE <<>>
<1>1. m \in Machine /\ reg.roles[m] \in Int
  BY ControlAssumption DEF CInv, TypesOK, RegT, MachineOf
<1>2. /\ p \in EntryT /\ a \in EntryT /\ b \in EntryT
      /\ p.to = NoClient /\ a.to = NoClient /\ b.to = NoClient
  BY <1>1, EntryType DEF AnyClient, Cmds
<1> HIDE DEF p, a, b
<1>3. pause \in Seq(EntryT) /\ Len(pause) \in {0, 1} /\ \A j \in 1 .. Len(pause) : pause[j].to = NoClient
  BY <1>2
<1>4. <<a, b>> \in Seq(EntryT) /\ Len(<<a, b>>) = 2 /\ \A j \in 1 .. 2 : <<a, b>>[j].to = NoClient
  BY <1>2
<1> HIDE DEF pause
<1>5. PICK ab : ab = <<a, b>>
  OBVIOUS
<1>6. /\ pause \o ab \in Seq(EntryT) /\ Len(pause \o ab) = Len(pause) + 2
      /\ \A j \in 1 .. Len(pause \o ab) : (pause \o ab)[j].to = NoClient
  <2>1. ab \in Seq(EntryT) /\ Len(ab) = 2 /\ \A j \in 1 .. 2 : ab[j].to = NoClient
    BY <1>4, <1>5
  <2>2. pause \o ab \in Seq(EntryT) /\ Len(pause \o ab) = Len(pause) + 2
    <3>1. pause \in Seq(EntryT) /\ ab \in Seq(EntryT) /\ Len(ab) = 2
      BY <1>3, <2>1
    <3>2. pause \o ab \in Seq(EntryT) /\ Len(pause \o ab) = Len(pause) + Len(ab)
      BY <3>1, ConcatProperties, Zenon
    <3> QED
      BY <3>1, <3>2
  <2>3. ASSUME NEW j \in 1 .. Len(pause \o ab) PROVE (pause \o ab)[j].to = NoClient
    <3>1. CASE j <= Len(pause)
      BY <1>3, <2>1, <2>2, <3>1
    <3>2. CASE j > Len(pause)
      <4>1. j - Len(pause) \in 1 .. 2 /\ (pause \o ab)[j] = ab[j - Len(pause)]
        BY <1>3, <2>1, <2>2, <3>2
      <4> QED
        BY <2>1, <4>1
    <3> QED
      BY <1>3, <2>2, <3>1, <3>2
  <2> QED
    BY <2>2, <2>3
<1>7. FirstCommands(reg, c) = IF reg.roles[m] # NoRole /\ Len(pause) + 2 <= QueueCap THEN pause \o ab ELSE pause
  BY <1>5 DEF FirstCommands, p, a, b, pause
<1> QED
  BY <1>3, <1>6, <1>7, Bounds

LEMMA HelloKeeps == ASSUME CInv, NEW k \in Link, Hello(k) PROVE CInv'
<1> DEFINE c == ctlLink[k].client
<1>0. /\ ctlLink[k].pc = "hello" /\ UNCHANGED <<ctlSet, cl>>
      /\ ctlLink[k] \in LinkT /\ LinkOK(reg, ctlLink[k]) /\ ctlHist \in HistT /\ reg \in RegT
      /\ c \in CtlClient /\ ctlLink[k].slot = 0
  BY LinkFacts DEF Hello, CInv, TypesOK, LinkOK, Serving
<1>1. CASE ctlLink' = [ctlLink EXCEPT ![k] = ServerEnds(ctlLink[k])] /\ UNCHANGED <<reg, ctlHist>>
  <2>1. PICK l : l = ServerEnds(ctlLink[k])
    OBVIOUS
  <2>2. l \in LinkT /\ l.slot = 0 /\ l.pc = "gone" /\ l.wire.e.to \in {NoClient, l.client}
    <3>1. CASE ctlLink[k].cOpen
      BY <1>0, <2>1, <3>1, Bounds DEF ServerEnds, LinkT, Pcs, LinkOK
    <3>2. CASE ~ ctlLink[k].cOpen
      BY <1>0, <2>1, <3>2, FrameTypes DEF ServerEnds
    <3> QED
      BY <3>1, <3>2
  <2> QED
    BY <1>0, <1>1, <2>1, <2>2, LinkKeeps, LinkFacts DEF Serving
<1>2. ASSUME NEW i \in FirstFree(reg),
             reg' = control_registry_register(reg, i, c),
             ctlLink' = [ctlLink EXCEPT ![k].pc = "known", ![k].slot = i],
             ctlHist' = [ctlHist EXCEPT
                   !.named[session_no(reg, i)] = IF @ = NoClient THEN c ELSE @,
                   !.pauseAmiss = AmissAtHello(@, c, k, ~ reg.pause /\ cl[c].req = "admin"),
                   !.roleAmiss = AmissAtHello(@, c, k, FALSE)]
      PROVE  CInv'
  <2>1. i \in CtlSlot /\ reg.slot[i].no = 0 /\ reg.next \in Nat /\ reg.next > 0
    BY <1>0 DEF FirstFree, InUse, RegT, CInv, NumbersOK
  <2>2. PICK q : q = FirstCommands(reg, c)
    OBVIOUS
  <2>3. q \in Seq(EntryT) /\ Len(q) <= QueueCap /\ \A j \in 1 .. Len(q) : q[j].to = NoClient
    BY <1>0, <2>2, FirstOK
  <2>4. PICK t : t = [no |-> reg.next, client |-> c, queue |-> q]
    OBVIOUS
  <2>5. t \in SlotT /\ t.no = reg.next /\ t.client = c /\ QueueOK(t)
    BY <1>0, <2>1, <2>3, <2>4 DEF SlotT, AnyClient, QueueOK
  <2>6. PICK n \in Nat : n = reg.next + 1
    BY <2>1
  <2>7. PICK slot : slot = [reg.slot EXCEPT ![i] = t]
    OBVIOUS
  <2>8. slot \in [CtlSlot -> SlotT] /\ slot[i] = t /\ \A j \in CtlSlot : j # i => slot[j] = reg.slot[j]
    BY <1>0, <2>1, <2>5, <2>7 DEF RegT
  <2>9. reg' = [reg EXCEPT !.slot = slot, !.next = n]
    BY <1>2, <2>2, <2>4, <2>6, <2>7 DEF control_registry_register, session_no
  <2>10. reg' \in RegT /\ reg'.slot = slot /\ reg'.next = n
    BY <1>0, <2>8, <2>9 DEF RegT
  \* The new number is nobody's yet.
  <2>11. /\ ctlHist' \in HistT
         /\ \A x \in Link : x # reg.next => ctlHist'.named[x] = ctlHist.named[x]
         /\ reg.next \in Link => ctlHist'.named[reg.next] = c
    <3>1. PICK named : named = [ctlHist.named EXCEPT ![reg.next] = IF @ = NoClient THEN c ELSE @]
      OBVIOUS
    <3>2. /\ named \in [Link -> AnyClient] /\ \A x \in Link : x # reg.next => named[x] = ctlHist.named[x]
          /\ reg.next \in Link => named[reg.next] = c
      <4>1. reg.next \in Link => ctlHist.named[reg.next] = NoClient
        BY <2>1 DEF CInv, NumbersOK
      <4> QED
        BY <1>0, <3>1, <4>1 DEF HistT, AnyClient
    <3>3. PICK P, R \in SUBSET AnyClient :
            /\ P = AmissAtHello(ctlHist.pauseAmiss, c, k, ~ reg.pause /\ cl[c].req = "admin")
            /\ R = AmissAtHello(ctlHist.roleAmiss, c, k, FALSE)
      BY <1>0 DEF AmissAtHello, HistT, AnyClient
    <3>4. ctlHist' = [ctlHist EXCEPT !.named = named, !.pauseAmiss = P, !.roleAmiss = R]
      BY <1>2, <3>1, <3>3 DEF session_no
    <3> QED
      BY <1>0, <3>2, <3>4 DEF HistT
  <2>12. PICK l : l = [ctlLink[k] EXCEPT !.pc = "known", !.slot = i]
    OBVIOUS
  <2>13. l \in LinkT /\ l.slot = i /\ l.pc = "known" /\ l.client = c /\ l.wire = ctlLink[k].wire
    BY <1>0, <2>1, <2>12, Bounds DEF LinkT, Pcs
  <2>14. /\ ctlLink' \in [Link -> LinkT] /\ ctlLink'[k] = l
         /\ \A j \in Link : j # k => ctlLink'[j] = ctlLink[j]
    BY <1>2, <2>12, <2>13 DEF CInv, TypesOK
  <2>15. TypesOK'
    BY <1>0, <2>10, <2>11, <2>14 DEF CInv, TypesOK
  <2>16. NumbersOK'
    <3>1. \A j \in CtlSlot : NumberOK(reg', ctlHist'.named, j)
      <4> SUFFICES ASSUME NEW j \in CtlSlot PROVE NumberOK(reg', ctlHist'.named, j)
        OBVIOUS
      <4>1. CASE j = i
        BY <1>0, <2>1, <2>5, <2>6, <2>8, <2>10, <2>11, <4>1 DEF NumberOK
      <4>2. CASE j # i
        <5>1. reg'.slot[j] = reg.slot[j] /\ NumberOK(reg, ctlHist.named, j)
          BY <2>8, <2>10, <4>2 DEF CInv, NumbersOK
        <5>2. reg.slot[j].no # 0 => reg.slot[j].no # reg.next /\ reg.slot[j].no \in Nat
          BY <1>0, <2>1, <5>1 DEF NumberOK, RegT, SlotT
        <5> QED
          BY <2>1, <2>6, <2>10, <2>11, <5>1, <5>2 DEF NumberOK
      <4> QED
        BY <4>1, <4>2
    <3>2. \A x \in Link : x >= n => ctlHist'.named[x] = NoClient
      BY <2>1, <2>6, <2>11, Bounds DEF CInv, NumbersOK
    <3> QED
      BY <2>1, <2>6, <2>10, <3>1, <3>2 DEF NumbersOK
  <2>17. LinksOK'
    <3>1. \A j \in Link : j # k => ctlLink[j].slot # i /\ (ctlLink[j].slot # 0 => ctlLink[j].slot \in CtlSlot)
      BY <2>1, LinkFacts, Bounds DEF LinkOK, LinkT, CtlSlot
    <3>2. \A j \in Link : LinkOK(reg', ctlLink'[j])
      <4> SUFFICES ASSUME NEW j \in Link PROVE LinkOK(reg', ctlLink'[j])
        OBVIOUS
      <4>1. CASE j = k
        BY <1>0, <2>1, <2>5, <2>8, <2>10, <2>13, <2>14, <4>1, Bounds DEF LinkOK, Serving
      <4>2. CASE j # k
        BY <2>8, <2>10, <2>14, <3>1, <4>2, LinkFacts DEF LinkOK
      <4> QED
        BY <4>1, <4>2
    <3>3. \A j, x \in Link : ctlLink'[j].slot = ctlLink'[x].slot /\ ctlLink'[x].slot # 0 => j = x
      BY <2>13, <2>14, <3>1 DEF CInv, LinksOK
    <3>4. \A j \in CtlSlot : reg'.slot[j].no # 0 => \E x \in Link : ctlLink'[x].slot = j
      <4> SUFFICES ASSUME NEW j \in CtlSlot, reg'.slot[j].no # 0 PROVE \E x \in Link : ctlLink'[x].slot = j
        OBVIOUS
      <4>1. CASE j = i
        BY <2>13, <2>14, <4>1
      <4>2. CASE j # i
        <5>1. PICK x \in Link : ctlLink[x].slot = j
          BY <2>8, <2>10, <4>2 DEF CInv, LinksOK
        <5>2. x # k
          BY <1>0, <5>1, Bounds
        <5> QED
          BY <2>14, <5>1, <5>2
      <4> QED
        BY <4>1, <4>2
    <3> QED
      BY <3>2, <3>3, <3>4 DEF LinksOK
  <2>18. QueuesOK'
    BY <2>5, <2>8, <2>10 DEF CInv, QueuesOK
  <2> QED
    BY <2>15, <2>16, <2>17, <2>18 DEF CInv
<1> QED
  BY <1>1, <1>2 DEF Hello

\* What the end of the server's side leaves, an empty slot, and empty tables.
LEMMA EndedLink ==
  ASSUME NEW l \in LinkT, l.wire.e.to \in {NoClient, l.client}
  PROVE  /\ ServerEnds(l) \in LinkT /\ ServerEnds(l).slot = 0 /\ ServerEnds(l).pc = "gone"
         /\ ServerEnds(l).wire.e.to \in {NoClient, ServerEnds(l).client}
<1>1. CASE l.cOpen
  <2>1. ServerEnds(l) = [l EXCEPT !.pc = "gone", !.slot = 0] /\ 0 \in 0 .. MaxSlot
    BY <1>1, Bounds DEF ServerEnds
  <2>2. ServerEnds(l) \in LinkT /\ ServerEnds(l).slot = 0 /\ ServerEnds(l).pc = "gone"
    BY <2>1 DEF LinkT, Pcs
  <2>3. ServerEnds(l).wire = l.wire /\ ServerEnds(l).client = l.client
    BY <2>1 DEF LinkT
  <2> QED
    BY <2>2, <2>3
<1>2. CASE ~ l.cOpen
  BY <1>2, FrameTypes DEF ServerEnds
<1> QED
  BY <1>1, <1>2

LEMMA EmptySlot == NoSession \in SlotT /\ NoSession.no = 0 /\ QueueOK(NoSession)
<1>1. <<>> \in Seq(EntryT) /\ Len(<<>>) = 0
  OBVIOUS
<1>2. PICK q : q = <<>>
  OBVIOUS
<1>3. NoSession = [no |-> 0, client |-> NoClient, queue |-> q]
  BY <1>2 DEF NoSession
<1>4. q \in Seq(EntryT) /\ Len(q) = 0
  BY <1>1, <1>2
<1> QED
  BY <1>3, <1>4, Bounds DEF SlotT, AnyClient, QueueOK

LEMMA EmptyRegistry ==
  /\ registry_init \in RegT /\ registry_init.next = 1
  /\ \A i \in CtlSlot : registry_init.slot[i].no = 0 /\ QueueOK(registry_init.slot[i])
<1>1. [m \in Machine |-> NoRole] \in [Machine -> Int] /\ [i \in CtlSlot |-> NoSession] \in [CtlSlot -> SlotT]
  BY EmptySlot DEF NoRole
<1> QED
  BY <1>1, EmptySlot DEF registry_init, RegT

\* The end of a session empties its slot, and nobody else has it.
LEMMA LeaveKeeps == ASSUME CInv, NEW k \in Link, Leave(k) PROVE CInv'
<1> DEFINE i == ctlLink[k].slot
<1>0. /\ ctlLink[k].pc = "leaving" /\ UNCHANGED <<ctlSet, cl, ctlHist>>
      /\ ctlLink' = [ctlLink EXCEPT ![k] = ServerEnds(ctlLink[k])]
      /\ reg' = control_registry_unregister(reg, i)
      /\ ctlLink[k] \in LinkT /\ LinkOK(reg, ctlLink[k]) /\ reg \in RegT
  BY LinkFacts DEF Leave, CInv, TypesOK
<1>1. i \in CtlSlot /\ i # 0
  BY <1>0, ServedSlot, Bounds DEF Serving
<1>2. PICK l : l = ServerEnds(ctlLink[k])
  OBVIOUS
<1>3. l \in LinkT /\ l.slot = 0 /\ l.pc = "gone" /\ l.wire.e.to \in {NoClient, l.client}
  <2>1. ctlLink[k].wire.e.to \in {NoClient, ctlLink[k].client}
    BY <1>0 DEF LinkOK
  <2> QED
    BY <1>0, <1>2, <2>1, EndedLink
<1>4. /\ ctlLink' \in [Link -> LinkT] /\ ctlLink'[k] = l
      /\ \A j \in Link : j # k => ctlLink'[j] = ctlLink[j]
  BY <1>0, <1>2, <1>3 DEF CInv, TypesOK
<1>5. PICK slot : slot = [reg.slot EXCEPT ![i] = NoSession]
  OBVIOUS
<1>6. /\ NoSession \in SlotT /\ NoSession.no = 0 /\ QueueOK(NoSession)
  BY EmptySlot
<1>7. slot \in [CtlSlot -> SlotT] /\ slot[i] = NoSession /\ \A j \in CtlSlot : j # i => slot[j] = reg.slot[j]
  BY <1>0, <1>1, <1>5, <1>6 DEF RegT
<1>8. reg' \in RegT /\ reg'.slot = slot /\ reg'.next = reg.next
  <2>1. reg' = [reg EXCEPT !.slot = slot]
    BY <1>0, <1>5 DEF control_registry_unregister
  <2> QED
    BY <1>0, <1>7, <2>1 DEF RegT
<1>9. TypesOK'
  BY <1>0, <1>4, <1>8 DEF CInv, TypesOK
<1>10. NumbersOK'
  BY <1>0, <1>6, <1>7, <1>8 DEF CInv, NumbersOK, NumberOK
<1>11. LinksOK'
  <2>1. \A j \in Link : j # k => ctlLink[j].slot # i /\ (ctlLink[j].slot # 0 => ctlLink[j].slot \in CtlSlot)
    <3>1. \A j \in Link : ctlLink[j].slot \in 0 .. MaxSlot
      BY LinkFacts DEF LinkT
    <3> QED
      BY <1>1, <3>1, Bounds DEF CInv, LinksOK, CtlSlot
  <2>2. \A j \in Link : LinkOK(reg', ctlLink'[j])
    <3> SUFFICES ASSUME NEW j \in Link PROVE LinkOK(reg', ctlLink'[j])
      OBVIOUS
    <3>1. CASE j = k
      BY <1>3, <1>4, <3>1 DEF LinkOK, Serving
    <3>2. CASE j # k
      BY <1>4, <1>7, <1>8, <2>1, <3>2, LinkFacts DEF LinkOK
    <3> QED
      BY <3>1, <3>2
  <2>3. \A j, x \in Link : ctlLink'[j].slot = ctlLink'[x].slot /\ ctlLink'[x].slot # 0 => j = x
    BY <1>3, <1>4 DEF CInv, LinksOK
  <2>4. ASSUME NEW j \in CtlSlot, reg'.slot[j].no # 0 PROVE \E x \in Link : ctlLink'[x].slot = j
    <3>1. j # i /\ reg.slot[j].no # 0
      BY <1>6, <1>7, <1>8, <2>4
    <3>2. PICK x \in Link : ctlLink[x].slot = j
      BY <3>1 DEF CInv, LinksOK
    <3> QED
      BY <1>4, <3>1, <3>2
  <2> QED
    BY <2>2, <2>3, <2>4 DEF LinksOK
<1>12. QueuesOK'
  BY <1>6, <1>7, <1>8 DEF CInv, QueuesOK
<1> QED
  BY <1>9, <1>10, <1>11, <1>12 DEF CInv

-----------------------------------------------------------------------------
(* A new process of the server: empty tables, and no thread left.          *)

LEMMA RestartKeeps == ASSUME CInv, ServerRestart PROVE CInv'
<1>0. /\ reg' = registry_init /\ UNCHANGED <<ctlSet, cl>>
      /\ ctlLink' = [k \in Link |-> IF ctlLink[k].pc = "none" THEN NoLink ELSE ServerEnds(ctlLink[k])]
      /\ ctlHist' = [ctlHist EXCEPT !.named = [n \in Link |-> NoClient]]
  BY DEF ServerRestart
<1>1. ctlHist' \in HistT /\ ctlHist'.named = [n \in Link |-> NoClient]
  BY <1>0 DEF CInv, TypesOK, HistT, AnyClient
<1>2. \A k \in Link : /\ ctlLink'[k] \in LinkT /\ ctlLink'[k].slot = 0
                      /\ ctlLink'[k].pc \in {"none", "gone"}
                      /\ ctlLink'[k].wire.e.to \in {NoClient, ctlLink'[k].client}
  <2> SUFFICES ASSUME NEW k \in Link
               PROVE  /\ ctlLink'[k] \in LinkT /\ ctlLink'[k].slot = 0
                      /\ ctlLink'[k].pc \in {"none", "gone"}
                      /\ ctlLink'[k].wire.e.to \in {NoClient, ctlLink'[k].client}
    OBVIOUS
  <2>1. CASE ctlLink[k].pc = "none"
    BY <1>0, <2>1, FrameTypes
  <2>2. CASE ctlLink[k].pc # "none"
    <3>1. ctlLink[k] \in LinkT /\ ctlLink[k].wire.e.to \in {NoClient, ctlLink[k].client}
      BY LinkFacts DEF LinkOK
    <3>2. ctlLink'[k] = ServerEnds(ctlLink[k])
      BY <1>0, <2>2
    <3> QED
      BY <3>1, <3>2, EndedLink
  <2> QED
    BY <2>1, <2>2
<1>3. TypesOK'
  BY <1>0, <1>1, <1>2, EmptyRegistry DEF CInv, TypesOK
<1>4. NumbersOK'
  BY <1>0, <1>1, EmptyRegistry DEF NumbersOK, NumberOK
<1>5. LinksOK'
  BY <1>0, <1>2, EmptyRegistry DEF LinksOK, LinkOK, Serving
<1>6. QueuesOK'
  BY <1>0, EmptyRegistry DEF QueuesOK
<1> QED
  BY <1>3, <1>4, <1>5, <1>6 DEF CInv
-----------------------------------------------------------------------------
(* The operator and the automatic policy.                                  *)

LEMMA InvTypes ==
  ASSUME CInv
  PROVE  /\ reg \in RegT /\ ctlHist \in HistT /\ reg.slot \in [CtlSlot -> SlotT]
         /\ InUse(reg) \subseteq CtlSlot /\ Served(reg) \subseteq CtlClient
         /\ \A n : Refused(reg, n) \subseteq Served(reg)
         /\ \A i \in CtlSlot : reg.slot[i] \in SlotT /\ QueueOK(reg.slot[i]) /\ reg.slot[i].client \in AnyClient
BY DEF CInv, TypesOK, RegT, SlotT, QueuesOK, InUse, Served, Refused

LEMMA ToAllKeeps ==
  ASSUME CInv, NEW cmd \in {"pause", "resume", "stats"}, ToAll(cmd)
  PROVE  CInv'
<1> DEFINE e == CtlEntry(cmd, 0, NoClient)
           sent(i) == [reg.slot[i] EXCEPT !.queue = Append(reg.slot[i].queue, e)]
<1>1. e \in EntryT /\ e.to = NoClient
  BY EntryType DEF AnyClient, Cmds
<1>2. ASSUME NEW i \in CtlSlot, Postable(reg, i)
      PROVE  sent(i) \in SlotT /\ sent(i).no = reg.slot[i].no /\ sent(i).client = reg.slot[i].client
             /\ QueueOK(sent(i))
  BY <1>1, <1>2, InvTypes, PostOK DEF Postable
<1>3. PICK slot : slot = [i \in CtlSlot |-> IF Postable(reg, i) THEN sent(i) ELSE reg.slot[i]]
  OBVIOUS
<1>4. PICK pause \in BOOLEAN : pause = CASE cmd = "pause" -> TRUE [] cmd = "resume" -> FALSE [] OTHER -> reg.pause
  BY InvTypes DEF RegT
<1>5. reg' = [reg EXCEPT !.pause = pause, !.slot = slot]
  BY <1>3, <1>4 DEF ToAll, control_registry_broadcast_command
<1> HIDE DEF e, sent
<1>6. \A i \in CtlSlot : /\ slot[i] \in SlotT /\ slot[i].no = reg.slot[i].no
                         /\ slot[i].client = reg.slot[i].client /\ QueueOK(slot[i])
  BY <1>2, <1>3, InvTypes
<1>7. slot \in [CtlSlot -> SlotT]
  BY <1>3, <1>6
<1>8. Posts(reg')
  BY <1>5, <1>6, <1>7, InvTypes DEF Posts, RegT
<1>9. ctlHist' \in HistT /\ ctlHist'.named = ctlHist.named
  BY InvTypes DEF ToAll, HistT, AnyClient
<1> QED
  BY <1>8, <1>9, PostsKeep DEF ToAll, ByOperator

\* One slot matches, and the client meant is its own.
LEMMA OneMatch ==
  ASSUME CInv, NEW t \in Targets, Cardinality(Matches(reg, t)) = 1
  PROVE  \E i \in InUse(reg) : /\ Matches(reg, t) = {i} /\ Min(Matches(reg, t)) = i
                              /\ Meant(t, reg) = reg.slot[i].client
<1>1. IsFiniteSet(Matches(reg, t)) /\ Matches(reg, t) \subseteq InUse(reg)
  <2>1. IsFiniteSet(CtlSlot)
    BY Bounds, FS_Interval DEF CtlSlot
  <2>2. Matches(reg, t) \subseteq InUse(reg) /\ Matches(reg, t) \subseteq CtlSlot
    BY DEF Matches, InUse
  <2> QED
    BY <2>1, <2>2, FS_Subset
<1>2. PICK i : Matches(reg, t) = {i}
  BY <1>1, FS_Singleton
<1>3. i \in InUse(reg) /\ i \in CtlSlot /\ i \in Nat /\ reg.slot[i].no # 0
  BY <1>1, <1>2, Bounds DEF InUse
<1>4. Min({i}) = i
  BY <1>3 DEF Min
<1>5. \/ t.kind = "no" /\ t.v \in Link
      \/ t.kind = "uid"
      \/ t.kind = "label"
  BY DEF Targets, Link
<1>6. i \in Matches(reg, t)
  BY <1>2
<1>7. Meant(t, reg) = reg.slot[i].client
  <2>1. CASE t.kind = "no" /\ t.v \in Link
    <3>1. reg.slot[i].no = t.v
      BY <1>6, <2>1 DEF Matches
    <3>2. NumberOK(reg, ctlHist.named, i)
      BY <1>3 DEF CInv, NumbersOK
    <3> QED
      BY <1>3, <2>1, <3>1, <3>2 DEF Meant, NumberOK
  <2>2. CASE t.kind = "uid"
    BY <1>6, <2>2 DEF Matches, Meant
  <2>3. CASE t.kind = "label"
    BY <1>2, <1>4, <2>3 DEF Meant
  <2> QED
    BY <1>5, <2>1, <2>2, <2>3
<1> QED
  BY <1>2, <1>3, <1>4, <1>7

LEMMA SendToKeeps ==
  ASSUME CInv, NEW t \in Targets, NEW cmd \in {"pause", "resume"}, SendTo(t, cmd)
  PROVE  CInv'
<1>1. ctlHist' \in HistT /\ ctlHist'.named = ctlHist.named
  <2>1. {reg.slot[i].client : i \in Matches(reg, t)} \subseteq AnyClient
    BY InvTypes DEF Matches
  <2> QED
    BY <2>1, InvTypes DEF SendTo, HistT
<1>2. CASE reg' = reg
  <2>1. Posts(reg)
    BY InvTypes DEF Posts
  <2> QED
    BY <1>1, <1>2, <2>1, PostsKeep DEF SendTo, ByOperator
<1>3. CASE reg' # reg
  <2>1. Cardinality(Matches(reg, t)) = 1
    BY <1>3 DEF SendTo, control_registry_send_command_to
  <2>2. PICK i \in InUse(reg) : Min(Matches(reg, t)) = i /\ Meant(t, reg) = reg.slot[i].client
    BY <2>1, OneMatch
  <2>3. PICK e : e = CtlEntry(cmd, 0, Meant(t, reg))
    OBVIOUS
  <2>4. i \in CtlSlot /\ reg.slot[i] \in SlotT /\ QueueOK(reg.slot[i]) /\ reg.slot[i].client \in AnyClient
    BY InvTypes
  <2>5. e \in EntryT /\ e.to = reg.slot[i].client
    BY <2>2, <2>3, <2>4, EntryType DEF Cmds
  <2>6. reg' = control_registry_post_command(reg, i, e)
    BY <2>1, <2>2, <2>3 DEF SendTo, control_registry_send_command_to
  <2>7. Postable(reg, i) /\ reg' = [reg EXCEPT !.slot[i].queue = Append(@, e)]
    BY <1>3, <2>6 DEF control_registry_post_command
  <2>8. PICK s : s = [reg.slot[i] EXCEPT !.queue = Append(reg.slot[i].queue, e)]
    OBVIOUS
  <2>9. s \in SlotT /\ s.no = reg.slot[i].no /\ s.client = reg.slot[i].client /\ QueueOK(s)
    BY <2>4, <2>5, <2>7, <2>8, PostOK DEF Postable
  <2>10. PICK slot : slot = [reg.slot EXCEPT ![i] = s]
    OBVIOUS
  <2>11. slot \in [CtlSlot -> SlotT] /\ slot[i] = s /\ \A j \in CtlSlot : j # i => slot[j] = reg.slot[j]
    BY <2>4, <2>9, <2>10, InvTypes
  <2>12. reg' = [reg EXCEPT !.slot = slot]
    BY <2>7, <2>8, <2>10
  <2>13. reg' \in RegT /\ reg'.slot = slot /\ reg'.next = reg.next
    BY <2>11, <2>12, InvTypes DEF RegT
  <2>14. Posts(reg')
    BY <2>9, <2>11, <2>13, InvTypes DEF Posts
  <2> QED
    BY <1>1, <2>14, PostsKeep DEF SendTo, ByOperator
<1> QED
  BY <1>2, <1>3

\* Two commands for a session, as far as its queue has room.
LEMMA DosePostedOK ==
  ASSUME NEW s \in SlotT, QueueOK(s), NEW n \in Int
  PROVE  /\ DosePosted(s, n) \in SlotT /\ QueueOK(DosePosted(s, n))
         /\ DosePosted(s, n).no = s.no /\ DosePosted(s, n).client = s.client
<1>1. PICK a, b \in EntryT :
        /\ a = CtlEntry("config", n, NoClient) /\ b = CtlEntry("configApply", 0, NoClient)
        /\ a.to = NoClient /\ b.to = NoClient
  BY EntryType DEF Cmds, AnyClient
<1>2. PICK q1 : q1 = IF Len(s.queue) < QueueCap THEN Append(s.queue, a) ELSE s.queue
  OBVIOUS
<1>3. PICK s1 : s1 = [s EXCEPT !.queue = q1]
  OBVIOUS
<1>4. s1 \in SlotT /\ QueueOK(s1) /\ s1.no = s.no /\ s1.client = s.client /\ s1.queue = q1
  <2>1. CASE Len(s.queue) < QueueCap
    <3>1. s1 = [s EXCEPT !.queue = Append(s.queue, a)]
      BY <1>2, <1>3, <2>1
    <3>2. s1.queue = q1
      BY <1>3 DEF SlotT
    <3> QED
      BY <1>1, <2>1, <3>1, <3>2, PostOK
  <2>2. CASE ~ (Len(s.queue) < QueueCap)
    <3>1. s1 = s
      BY <1>2, <1>3, <2>2 DEF SlotT
    <3> QED
      BY <1>2, <2>2, <3>1
  <2> QED
    BY <2>1, <2>2
<1>5. PICK q2 : q2 = IF Len(q1) < QueueCap THEN Append(q1, b) ELSE q1
  OBVIOUS
<1>6. PICK s2 : s2 = [s1 EXCEPT !.queue = q2]
  OBVIOUS
<1>7. s2 \in SlotT /\ QueueOK(s2) /\ s2.no = s1.no /\ s2.client = s1.client
  <2>1. CASE Len(q1) < QueueCap
    <3>1. s2 = [s1 EXCEPT !.queue = Append(s1.queue, b)] /\ Len(s1.queue) < QueueCap
      BY <1>4, <1>5, <1>6, <2>1
    <3> QED
      BY <1>1, <1>4, <3>1, PostOK
  <2>2. CASE ~ (Len(q1) < QueueCap)
    <3>1. s2 = s1
      BY <1>4, <1>5, <1>6, <2>2 DEF SlotT
    <3> QED
      BY <1>4, <3>1
  <2> QED
    BY <2>1, <2>2
<1>8. DosePosted(s, n) = [s EXCEPT !.queue = q2]
  BY <1>1, <1>2, <1>5 DEF DosePosted
<1>9. s2 = [s EXCEPT !.queue = q2]
  BY <1>3, <1>6 DEF SlotT
<1> QED
  BY <1>4, <1>7, <1>8, <1>9

LEMMA DosageOK ==
  ASSUME CInv, NEW S \in SUBSET InUse(reg), NEW n \in Int
  PROVE  Posts(control_registry_apply_role_dosage(reg, S, n))
<1>1. PICK roles : roles = desired_role_set(reg, Dosed(reg, S), n)
  OBVIOUS
<1>2. roles \in [Machine -> Int]
  BY <1>1, InvTypes DEF desired_role_set, RegT
<1>3. PICK slot : slot = [i \in CtlSlot |-> IF i \in S THEN DosePosted(reg.slot[i], n) ELSE reg.slot[i]]
  OBVIOUS
<1>4. \A i \in CtlSlot : /\ slot[i] \in SlotT /\ slot[i].no = reg.slot[i].no
                         /\ slot[i].client = reg.slot[i].client /\ QueueOK(slot[i])
  BY <1>3, InvTypes, DosePostedOK
<1>5. slot \in [CtlSlot -> SlotT]
  BY <1>3, <1>4
<1>6. control_registry_apply_role_dosage(reg, S, n) = [reg EXCEPT !.slot = slot, !.roles = roles]
  BY <1>1, <1>3 DEF control_registry_apply_role_dosage
<1> QED
  BY <1>2, <1>4, <1>5, <1>6, InvTypes DEF Posts, RegT

LEMMA AmissType ==
  ASSUME CInv, NEW S
  PROVE  AmissAfter(S) \in HistT /\ AmissAfter(S).named = ctlHist.named
BY InvTypes DEF AmissAfter, HistT, AnyClient

LEMMA RolesKeeps ==
  ASSUME CInv, NEW t \in Targets \cup {[kind |-> "all"]}, NEW n \in 0 .. MaxDosage, Roles(t, n)
  PROVE  CInv'
<1>1. PICK S \in SUBSET InUse(reg) :
        reg' = control_registry_apply_role_dosage(reg, S, n) /\ ctlHist' = AmissAfter(S)
  <2>1. Matches(reg, t) \subseteq InUse(reg)
    BY DEF Matches
  <2> QED
    BY <2>1 DEF Roles
<1>2. Posts(reg')
  BY <1>1, DosageOK, Bounds
<1> QED
  BY <1>1, <1>2, AmissType, PostsKeep DEF Roles, ByOperator

LEMMA ExtremesAreInts ==
  ASSUME NEW x \in Int, NEW y \in Int
  PROVE  Max({x, y}) \in Int /\ Min({x, y}) \in Int
<1>1. \E z \in {x, y} : \A v \in {x, y} : z >= v
  BY x >= y \/ y >= x
<1>2. \E z \in {x, y} : \A v \in {x, y} : z <= v
  BY x >= y \/ y >= x
<1> QED
  BY <1>1, <1>2 DEF Max, Min

LEMMA AutoRolesKeeps ==
  ASSUME CInv, NEW need, AutoRoles(need)
  PROVE  CInv'
<1> DEFINE d == compute_desired_role_mix(need, count_role_forks(reg, "search"), count_role_forks(reg, "prune"))
           n == Max({0, Min({MaxDosage, reg.dosage + d})})
           r == control_registry_apply_role_dosage(reg, InUse(reg), n)
<1>1. /\ reg' = [r EXCEPT !.dosage = n] /\ ctlHist' = AmissAfter(InUse(reg))
      /\ UNCHANGED <<ctlSet, ctlLink, cl>>
  BY DEF AutoRoles, ByOperator
<1>2. d \in Int
  BY DEF compute_desired_role_mix
<1>3. reg.dosage \in Int /\ MaxDosage \in Int
  BY InvTypes, Bounds DEF RegT
<1> HIDE DEF d
<1>4. n \in Int
  <2>1. PICK x \in Int : x = reg.dosage + d
    BY <1>2, <1>3
  <2>2. PICK y \in Int : y = Min({MaxDosage, x})
    BY <1>3, ExtremesAreInts
  <2>3. Max({0, y}) \in Int
    BY ExtremesAreInts
  <2> QED
    BY <2>1, <2>2, <2>3
<1> HIDE DEF n
<1>5. Posts(r)
  BY <1>4, DosageOK
<1> HIDE DEF r
<1>6. Posts(reg')
  BY <1>1, <1>4, <1>5 DEF Posts, RegT
<1> QED
  BY <1>1, <1>6, AmissType, PostsKeep

-----------------------------------------------------------------------------
(* Every step, and the theorems.                                           *)

LEMMA ClientOnly ==
  ASSUME CInv, UNCHANGED <<ctlSet, reg, ctlLink, ctlHist>>, cl' \in [CtlClient -> ClT]
  PROVE  CInv'
BY DEF CInv, TypesOK, NumbersOK, LinksOK, QueuesOK

LEMMA ClientKeeps == ASSUME CInv, NEW c \in CtlClient, CtlClientStep(c) PROVE CInv'
<1>1. cl \in [CtlClient -> ClT] /\ cl[c] \in ClT
  BY DEF CInv, TypesOK
<1>2. CASE CtlConnect(c) \/ ServeFrame(c) \/ GiveUp(c)
  BY <1>2, CtlConnectKeeps, ServeFrameKeeps, GiveUpKeeps
<1>3. CASE ForksRestarted(c)
  <2>1. [cl[c] EXCEPT !.applying = FALSE, !.dosage = cl[c].staged, !.checked = 0] \in ClT
    BY <1>1 DEF ClT
  <2>2. cl' = [cl EXCEPT ![c] = [cl[c] EXCEPT !.applying = FALSE, !.dosage = cl[c].staged, !.checked = 0]]
    BY <1>1, <1>3 DEF ForksRestarted
  <2> QED
    BY <1>1, <1>3, <2>1, <2>2, ClientOnly DEF ForksRestarted
<1>4. CASE Work(c)
  <2>1. [cl[c] EXCEPT !.checked = cl[c].checked + 1] \in ClT
    BY <1>1 DEF ClT
  <2> QED
    BY <1>1, <1>4, <2>1, ClientOnly DEF Work
<1>5. CASE StopClient(c)
  <2>1. [cl[c] EXCEPT !.req = "stop"] \in ClT
    BY <1>1 DEF ClT
  <2> QED
    BY <1>1, <1>5, <2>1, ClientOnly DEF StopClient
<1> QED
  BY <1>2, <1>3, <1>4, <1>5 DEF CtlClientStep

LEMMA ServerKeeps == ASSUME CInv, NEW k \in Link, ServerStep(k) PROVE CInv'
BY HelloKeeps, SamePlaceKeeps, DequeueKeeps, AutoStatsKeeps, ReplyKeeps, LeaveKeeps DEF ServerStep

LEMMA OperatorKeeps == ASSUME CInv, OperatorStep PROVE CInv'
<1>1. CASE SaveKnown \/ RestoreKnown
  BY <1>1, ClientOnly DEF SaveKnown, RestoreKnown, CInv, TypesOK
<1> QED
  BY <1>1, ToAllKeeps, SendToKeeps, RolesKeeps, AutoRolesKeeps, RestartKeeps DEF OperatorStep

LEMMA InitOK == CtlInit => CInv
<1> SUFFICES ASSUME CtlInit PROVE CInv
  OBVIOUS
<1>1. TypesOK
  <2>1. Down \in ClT
    BY Bounds DEF Down, ClT
  <2> QED
    BY <2>1, EmptyRegistry, FrameTypes DEF CtlInit, TypesOK, HistT, AnyClient
<1>2. NumbersOK
  BY EmptyRegistry DEF CtlInit, NumbersOK, NumberOK
<1>3. LinksOK
  BY EmptyRegistry, FrameTypes DEF CtlInit, LinksOK, LinkOK, Serving
<1>4. QueuesOK
  BY EmptyRegistry DEF CtlInit, QueuesOK
<1> QED
  BY <1>1, <1>2, <1>3, <1>4 DEF CInv

\* The invariant of the channel.
THEOREM ChannelInvariant == CtlSpec => []CInv
<1>1. ASSUME CInv, [CtlNext]_ctlVars PROVE CInv'
  <2>1. CASE CtlNext
    BY <1>1, <2>1, ClientKeeps, ServerKeeps, OperatorKeeps DEF CtlNext
  <2>2. CASE UNCHANGED ctlVars
    BY <1>1, <2>2, ClientOnly DEF ctlVars, CInv, TypesOK
  <2> QED
    BY <1>1, <2>1, <2>2
<1> QED
  BY <1>1, InitOK, PTL DEF CtlSpec

\* A command for one client is never in the queue nor on the connection of another,
\* with any number of clients, slots, connections and restarts of the server
\* (control_registry_register, control_registry_send_command_to).
THEOREM OrdersReachAddressee == CtlSpec => []CommandsReachAddressee
<1>1. CInv => CommandsReachAddressee
  <2> SUFFICES ASSUME CInv PROVE CommandsReachAddressee
    OBVIOUS
  <2>1. ASSUME NEW i \in CtlSlot, NEW e \in Range(reg.slot[i].queue)
        PROVE  e.to \in {NoClient, reg.slot[i].client}
    <3>1. reg.slot[i].queue \in Seq(EntryT) /\ QueueOK(reg.slot[i])
      BY InvTypes DEF SlotT
    <3>2. PICK j \in DOMAIN reg.slot[i].queue : e = reg.slot[i].queue[j]
      BY <2>1 DEF Range
    <3>3. j \in 1 .. Len(reg.slot[i].queue)
      BY <3>1, <3>2
    <3> QED
      BY <3>1, <3>2, <3>3 DEF QueueOK
  <2> QED
    BY <2>1, LinkFacts DEF CommandsReachAddressee, LinkOK
<1> QED
  BY <1>1, ChannelInvariant, PTL

\* Every slot in use belongs to one connection, that knows it: a slot is given to
\* one session at a time and comes back once (control_registry_unregister).
THEOREM SlotsHaveOneOwner == CtlSpec => []CtlTypeOK
<1>1. CInv => CtlTypeOK
  <2> SUFFICES ASSUME CInv PROVE CtlTypeOK
    OBVIOUS
  <2>1. \A i \in CtlSlot : Len(reg.slot[i].queue) <= QueueCap /\ reg.slot[i].client \in CtlClient \cup {NoClient}
    BY InvTypes DEF QueueOK, AnyClient
  <2>2. \A k \in Link : ctlLink[k].pc \in {"none", "hello", "known", "idle", "wait", "closing", "leaving", "gone"}
    BY LinkFacts DEF LinkT, Pcs
  <2>3. \A c \in CtlClient : cl[c].link \in 0 .. MaxLinks /\ cl[c].req \in {"run", "admin", "stop"}
    BY DEF CInv, TypesOK, ClT
  <2>4. ASSUME NEW i \in InUse(reg) PROVE Cardinality({k \in Link : ctlLink[k].slot = i}) = 1
    <3>1. i \in CtlSlot /\ i # 0 /\ reg.slot[i].no # 0
      BY Bounds DEF InUse
    <3>2. PICK k \in Link : ctlLink[k].slot = i
      BY <3>1 DEF CInv, LinksOK
    <3>3. \A j \in Link : ctlLink[j].slot = i => j = k
      BY <3>1, <3>2 DEF CInv, LinksOK
    <3>4. {j \in Link : ctlLink[j].slot = i} = {k}
      BY <3>2, <3>3
    <3> QED
      BY <3>4, FS_Singleton
  <2>5. \A k \in Link : ctlLink[k].slot # 0 => reg.slot[ctlLink[k].slot].client = ctlLink[k].client
    BY LinkFacts DEF LinkOK
  <2> QED
    BY <2>1, <2>2, <2>3, <2>4, <2>5 DEF CtlTypeOK
<1> QED
  BY <1>1, ChannelInvariant, PTL

-----------------------------------------------------------------------------
(* What a queue brings about.  PausedAfter: once a client that is paused or   *)
(* not (v) has obeyed all of q, it is as p says.  DosedAfter: a client whose  *)
(* staged dosage is st, applied or being applied (done), has n once it has    *)
(* obeyed all of q and its forks have started again.                          *)
PauseCmd(e) == e.cmd \in {"pause", "resume"}
PausedAfter(q, v, p) ==
  \/ \E j \in 1 .. Len(q) : /\ q[j].cmd = (IF p THEN "pause" ELSE "resume")
                            /\ \A i \in (j + 1) .. Len(q) : ~ PauseCmd(q[i])
  \/ (\A j \in 1 .. Len(q) : ~ PauseCmd(q[j])) /\ v = p
DosedAfter(q, st, done, n) ==
  \/ n = NoRole
  \/ \E j, i \in 1 .. Len(q) : /\ j < i /\ q[j].cmd = "config" /\ q[j].n = n /\ q[i].cmd = "configApply"
                               /\ \A h \in (j + 1) .. Len(q) : q[h].cmd # "config"
  \/ /\ \A j \in 1 .. Len(q) : q[j].cmd # "config"
     /\ st = n /\ (done \/ \E i \in 1 .. Len(q) : q[i].cmd = "configApply")

\* A client and the frame w on its connection: what it is once it has obeyed w.
Has(w, cmd) == w.is = "request" /\ w.e.cmd = cmd
Paused(x, w) == Has(w, "pause") \/ (x.req = "admin" /\ ~ Has(w, "resume"))
Staged(x, w) == IF Has(w, "config") THEN w.e.n ELSE x.staged
Done(x, w) == Has(w, "configApply") \/ ((x.applying \/ x.dosage = x.staged) /\ ~ Has(w, "config"))

LEMMA Appended ==
  ASSUME NEW q \in Seq(EntryT), NEW e \in EntryT
  PROVE  /\ Append(q, e) \in Seq(EntryT) /\ Len(Append(q, e)) = Len(q) + 1
         /\ Append(q, e)[Len(q) + 1] = e
         /\ \A j \in 1 .. Len(q) : Append(q, e)[j] = q[j]
         /\ Len(q) \in Nat /\ \A j \in 1 .. Len(q) : q[j] \in EntryT
OBVIOUS

LEMMA Shifted ==
  ASSUME NEW q \in Seq(EntryT), q # <<>>
  PROVE  /\ Tail(q) \in Seq(EntryT) /\ Len(q) = Len(Tail(q)) + 1 /\ Len(Tail(q)) \in Nat
         /\ Head(q) = q[1] /\ q[1] \in EntryT
         /\ \A j \in 1 .. Len(Tail(q)) : Tail(q)[j] = q[j + 1] /\ q[j + 1] \in EntryT
OBVIOUS

LEMMA PauseAppended ==
  ASSUME NEW q \in Seq(EntryT), NEW e \in EntryT, NEW v \in BOOLEAN, NEW p \in BOOLEAN
  PROVE  /\ e.cmd = "pause" => PausedAfter(Append(q, e), v, TRUE)
         /\ e.cmd = "resume" => PausedAfter(Append(q, e), v, FALSE)
         /\ ~ PauseCmd(e) /\ PausedAfter(q, v, p) => PausedAfter(Append(q, e), v, p)
<1>1. PICK s \in Seq(EntryT) : s = Append(q, e)
  BY Appended
<1>2. Len(s) = Len(q) + 1 /\ s[Len(s)] = e /\ Len(q) \in Nat /\ \A j \in 1 .. Len(q) : s[j] = q[j]
  BY <1>1, Appended
<1>3. ASSUME e.cmd \in {"pause", "resume"} PROVE PausedAfter(s, v, e.cmd = "pause")
  <2>1. Len(s) \in 1 .. Len(s) /\ \A i \in (Len(s) + 1) .. Len(s) : FALSE
    BY <1>2
  <2> QED
    BY <1>2, <1>3, <2>1 DEF PausedAfter
<1>4. ASSUME ~ PauseCmd(e), PausedAfter(q, v, p) PROVE PausedAfter(s, v, p)
  <2>1. CASE \A j \in 1 .. Len(q) : ~ PauseCmd(q[j])
    <3>1. \A j \in 1 .. Len(s) : ~ PauseCmd(s[j])
      BY <1>2, <1>4, <2>1
    <3>2. v = p
      BY <1>4, <2>1 DEF PausedAfter, PauseCmd
    <3> QED
      BY <3>1, <3>2 DEF PausedAfter
  <2>2. ASSUME NEW j \in 1 .. Len(q), q[j].cmd = (IF p THEN "pause" ELSE "resume"),
               \A i \in (j + 1) .. Len(q) : ~ PauseCmd(q[i])
        PROVE  PausedAfter(s, v, p)
    <3>1. j \in 1 .. Len(s) /\ s[j] = q[j]
      BY <1>2
    <3>2. \A i \in (j + 1) .. Len(s) : ~ PauseCmd(s[i])
      BY <1>2, <1>4, <2>2
    <3> QED
      BY <2>2, <3>1, <3>2 DEF PausedAfter
  <2> QED
    BY <1>4, <2>1, <2>2 DEF PausedAfter
<1> QED
  BY <1>1, <1>3, <1>4 DEF PauseCmd

LEMMA PauseTaken ==
  ASSUME NEW q \in Seq(EntryT), q # <<>>, NEW v \in BOOLEAN, NEW p \in BOOLEAN, PausedAfter(q, v, p)
  PROVE  PausedAfter(Tail(q), Head(q).cmd = "pause" \/ (v /\ Head(q).cmd # "resume"), p)
<1>1. PICK s \in Seq(EntryT) : s = Tail(q)
  BY Shifted
<1>2. /\ Len(q) = Len(s) + 1 /\ Len(s) \in Nat /\ Head(q) = q[1]
      /\ \A j \in 1 .. Len(s) : s[j] = q[j + 1]
  BY <1>1, Shifted
<1>3. PICK w \in BOOLEAN : w = (Head(q).cmd = "pause" \/ (v /\ Head(q).cmd # "resume"))
  OBVIOUS
<1>4. CASE \A j \in 1 .. Len(q) : ~ PauseCmd(q[j])
  <2>1. v = p /\ ~ PauseCmd(q[1])
    BY <1>2, <1>4 DEF PausedAfter, PauseCmd
  <2>2. \A j \in 1 .. Len(s) : ~ PauseCmd(s[j])
    BY <1>2, <1>4
  <2>3. w = p
    BY <1>2, <1>3, <2>1 DEF PauseCmd
  <2> QED
    BY <1>1, <1>3, <2>2, <2>3 DEF PausedAfter
<1>5. ASSUME NEW j \in 1 .. Len(q), q[j].cmd = (IF p THEN "pause" ELSE "resume"),
             \A i \in (j + 1) .. Len(q) : ~ PauseCmd(q[i])
      PROVE  PausedAfter(s, w, p)
  <2>1. CASE j = 1
    <3>1. w = p
      BY <1>2, <1>3, <1>5, <2>1
    <3>2. \A i \in 1 .. Len(s) : ~ PauseCmd(s[i])
      BY <1>2, <1>5, <2>1
    <3> QED
      BY <3>1, <3>2 DEF PausedAfter
  <2>2. CASE j # 1
    <3>1. j - 1 \in 1 .. Len(s) /\ s[j - 1] = q[j]
      BY <1>2, <2>2
    <3>2. \A i \in ((j - 1) + 1) .. Len(s) : ~ PauseCmd(s[i])
      BY <1>2, <1>5
    <3> QED
      BY <1>5, <3>1, <3>2 DEF PausedAfter
  <2> QED
    BY <2>1, <2>2
<1> QED
  BY <1>1, <1>3, <1>4, <1>5 DEF PausedAfter

LEMMA DoseAppended ==
  ASSUME NEW q \in Seq(EntryT), NEW e \in EntryT, NEW st, NEW done, NEW n,
         e.cmd # "config", DosedAfter(q, st, done, n)
  PROVE  DosedAfter(Append(q, e), st, done, n)
<1>1. PICK s \in Seq(EntryT) : s = Append(q, e)
  BY Appended
<1>2. Len(s) = Len(q) + 1 /\ s[Len(s)] = e /\ Len(q) \in Nat /\ \A j \in 1 .. Len(q) : s[j] = q[j]
  BY <1>1, Appended
<1>3. CASE n = NoRole
  BY <1>1, <1>3 DEF DosedAfter
<1>4. ASSUME NEW j \in 1 .. Len(q), NEW i \in 1 .. Len(q),
             j < i /\ q[j].cmd = "config" /\ q[j].n = n /\ q[i].cmd = "configApply",
             \A h \in (j + 1) .. Len(q) : q[h].cmd # "config"
      PROVE  DosedAfter(s, st, done, n)
  <2>1. j \in 1 .. Len(s) /\ i \in 1 .. Len(s) /\ s[j] = q[j] /\ s[i] = q[i]
    BY <1>2
  <2>2. ASSUME NEW h \in (j + 1) .. Len(s) PROVE s[h].cmd # "config"
    <3>1. h = Len(s) \/ (h \in (j + 1) .. Len(q) /\ h \in 1 .. Len(q))
      BY <1>2
    <3> QED
      BY <1>2, <1>4, <3>1
  <2> QED
    BY <1>4, <2>1, <2>2 DEF DosedAfter
<1>5. ASSUME \A j \in 1 .. Len(q) : q[j].cmd # "config", st = n,
             done \/ \E i \in 1 .. Len(q) : q[i].cmd = "configApply"
      PROVE  DosedAfter(s, st, done, n)
  <2>1. \A j \in 1 .. Len(s) : s[j].cmd # "config"
    BY <1>2, <1>5
  <2>2. done \/ \E i \in 1 .. Len(s) : s[i].cmd = "configApply"
    BY <1>2, <1>5
  <2> QED
    BY <1>5, <2>1, <2>2 DEF DosedAfter
<1> QED
  BY <1>1, <1>3, <1>4, <1>5 DEF DosedAfter

\* The two commands of a dosage.
LEMMA DoseTold ==
  ASSUME NEW q \in Seq(EntryT), NEW a \in EntryT, NEW b \in EntryT, NEW st, NEW done,
         a.cmd = "config", b.cmd = "configApply"
  PROVE  DosedAfter(Append(Append(q, a), b), st, done, a.n)
<1>1. PICK s \in Seq(EntryT) : s = Append(q, a)
  BY Appended
<1>2. Len(s) = Len(q) + 1 /\ s[Len(s)] = a /\ Len(q) \in Nat
  BY <1>1, Appended
<1>3. PICK t \in Seq(EntryT) : t = Append(s, b)
  BY Appended
<1>4. Len(t) = Len(s) + 1 /\ t[Len(t)] = b /\ t[Len(s)] = a /\ Len(s) \in Nat /\ Len(s) > 0
  BY <1>2, <1>3, Appended
<1>5. \A h \in (Len(s) + 1) .. Len(t) : t[h].cmd # "config"
  BY <1>4
<1> QED
  BY <1>1, <1>3, <1>4, <1>5 DEF DosedAfter

LEMMA DoseTaken ==
  ASSUME NEW q \in Seq(EntryT), q # <<>>, NEW st, NEW done \in BOOLEAN, NEW n, DosedAfter(q, st, done, n)
  PROVE  DosedAfter(Tail(q), IF Head(q).cmd = "config" THEN Head(q).n ELSE st,
                    Head(q).cmd = "configApply" \/ (done /\ Head(q).cmd # "config"), n)
<1>1. PICK s \in Seq(EntryT) : s = Tail(q)
  BY Shifted
<1>2. /\ Len(q) = Len(s) + 1 /\ Len(s) \in Nat /\ Head(q) = q[1]
      /\ \A j \in 1 .. Len(s) : s[j] = q[j + 1]
  BY <1>1, Shifted
<1>3. PICK u : u = IF Head(q).cmd = "config" THEN Head(q).n ELSE st
  OBVIOUS
<1>4. PICK d \in BOOLEAN : d = (Head(q).cmd = "configApply" \/ (done /\ Head(q).cmd # "config"))
  OBVIOUS
<1>5. CASE n = NoRole
  BY <1>5 DEF DosedAfter
<1>6. ASSUME NEW j \in 1 .. Len(q), NEW i \in 1 .. Len(q),
             j < i /\ q[j].cmd = "config" /\ q[j].n = n /\ q[i].cmd = "configApply",
             \A h \in (j + 1) .. Len(q) : q[h].cmd # "config"
      PROVE  DosedAfter(s, u, d, n)
  <2>1. i - 1 \in 1 .. Len(s) /\ s[i - 1] = q[i]
    BY <1>2, <1>6
  <2>2. CASE j = 1
    <3>1. u = n
      BY <1>2, <1>3, <1>6, <2>2
    <3>2. \A h \in 1 .. Len(s) : s[h].cmd # "config"
      BY <1>2, <1>6, <2>2
    <3> QED
      BY <1>6, <2>1, <3>1, <3>2 DEF DosedAfter
  <2>3. CASE j # 1
    <3>1. j - 1 \in 1 .. Len(s) /\ s[j - 1] = q[j] /\ j - 1 < i - 1
      BY <1>2, <1>6, <2>3
    <3>2. ASSUME NEW h \in ((j - 1) + 1) .. Len(s) PROVE s[h].cmd # "config"
      <4>1. h \in 1 .. Len(s) /\ h + 1 \in (j + 1) .. Len(q)
        BY <1>2
      <4> QED
        BY <1>2, <1>6, <4>1
    <3> QED
      BY <1>6, <2>1, <3>1, <3>2 DEF DosedAfter
  <2> QED
    BY <2>2, <2>3
<1>7. ASSUME \A j \in 1 .. Len(q) : q[j].cmd # "config", st = n,
             done \/ \E i \in 1 .. Len(q) : q[i].cmd = "configApply"
      PROVE  DosedAfter(s, u, d, n)
  <2>1. q[1].cmd # "config" /\ u = n
    BY <1>2, <1>3, <1>7
  <2>2. \A j \in 1 .. Len(s) : s[j].cmd # "config"
    BY <1>2, <1>7
  <2>3. d \/ \E i \in 1 .. Len(s) : s[i].cmd = "configApply"
    <3>1. CASE done \/ q[1].cmd = "configApply"
      BY <1>2, <1>4, <2>1, <3>1
    <3>2. ASSUME NEW i \in 1 .. Len(q), q[i].cmd = "configApply", i # 1
          PROVE  \E x \in 1 .. Len(s) : s[x].cmd = "configApply"
      <4>1. i - 1 \in 1 .. Len(s) /\ s[i - 1] = q[i]
        BY <1>2, <3>2
      <4> QED
        BY <3>2, <4>1
    <3> QED
      BY <1>7, <3>1, <3>2
  <2> QED
    BY <2>1, <2>2, <2>3 DEF DosedAfter
<1>8. DosedAfter(s, u, d, n)
  BY <1>5, <1>6, <1>7 DEF DosedAfter
<1> QED
  BY <1>1, <1>3, <1>4, <1>8

-----------------------------------------------------------------------------
(* What is on its way to the client of a session makes it what is wanted.  *)
CurQueue(c) == reg.slot[CurrentSlot(c)].queue
CurWire(c) == ctlLink[cl[c].link].wire
PauseTold(c) == PausedAfter(CurQueue(c), Paused(cl[c], CurWire(c)), reg.pause)
RoleTold(c) ==
  DosedAfter(CurQueue(c), Staged(cl[c], CurWire(c)), Done(cl[c], CurWire(c)), reg.roles[MachineOf(c)])
Told(c) ==
  CurrentSlot(c) # 0 /\ cl[c].req # "stop"
    => (c \in ctlHist.pauseAmiss \/ PauseTold(c)) /\ (c \in ctlHist.roleAmiss \/ RoleTold(c))

\* A client's connection is its own, open, and carries nothing the thread of the
\* server has not sent.
Quiet == {"hello", "known", "idle"}
LinkageOK ==
  /\ \A c \in CtlClient : cl[c].link # 0 =>
       /\ ctlLink[cl[c].link].client = c /\ ctlLink[cl[c].link].cOpen /\ ctlLink[cl[c].link].pc # "none"
  /\ \A k \in Link : ctlLink[k].pc \in Quiet => ctlLink[k].wire.is = "none"
TInv == CInv /\ LinkageOK /\ \A c \in CtlClient : Told(c)

\* What a new session is told makes its client what is wanted, one that is not
\* paused while the fleet runs.
LEMMA FirstTold ==
  ASSUME CInv, NEW c \in CtlClient, NEW v \in BOOLEAN, NEW st, NEW done, ~ reg.pause => ~ v
  PROVE  /\ PausedAfter(FirstCommands(reg, c), v, reg.pause)
         /\ DosedAfter(FirstCommands(reg, c), st, done, reg.roles[MachineOf(c)])
<1> DEFINE n == reg.roles[MachineOf(c)]
<1>1. n \in Int /\ reg.pause \in BOOLEAN
  BY ControlAssumption DEF CInv, TypesOK, RegT, MachineOf
<1>2. PICK p, a, b \in EntryT :
        /\ p = CtlEntry("pause", 0, NoClient) /\ a = CtlEntry("config", n, NoClient)
        /\ b = CtlEntry("configApply", 0, NoClient)
  BY <1>1, EntryType DEF AnyClient, Cmds
<1>3. p.cmd = "pause" /\ a.cmd = "config" /\ a.n = n /\ b.cmd = "configApply"
  BY <1>2 DEF CtlEntry
<1>4. PICK q : q = IF reg.pause THEN <<p>> ELSE <<>>
  OBVIOUS
<1>5. /\ q \in Seq(EntryT) /\ Len(q) + 2 <= QueueCap /\ q \o <<a, b>> = Append(Append(q, a), b)
      /\ \A j \in 1 .. Len(q) : q[j].cmd = "pause"
  <2>1. CASE reg.pause
    BY <1>2, <1>3, <1>4, <2>1, RoomForFirst, Bounds
  <2>2. CASE ~ reg.pause
    BY <1>2, <1>4, <2>2, RoomForFirst, Bounds
  <2> QED
    BY <2>1, <2>2
<1>6. PausedAfter(q, v, reg.pause)
  <2>1. CASE reg.pause
    <3>1. q = Append(<<>>, p) /\ <<>> \in Seq(EntryT)
      BY <1>4, <2>1
    <3>2. reg.pause = TRUE
      BY <2>1, <1>1
    <3> QED
      BY <1>3, <3>1, <3>2, PauseAppended
  <2>2. CASE ~ reg.pause
    <3>1. v = reg.pause /\ Len(q) = 0
      BY <1>1, <1>4, <2>2
    <3> QED
      BY <3>1 DEF PausedAfter
  <2> QED
    BY <2>1, <2>2
<1>7. PausedAfter(Append(Append(q, a), b), v, reg.pause)
  <2>1. ~ PauseCmd(a) /\ ~ PauseCmd(b) /\ Append(q, a) \in Seq(EntryT)
    BY <1>3, <1>5 DEF PauseCmd
  <2> QED
    BY <1>1, <1>5, <1>6, <2>1, PauseAppended
<1>8. DosedAfter(Append(Append(q, a), b), st, done, n)
  BY <1>3, <1>5, DoseTold
<1>9. FirstCommands(reg, c) = IF n # NoRole THEN Append(Append(q, a), b) ELSE q
  BY <1>2, <1>4, <1>5 DEF FirstCommands
<1>10. n = NoRole => DosedAfter(q, st, done, n)
  BY DEF DosedAfter
<1> QED
  BY <1>6, <1>7, <1>8, <1>9, <1>10

\* The two commands of a dosage leave the pause as it is, and those of another
\* dosage only come with their own configApply.
LEMMA DoseKeepsPause ==
  ASSUME NEW s \in SlotT, QueueOK(s), NEW n \in Int, NEW v \in BOOLEAN, NEW p \in BOOLEAN
  PROVE  /\ PausedAfter(s.queue, v, p) => PausedAfter(DosePosted(s, n).queue, v, p)
         /\ Len(s.queue) + 2 <= QueueCap
              => \A st, done : DosedAfter(DosePosted(s, n).queue, st, done, n)
<1>1. PICK a, b \in EntryT :
        a = CtlEntry("config", n, NoClient) /\ b = CtlEntry("configApply", 0, NoClient)
  BY EntryType DEF Cmds, AnyClient
<1>2. ~ PauseCmd(a) /\ ~ PauseCmd(b) /\ a.cmd = "config" /\ a.n = n /\ b.cmd = "configApply"
  BY <1>1 DEF CtlEntry, PauseCmd
<1>3. s.queue \in Seq(EntryT) /\ Len(s.queue) \in Nat
  BY DEF SlotT
<1>4. PICK q1 : q1 = IF Len(s.queue) < QueueCap THEN Append(s.queue, a) ELSE s.queue
  OBVIOUS
<1>5. q1 \in Seq(EntryT)
  BY <1>3, <1>4
<1>6. PICK q2 : q2 = IF Len(q1) < QueueCap THEN Append(q1, b) ELSE q1
  OBVIOUS
<1>7. DosePosted(s, n).queue = q2
  <2>1. DosePosted(s, n) = [s EXCEPT !.queue = q2]
    BY <1>1, <1>4, <1>6 DEF DosePosted
  <2> QED
    BY <2>1 DEF SlotT
<1>8. ASSUME PausedAfter(s.queue, v, p) PROVE PausedAfter(q2, v, p)
  <2>1. PausedAfter(q1, v, p)
    BY <1>2, <1>3, <1>4, <1>8, PauseAppended
  <2> QED
    BY <1>2, <1>5, <1>6, <2>1, PauseAppended
<1>9. ASSUME Len(s.queue) + 2 <= QueueCap, NEW st, NEW done PROVE DosedAfter(q2, st, done, n)
  <2>1. q1 = Append(s.queue, a) /\ q2 = Append(q1, b)
    <3>1. Len(s.queue) < QueueCap
      BY <1>3, <1>9, Bounds
    <3>2. q1 = Append(s.queue, a)
      BY <1>4, <3>1
    <3>3. Len(q1) = Len(s.queue) + 1
      BY <1>3, <3>2
    <3>4. Len(q1) < QueueCap
      BY <1>3, <1>9, <3>3, Bounds
    <3> QED
      BY <1>6, <3>2, <3>4
  <2>2. DosedAfter(Append(Append(s.queue, a), b), st, done, a.n)
    BY <1>2, <1>3, DoseTold
  <2> QED
    BY <1>2, <2>1, <2>2
<1> QED
  BY <1>7, <1>8, <1>9

LEMMA Current ==
  ASSUME CInv, LinkageOK, NEW c \in CtlClient, CurrentSlot(c) # 0
  PROVE  /\ cl[c].link \in Link /\ cl[c].link # 0 /\ CurrentSlot(c) = ctlLink[cl[c].link].slot
         /\ ctlLink[cl[c].link].client = c /\ ctlLink[cl[c].link].cOpen
         /\ CurrentSlot(c) \in CtlSlot /\ reg.slot[CurrentSlot(c)] \in SlotT
         /\ reg.slot[CurrentSlot(c)].client = c /\ CurrentSlot(c) \in InUse(reg)
         /\ c \in Served(reg) /\ QueueOK(reg.slot[CurrentSlot(c)]) /\ CurQueue(c) \in Seq(EntryT)
         /\ CurWire(c) \in FrameT
<1>1. cl[c].link # 0 /\ CurrentSlot(c) = ctlLink[cl[c].link].slot
  BY DEF CurrentSlot
<1>2. cl[c].link \in Link
  BY <1>1, Bounds DEF CInv, TypesOK, ClT, Link
<1>3. ctlLink[cl[c].link].pc \in Serving /\ ctlLink[cl[c].link].wire \in FrameT
  BY <1>1, <1>2, LinkFacts DEF LinkOK, LinkT
<1>4. ctlLink[cl[c].link].client = c /\ ctlLink[cl[c].link].cOpen
  BY <1>1 DEF LinkageOK
<1>5. /\ CurrentSlot(c) \in CtlSlot /\ reg.slot[CurrentSlot(c)] \in SlotT
      /\ reg.slot[CurrentSlot(c)].no # 0 /\ reg.slot[CurrentSlot(c)].client = c
      /\ QueueOK(reg.slot[CurrentSlot(c)])
  BY <1>1, <1>2, <1>3, <1>4, ServedSlot
<1>6. CurrentSlot(c) \in InUse(reg)
  BY <1>5 DEF InUse
<1>7. CurWire(c) \in FrameT
  BY <1>3, Zenon DEF CurWire
<1>8. CurQueue(c) \in Seq(EntryT)
  BY <1>1, <1>5 DEF CurQueue, SlotT
<1>9. c \in Served(reg)
  BY <1>5, <1>6 DEF Served
<1> QED
  BY <1>1, <1>2, <1>4, <1>5, <1>6, <1>7, <1>8, <1>9

\* Two clients are not served by one slot.
LEMMA SlotsApart ==
  ASSUME CInv, LinkageOK, NEW c \in CtlClient, NEW d \in CtlClient, CurrentSlot(c) # 0,
         CurrentSlot(c) = CurrentSlot(d)
  PROVE  c = d
BY Current

\* A client stays told when nothing about its session changes, or its forks come
\* nearer to the dosage.
LEMMA StaysTold ==
  ASSUME NEW c \in CtlClient, Told(c), UNCHANGED <<ctlSet, reg.pause, reg.roles>>,
         c \in ctlHist.pauseAmiss => c \in ctlHist'.pauseAmiss,
         c \in ctlHist.roleAmiss => c \in ctlHist'.roleAmiss,
         CurrentSlot(c)' # 0 /\ cl'[c].req # "stop" =>
           /\ CurrentSlot(c) # 0 /\ cl[c].req # "stop" /\ CurQueue(c)' = CurQueue(c)
           /\ Paused(cl[c], CurWire(c))' = Paused(cl[c], CurWire(c))
           /\ Staged(cl[c], CurWire(c))' = Staged(cl[c], CurWire(c))
           /\ Done(cl[c], CurWire(c)) => Done(cl[c], CurWire(c))'
  PROVE  Told(c)'
<1> SUFFICES ASSUME CurrentSlot(c)' # 0, cl'[c].req # "stop"
             PROVE  /\ c \in ctlHist'.pauseAmiss \/ PauseTold(c)'
                    /\ c \in ctlHist'.roleAmiss \/ RoleTold(c)'
  BY DEF Told
<1>1. PauseTold(c) => PauseTold(c)'
  BY DEF PauseTold
<1>2. RoleTold(c) => RoleTold(c)'
  BY DEF RoleTold, DosedAfter, MachineOf
<1> QED
  BY <1>1, <1>2 DEF Told

\* The clients whose connection is not the one a step of the server is about.
LEMMA OthersTold ==
  ASSUME TInv, UNCHANGED <<ctlSet, cl, reg.pause, reg.roles>>, NEW k \in Link, NEW i,
         \A j \in Link \ {k} : ctlLink'[j] = ctlLink[j] /\ ctlLink[j].slot # i,
         \A x \in CtlSlot \ {i} : reg'.slot[x] = reg.slot[x],
         NEW c \in CtlClient, cl[c].link # k,
         c \in ctlHist.pauseAmiss => c \in ctlHist'.pauseAmiss,
         c \in ctlHist.roleAmiss => c \in ctlHist'.roleAmiss
  PROVE  Told(c)'
<1>1. ASSUME CurrentSlot(c)' # 0
      PROVE  CurrentSlot(c)' = CurrentSlot(c) /\ CurQueue(c)' = CurQueue(c) /\ CurWire(c)' = CurWire(c)
  <2>1. cl[c].link # 0
    BY <1>1 DEF CurrentSlot
  <2>2. cl[c].link \in Link
    BY <2>1, Bounds DEF TInv, CInv, TypesOK, ClT, Link
  <2>3. ctlLink'[cl[c].link] = ctlLink[cl[c].link] /\ ctlLink[cl[c].link].slot # i
    BY <2>2
  <2>4. CurrentSlot(c)' = CurrentSlot(c) /\ CurWire(c)' = CurWire(c) /\ CurrentSlot(c) # i
    BY <2>1, <2>3 DEF CurrentSlot, CurWire
  <2>5. CurrentSlot(c) \in CtlSlot
    BY <1>1, <2>4, Current DEF TInv
  <2> QED
    BY <2>4, <2>5 DEF CurQueue
<1>2. Told(c)
  BY DEF TInv
<1> QED
  BY <1>1, <1>2, StaysTold

LEMMA LinkageKeeps ==
  ASSUME TInv, UNCHANGED cl, NEW k \in Link, NEW l \in LinkT, ctlLink' = [ctlLink EXCEPT ![k] = l],
         ctlLink[k].cOpen => l.client = ctlLink[k].client /\ l.cOpen, l.pc # "none",
         l.pc \in Quiet => l.wire.is = "none"
  PROVE  LinkageOK'
<1>1. ctlLink'[k] = l /\ \A j \in Link : j # k => ctlLink'[j] = ctlLink[j]
  BY DEF TInv, CInv, TypesOK
<1>2. \A c \in CtlClient : cl[c].link # 0 => cl[c].link \in Link
  BY Bounds DEF TInv, CInv, TypesOK, ClT, Link
<1> QED
  BY <1>1, <1>2 DEF TInv, LinkageOK

\* What a step on connection k may do that posts and takes no command.
LEMMA ServerTold ==
  ASSUME TInv, UNCHANGED <<ctlSet, cl, reg.pause, reg.roles, ctlHist.pauseAmiss, ctlHist.roleAmiss>>,
         NEW k \in Link, NEW l \in LinkT, ctlLink' = [ctlLink EXCEPT ![k] = l],
         ctlLink[k].cOpen => l.client = ctlLink[k].client /\ l.cOpen, l.pc # "none",
         l.pc \in Quiet => l.wire.is = "none",
         \A i \in CtlSlot : reg'.slot[i] = reg.slot[i] \/ (i = ctlLink[k].slot /\ l.slot = 0),
         l.slot # 0 =>
           /\ l.slot = ctlLink[k].slot
           /\ l.wire = ctlLink[k].wire
              \/ (ctlLink[k].wire.is # "request" /\ (l.wire.is = "request" => l.wire.e.cmd = "stats"))
  PROVE  LinkageOK' /\ \A c \in CtlClient : Told(c)'
<1>1. LinkageOK'
  BY LinkageKeeps
<1>2. ctlLink'[k] = l /\ \A j \in Link : j # k => ctlLink'[j] = ctlLink[j]
  BY DEF TInv, CInv, TypesOK
<1>3. ASSUME NEW c \in CtlClient PROVE Told(c)'
  <2>1. CASE cl[c].link # k
    <3>1. PICK i : i = IF ctlLink[k].slot = 0 THEN -1 ELSE ctlLink[k].slot
      OBVIOUS
    <3>2. \A j \in Link \ {k} : ctlLink[j].slot # i
      <4>1. \A j \in Link : ctlLink[j].slot \in 0 .. MaxSlot
        BY LinkFacts DEF TInv, LinkT
      <4> QED
        BY <3>1, <4>1, Bounds DEF TInv, CInv, LinksOK
    <3>3. \A x \in CtlSlot \ {i} : reg'.slot[x] = reg.slot[x]
      BY <3>1, Bounds
    <3>4. /\ UNCHANGED <<ctlSet, cl, reg.pause, reg.roles>>
          /\ c \in ctlHist.pauseAmiss => c \in ctlHist'.pauseAmiss
          /\ c \in ctlHist.roleAmiss => c \in ctlHist'.roleAmiss
      OBVIOUS
    <3>5. \A j \in Link \ {k} : ctlLink'[j] = ctlLink[j] /\ ctlLink[j].slot # i
      BY <1>2, <3>2
    <3> QED
      BY <2>1, <3>3, <3>4, <3>5, OthersTold
  <2>2. CASE cl[c].link = k
    <3>1. k # 0
      BY Bounds
    <3>2. CurrentSlot(c)' = l.slot /\ CurWire(c)' = l.wire
      BY <1>2, <2>2, <3>1 DEF CurrentSlot, CurWire
    <3>3. CurrentSlot(c) = ctlLink[k].slot /\ CurWire(c) = ctlLink[k].wire
      BY <2>2, <3>1 DEF CurrentSlot, CurWire
    <3>4. ASSUME l.slot # 0
          PROVE  /\ CurrentSlot(c) # 0 /\ CurQueue(c)' = CurQueue(c)
                 /\ Paused(cl[c], CurWire(c))' = Paused(cl[c], CurWire(c))
                 /\ Staged(cl[c], CurWire(c))' = Staged(cl[c], CurWire(c))
                 /\ Done(cl[c], CurWire(c))' = Done(cl[c], CurWire(c))
      <4>1. CurrentSlot(c) # 0 /\ CurrentSlot(c)' = CurrentSlot(c)
        BY <3>2, <3>3, <3>4
      <4>2. CurrentSlot(c) \in CtlSlot
        BY <4>1, Current DEF TInv
      <4>3. CurQueue(c)' = CurQueue(c)
        BY <3>2, <3>4, <4>1, <4>2 DEF CurQueue
      <4>4. \A cmd \in {"pause", "resume", "config", "configApply"} :
              /\ Has(l.wire, cmd) <=> Has(ctlLink[k].wire, cmd)
              /\ Has(l.wire, cmd) => l.wire = ctlLink[k].wire
        BY <3>4 DEF Has
      <4>5. /\ Paused(cl[c], l.wire) = Paused(cl[c], ctlLink[k].wire)
            /\ Staged(cl[c], l.wire) = Staged(cl[c], ctlLink[k].wire)
            /\ Done(cl[c], l.wire) = Done(cl[c], ctlLink[k].wire)
        BY <4>4 DEF Paused, Staged, Done
      <4> QED
        BY <3>2, <3>3, <4>1, <4>3, <4>5
    <3> QED
      BY <3>2, <3>4, StaysTold DEF TInv
  <2> QED
    BY <2>1, <2>2
<1> QED
  BY <1>1, <1>3

-----------------------------------------------------------------------------
(* The threads of the server.                                              *)

LEMMA PcTold ==
  ASSUME TInv, UNCHANGED <<ctlSet, reg, cl>>, NEW k \in Link, NEW pc \in Serving, SetPc(k, pc),
         ctlHist'.pauseAmiss = ctlHist.pauseAmiss, ctlHist'.roleAmiss = ctlHist.roleAmiss,
         pc \in Quiet => ctlLink[k].wire.is = "none"
  PROVE  LinkageOK' /\ \A c \in CtlClient : Told(c)'
<1>1. ctlLink[k] \in LinkT
  BY LinkFacts DEF TInv
<1>2. PICK l : l = [ctlLink[k] EXCEPT !.pc = pc]
  OBVIOUS
<1>3. /\ l \in LinkT /\ l.slot = ctlLink[k].slot /\ l.pc = pc /\ l.wire = ctlLink[k].wire
      /\ l.client = ctlLink[k].client /\ l.cOpen = ctlLink[k].cOpen
  BY <1>1, <1>2 DEF LinkT, Pcs, Serving
<1>4. ctlLink' = [ctlLink EXCEPT ![k] = l] /\ pc # "none"
  BY <1>2 DEF SetPc, Serving
<1> QED
  BY <1>3, <1>4, ServerTold

LEMMA SamePlaceTold ==
  ASSUME TInv, NEW k \in Link,
         KnowConnect(k) \/ PingFails(k) \/ NoReply(k) \/ KnowDisconnect(k)
  PROVE  LinkageOK' /\ \A c \in CtlClient : Told(c)'
<1>1. ctlHist \in HistT
  BY DEF TInv, CInv, TypesOK
<1>2. CASE KnowConnect(k)
  <2>1. PICK u : ctlHist' = [ctlHist EXCEPT !.unshown = IF u THEN @ \cup {ctlLink[k].client} ELSE @ \ {ctlLink[k].client}]
    BY <1>2 DEF KnowConnect
  <2>2. ctlHist'.pauseAmiss = ctlHist.pauseAmiss /\ ctlHist'.roleAmiss = ctlHist.roleAmiss
    BY <1>1, <2>1 DEF HistT
  <2>3. ctlLink[k].wire.is = "none"
    BY <1>2 DEF TInv, LinkageOK, KnowConnect, Quiet
  <2> QED
    BY <1>2, <2>2, <2>3, PcTold DEF KnowConnect, Serving
<1>3. CASE PingFails(k)
  BY <1>3, PcTold DEF PingFails, Serving, Quiet
<1>4. CASE NoReply(k)
  BY <1>4, PcTold DEF NoReply, Serving, Quiet
<1>5. CASE KnowDisconnect(k)
  BY <1>5, PcTold DEF KnowDisconnect, Serving, Quiet
<1> QED
  BY <1>2, <1>3, <1>4, <1>5

LEMMA AutoStatsTold ==
  ASSUME TInv, NEW k \in Link, AutoStats(k)
  PROVE  LinkageOK' /\ \A c \in CtlClient : Told(c)'
<1>1. CtlEntry("stats", 0, NoClient) \in EntryT /\ CtlEntry("stats", 0, NoClient).cmd = "stats"
  BY EntryType DEF AnyClient, Cmds, CtlEntry
<1>2. PICK w \in FrameT : w = CtlRequest(CtlEntry("stats", 0, NoClient)) /\ w.e.cmd = "stats"
  BY <1>1, FrameTypes
<1>3. ctlLink[k] \in LinkT /\ ctlLink[k].wire.is = "none"
  BY LinkFacts DEF TInv, LinkageOK, AutoStats, Quiet
<1>4. PICK l : l = [ctlLink[k] EXCEPT !.pc = "wait", !.wire = w]
  OBVIOUS
<1>5. /\ l \in LinkT /\ l.slot = ctlLink[k].slot /\ l.pc = "wait" /\ l.wire = w
      /\ l.client = ctlLink[k].client /\ l.cOpen = ctlLink[k].cOpen
  BY <1>3, <1>4 DEF LinkT, Pcs
<1>6. ctlLink' = [ctlLink EXCEPT ![k] = l] /\ UNCHANGED <<ctlSet, cl, reg, ctlHist>>
  BY <1>2, <1>4 DEF AutoStats
<1> QED
  BY <1>2, <1>3, <1>5, <1>6, ServerTold DEF Quiet

LEMMA ReplyTold ==
  ASSUME TInv, NEW k \in Link, Reply(k)
  PROVE  LinkageOK' /\ \A c \in CtlClient : Told(c)'
<1>1. NoFrame \in FrameT /\ NoFrame.is = "none"
  BY FrameTypes DEF NoFrame
<1>2. ctlLink[k] \in LinkT
  BY LinkFacts DEF TInv
<1>3. PICK l : l = [ctlLink[k] EXCEPT !.pc = "idle", !.wire = NoFrame]
  OBVIOUS
<1>4. /\ l \in LinkT /\ l.slot = ctlLink[k].slot /\ l.pc = "idle" /\ l.wire = NoFrame
      /\ l.client = ctlLink[k].client /\ l.cOpen = ctlLink[k].cOpen
  BY <1>1, <1>2, <1>3 DEF LinkT, Pcs
<1>5. /\ ctlLink' = [ctlLink EXCEPT ![k] = l] /\ UNCHANGED <<ctlSet, cl, reg, ctlHist>>
      /\ ctlLink[k].wire.is = "answer"
  BY <1>3 DEF Reply
<1> QED
  BY <1>1, <1>4, <1>5, ServerTold

\* The end of the server's side.
LEMMA EndsTold ==
  ASSUME TInv, UNCHANGED <<ctlSet, cl, reg.pause, reg.roles, ctlHist>>, NEW k \in Link,
         ctlLink[k].pc # "none",
         ctlLink' = [ctlLink EXCEPT ![k] = ServerEnds(ctlLink[k])],
         \A i \in CtlSlot : reg'.slot[i] = reg.slot[i] \/ i = ctlLink[k].slot
  PROVE  LinkageOK' /\ \A c \in CtlClient : Told(c)'
<1>1. ctlLink[k] \in LinkT /\ ctlLink[k].wire.e.to \in {NoClient, ctlLink[k].client}
  BY LinkFacts DEF TInv, LinkOK
<1>2. PICK l : l = ServerEnds(ctlLink[k])
  OBVIOUS
<1>3. l \in LinkT /\ l.slot = 0 /\ l.pc = "gone"
  BY <1>1, <1>2, EndedLink
<1>4. ctlLink[k].cOpen => l.client = ctlLink[k].client /\ l.cOpen
  BY <1>1, <1>2 DEF ServerEnds, LinkT
<1> QED
  BY <1>2, <1>3, <1>4, ServerTold DEF Quiet

LEMMA LeaveTold ==
  ASSUME TInv, NEW k \in Link, Leave(k)
  PROVE  LinkageOK' /\ \A c \in CtlClient : Told(c)'
<1>1. reg \in RegT
  BY DEF TInv, CInv, TypesOK
<1>2. reg' = [reg EXCEPT !.slot[ctlLink[k].slot] = NoSession]
  BY DEF Leave, control_registry_unregister
<1>3. /\ reg'.pause = reg.pause /\ reg'.roles = reg.roles
      /\ \A i \in CtlSlot : i # ctlLink[k].slot => reg'.slot[i] = reg.slot[i]
  BY <1>1, <1>2 DEF RegT
<1> QED
  BY <1>3, EndsTold DEF Leave

LEMMA DequeueTold ==
  ASSUME TInv, NEW k \in Link, Dequeue(k)
  PROVE  LinkageOK' /\ \A c \in CtlClient : Told(c)'
<1> DEFINE i == ctlLink[k].slot
           q == reg.slot[i].queue
           open == ctlLink[k].cOpen
<1>0. /\ ctlLink[k].pc = "idle" /\ q # <<>> /\ UNCHANGED <<ctlSet, cl, ctlHist>>
      /\ reg' = [reg EXCEPT !.slot[i].queue = Tail(q)]
      /\ ctlLink' = [ctlLink EXCEPT
           ![k] = [ctlLink[k] EXCEPT !.pc = IF open THEN "wait" ELSE "closing",
                                     !.wire = IF open THEN CtlRequest(Head(q)) ELSE NoFrame]]
  BY DEF Dequeue, Queue
<1>1. /\ i \in CtlSlot /\ reg.slot[i] \in SlotT /\ q \in Seq(EntryT) /\ ctlLink[k] \in LinkT
      /\ reg \in RegT /\ ctlLink[k].wire.is = "none"
  <2>1. i \in CtlSlot /\ reg.slot[i] \in SlotT
    BY <1>0, ServedSlot DEF Serving, TInv
  <2> QED
    BY <1>0, <2>1, LinkFacts DEF TInv, CInv, TypesOK, SlotT, LinkageOK, Quiet
<1>2. q[1] \in EntryT /\ Head(q) = q[1]
  BY <1>0, <1>1, Shifted
<1>3. PICK w \in FrameT : w = IF open THEN CtlRequest(Head(q)) ELSE NoFrame
  BY <1>2, FrameTypes
<1>4. PICK pc \in {"wait", "closing"} : pc = IF open THEN "wait" ELSE "closing"
  OBVIOUS
<1>5. PICK l : l = [ctlLink[k] EXCEPT !.pc = pc, !.wire = w]
  OBVIOUS
<1>6. /\ l \in LinkT /\ l.slot = i /\ l.pc = pc /\ l.wire = w /\ l.client = ctlLink[k].client
      /\ l.cOpen = open
  BY <1>1, <1>5 DEF LinkT, Pcs
<1>7. ctlLink' = [ctlLink EXCEPT ![k] = l]
  BY <1>0, <1>3, <1>4, <1>5
<1>8. ctlLink'[k] = l /\ \A j \in Link : j # k => ctlLink'[j] = ctlLink[j]
  BY <1>6, <1>7 DEF TInv, CInv, TypesOK
<1>9. LinkageOK'
  BY <1>0, <1>6, <1>7, LinkageKeeps DEF Quiet
<1>10. PICK rest \in Seq(EntryT) : rest = Tail(q)
  BY <1>0, <1>1, Shifted
<1>11. /\ reg'.pause = reg.pause /\ reg'.roles = reg.roles /\ reg'.slot[i].queue = rest
       /\ \A x \in CtlSlot \ {i} : reg'.slot[x] = reg.slot[x]
  <2>1. PICK t : t = [reg.slot[i] EXCEPT !.queue = rest]
    OBVIOUS
  <2>2. t.queue = rest
    BY <1>1, <2>1 DEF SlotT
  <2>3. reg' = [reg EXCEPT !.slot[i] = t]
    BY <1>0, <1>10, <2>1
  <2> QED
    BY <1>1, <2>2, <2>3 DEF RegT
<1> HIDE DEF i, q, open
<1>12. ASSUME NEW c \in CtlClient, cl[c].link # k PROVE Told(c)'
  <2>1. \A j \in Link \ {k} : ctlLink[j].slot # i
    BY <1>1, Bounds DEF TInv, CInv, LinksOK, i
  <2>2. UNCHANGED <<ctlSet, cl, ctlHist>>
    BY <1>0
  <2> QED
    BY <1>8, <1>11, <1>12, <2>1, <2>2, OthersTold
<1>13. ASSUME NEW c \in CtlClient, cl[c].link = k, cl[c].req # "stop" PROVE Told(c)'
  <2>1. k # 0 /\ CurrentSlot(c) = i /\ CurrentSlot(c)' = i /\ i # 0
    BY <1>0, <1>1, <1>6, <1>8, <1>13, Bounds DEF CurrentSlot, i
  <2>2. CurWire(c) = ctlLink[k].wire /\ CurWire(c)' = w
    BY <1>0, <1>6, <1>8, <1>13 DEF CurWire
  <2>3. CurQueue(c) = q /\ CurQueue(c)' = rest
    BY <1>11, <2>1 DEF CurQueue, q
  <2>4. open
    BY <1>13, <2>1 DEF TInv, LinkageOK, open
  <2>5. w.is = "request" /\ w.e = Head(q)
    <3>1. w = CtlRequest(Head(q))
      BY <1>3, <2>4
    <3> QED
      BY <1>2, <3>1, FrameTypes DEF CtlRequest, NoFrame
  <2>6. /\ c \in ctlHist.pauseAmiss \/ PauseTold(c)
        /\ c \in ctlHist.roleAmiss \/ RoleTold(c)
    BY <1>13, <2>1 DEF TInv, Told
  <2>7. /\ Paused(cl[c], CurWire(c)) \in BOOLEAN /\ Done(cl[c], CurWire(c)) \in BOOLEAN
        /\ Paused(cl[c], w) = (Head(q).cmd = "pause" \/ (Paused(cl[c], CurWire(c)) /\ Head(q).cmd # "resume"))
        /\ Staged(cl[c], w) = (IF Head(q).cmd = "config" THEN Head(q).n ELSE Staged(cl[c], CurWire(c)))
        /\ Done(cl[c], w) = (Head(q).cmd = "configApply" \/ (Done(cl[c], CurWire(c)) /\ Head(q).cmd # "config"))
    <3>1. \A cmd : ~ Has(CurWire(c), cmd) /\ (Has(w, cmd) <=> Head(q).cmd = cmd)
      BY <1>1, <2>2, <2>5 DEF Has
    <3> QED
      BY <2>5, <3>1 DEF Paused, Done, Staged
  <2>8. PauseTold(c) => PauseTold(c)'
    <3>1. reg.pause \in BOOLEAN
      BY <1>1 DEF RegT
    <3>2. PausedAfter(q, Paused(cl[c], CurWire(c)), reg.pause) => PausedAfter(rest, Paused(cl[c], w), reg.pause)
      BY <1>0, <1>1, <1>10, <2>7, <3>1, PauseTaken DEF q
    <3> QED
      BY <1>0, <1>11, <2>2, <2>3, <3>2 DEF PauseTold
  <2>9. RoleTold(c) => RoleTold(c)'
    <3>1. DosedAfter(q, Staged(cl[c], CurWire(c)), Done(cl[c], CurWire(c)), reg.roles[MachineOf(c)])
            => DosedAfter(rest, Staged(cl[c], w), Done(cl[c], w), reg.roles[MachineOf(c)])
      BY <1>0, <1>1, <1>10, <2>7, DoseTaken DEF q
    <3> QED
      BY <1>0, <1>11, <2>2, <2>3, <3>1 DEF RoleTold, MachineOf
  <2> QED
    BY <1>0, <2>6, <2>8, <2>9 DEF Told
<1>14. ASSUME NEW c \in CtlClient, cl[c].req = "stop" PROVE Told(c)'
  BY <1>0, <1>14 DEF Told
<1> QED
  BY <1>9, <1>12, <1>13, <1>14

\* A new session of the connection its client is on, or of one it has left.
LEMMA HelloTold ==
  ASSUME TInv, NEW k \in Link, Hello(k)
  PROVE  LinkageOK' /\ \A c \in CtlClient : Told(c)'
<1> DEFINE c == ctlLink[k].client
<1>0. /\ ctlLink[k].pc = "hello" /\ UNCHANGED <<ctlSet, cl>> /\ ctlLink[k] \in LinkT
      /\ ctlHist \in HistT /\ reg \in RegT /\ c \in CtlClient /\ ctlLink[k].wire.is = "none"
  BY LinkFacts DEF Hello, TInv, CInv, TypesOK, LinkOK, LinkageOK, Quiet
<1>1. CASE ctlLink' = [ctlLink EXCEPT ![k] = ServerEnds(ctlLink[k])] /\ UNCHANGED <<reg, ctlHist>>
  BY <1>0, <1>1, EndsTold
<1>2. ASSUME NEW i \in FirstFree(reg),
             reg' = control_registry_register(reg, i, c),
             ctlLink' = [ctlLink EXCEPT ![k].pc = "known", ![k].slot = i],
             ctlHist' = [ctlHist EXCEPT
                   !.named[session_no(reg, i)] = IF @ = NoClient THEN c ELSE @,
                   !.pauseAmiss = AmissAtHello(@, c, k, ~ reg.pause /\ cl[c].req = "admin"),
                   !.roleAmiss = AmissAtHello(@, c, k, FALSE)]
      PROVE  LinkageOK' /\ \A d \in CtlClient : Told(d)'
  <2>1. i \in CtlSlot /\ i # 0 /\ reg.slot[i].no = 0
    BY Bounds DEF FirstFree, InUse
  <2>2. PICK q : q = FirstCommands(reg, c)
    OBVIOUS
  <2>3. /\ reg'.pause = reg.pause /\ reg'.roles = reg.roles /\ reg'.slot[i].queue = q
        /\ \A x \in CtlSlot \ {i} : reg'.slot[x] = reg.slot[x]
    <3>1. PICK t : t = [no |-> session_no(reg, i), client |-> c, queue |-> q]
      OBVIOUS
    <3>2. reg' = [reg EXCEPT !.slot[i] = t, !.next = @ + 1]
      BY <1>2, <2>2, <3>1 DEF control_registry_register
    <3> QED
      BY <1>0, <2>1, <3>1, <3>2 DEF RegT
  <2>4. /\ ctlHist'.pauseAmiss = AmissAtHello(ctlHist.pauseAmiss, c, k, ~ reg.pause /\ cl[c].req = "admin")
        /\ ctlHist'.roleAmiss = AmissAtHello(ctlHist.roleAmiss, c, k, FALSE)
    BY <1>0, <1>2 DEF HistT
  <2>5. PICK l : l = [ctlLink[k] EXCEPT !.pc = "known", !.slot = i]
    OBVIOUS
  <2>6. /\ l \in LinkT /\ l.slot = i /\ l.pc = "known" /\ l.client = c /\ l.wire = ctlLink[k].wire
        /\ l.cOpen = ctlLink[k].cOpen
    BY <1>0, <2>1, <2>5, Bounds DEF LinkT, Pcs
  <2>7. ctlLink' = [ctlLink EXCEPT ![k] = l]
    BY <1>2, <2>5
  <2>8. ctlLink'[k] = l /\ \A j \in Link : j # k => ctlLink'[j] = ctlLink[j]
    BY <2>6, <2>7 DEF TInv, CInv, TypesOK
  <2>9. LinkageOK'
    BY <1>0, <2>6, <2>7, LinkageKeeps
  <2>10. ASSUME NEW d \in CtlClient, cl[d].link # k PROVE Told(d)'
    <3>1. \A j \in Link \ {k} : ctlLink[j].slot # i
      BY <2>1, LinkFacts DEF TInv, LinkOK
    <3>2. /\ d \in ctlHist.pauseAmiss => d \in ctlHist'.pauseAmiss
          /\ d \in ctlHist.roleAmiss => d \in ctlHist'.roleAmiss
      BY <2>4, <2>10 DEF AmissAtHello
    <3> QED
      BY <1>0, <2>3, <2>8, <2>10, <3>1, <3>2, OthersTold
  <2>11. ASSUME NEW d \in CtlClient, cl[d].link = k, cl[d].req # "stop" PROVE Told(d)'
    <3>1. d = c /\ k # 0
      BY <2>11, Bounds DEF TInv, LinkageOK
    <3>2. CurQueue(d)' = q /\ CurWire(d)' = ctlLink[k].wire
      BY <1>0, <2>3, <2>6, <2>8, <2>11, <3>1 DEF CurrentSlot, CurQueue, CurWire
    <3>3. PICK v \in BOOLEAN : v = (cl[d].req = "admin")
      OBVIOUS
    <3>4. Paused(cl[d], CurWire(d)') = v
      BY <1>0, <3>2, <3>3 DEF Paused, Has
    <3>5. PICK st, done : st = Staged(cl[d], CurWire(d)') /\ done = Done(cl[d], CurWire(d)')
      OBVIOUS
    <3>6. d \in ctlHist'.pauseAmiss \/ PauseTold(d)'
      <4>1. CASE ~ reg.pause /\ cl[d].req = "admin"
        BY <2>4, <2>11, <3>1, <4>1 DEF AmissAtHello
      <4>2. CASE ~ (~ reg.pause /\ cl[d].req = "admin")
        <5>1. PausedAfter(q, v, reg.pause)
          BY <2>2, <3>1, <3>3, <4>2, FirstTold DEF TInv
        <5> QED
          BY <1>0, <2>3, <3>2, <3>4, <5>1 DEF PauseTold
      <4> QED
        BY <4>1, <4>2
    <3>7. RoleTold(d)'
      <4>1. DosedAfter(q, st, done, reg.roles[MachineOf(d)])
        BY <2>2, <3>1, FirstTold DEF TInv
      <4> QED
        BY <1>0, <2>3, <3>2, <3>5, <4>1 DEF RoleTold, MachineOf
    <3> QED
      BY <3>6, <3>7 DEF Told
  <2>12. ASSUME NEW d \in CtlClient, cl[d].req = "stop" PROVE Told(d)'
    BY <1>0, <2>12 DEF Told
  <2> QED
    BY <2>9, <2>10, <2>11, <2>12
<1> QED
  BY <1>1, <1>2 DEF Hello

-----------------------------------------------------------------------------
(* The clients.                                                            *)

\* The other clients, when a step is about connection k, of c or of nobody yet.
LEMMA OtherClients ==
  ASSUME TInv, UNCHANGED <<ctlSet, reg, ctlHist>>, NEW c \in CtlClient, NEW k,
         \A j \in Link \ {k} : ctlLink'[j] = ctlLink[j],
         NEW d \in CtlClient, cl'[d] = cl[d], cl[d].link # k
  PROVE  Told(d)'
<1>1. ASSUME CurrentSlot(d)' # 0
      PROVE  CurrentSlot(d)' = CurrentSlot(d) /\ CurQueue(d)' = CurQueue(d) /\ CurWire(d)' = CurWire(d)
  <2>1. cl[d].link # 0
    BY <1>1 DEF CurrentSlot
  <2>2. cl[d].link \in Link
    BY <2>1, Bounds DEF TInv, CInv, TypesOK, ClT, Link
  <2>3. ctlLink'[cl[d].link] = ctlLink[cl[d].link]
    BY <2>2
  <2> QED
    BY <2>1, <2>3 DEF CurrentSlot, CurWire, CurQueue
<1>2. Told(d)
  BY DEF TInv
<1> QED
  BY <1>1, <1>2, StaysTold

LEMMA ConnectTold ==
  ASSUME TInv, NEW c \in CtlClient, CtlConnect(c)
  PROVE  LinkageOK' /\ \A d \in CtlClient : Told(d)'
<1>1. PICK k \in Link :
        /\ ctlLink[k].pc = "none"
        /\ ctlLink' = [ctlLink EXCEPT ![k] = [NoLink EXCEPT !.client = c, !.cOpen = TRUE, !.pc = "hello"]]
        /\ cl' = [cl EXCEPT ![c].link = k]
  BY DEF CtlConnect
<1>2. PICK l : l = [NoLink EXCEPT !.client = c, !.cOpen = TRUE, !.pc = "hello"]
  OBVIOUS
<1>3. l.slot = 0 /\ l.client = c /\ l.cOpen /\ l.pc = "hello" /\ l.wire = NoFrame /\ NoFrame.is = "none"
  BY <1>2 DEF NoLink, NoFrame
<1>4. /\ ctlLink'[k] = l /\ \A j \in Link : j # k => ctlLink'[j] = ctlLink[j]
      /\ cl'[c].link = k /\ k # 0 /\ \A d \in CtlClient : d # c => cl'[d] = cl[d]
  BY <1>1, <1>2, Bounds DEF TInv, CInv, TypesOK, ClT
<1>5. \A d \in CtlClient : cl[d].link # k
  BY <1>1, Bounds DEF TInv, LinkageOK
<1>6. \A d \in CtlClient : cl[d].link # 0 => cl[d].link \in Link
  BY Bounds DEF TInv, CInv, TypesOK, ClT, Link
<1>7. LinkageOK'
  BY <1>3, <1>4, <1>5, <1>6 DEF TInv, LinkageOK
<1>8. Told(c)'
  <2>1. CurrentSlot(c)' = 0
    BY <1>3, <1>4 DEF CurrentSlot
  <2> QED
    BY <2>1 DEF Told
<1>9. ASSUME NEW d \in CtlClient, d # c PROVE Told(d)'
  BY <1>4, <1>5, <1>9, OtherClients DEF CtlConnect
<1> QED
  BY <1>7, <1>8, <1>9

LEMMA GiveUpTold ==
  ASSUME TInv, NEW c \in CtlClient, GiveUp(c)
  PROVE  LinkageOK' /\ \A d \in CtlClient : Told(d)'
<1> DEFINE k == cl[c].link
<1>1. /\ k # 0 /\ cl' = [cl EXCEPT ![c].link = 0]
      /\ ctlLink' = [ctlLink EXCEPT ![k] = ClientEnds(ctlLink[k])] /\ UNCHANGED <<ctlSet, reg, ctlHist>>
  BY DEF GiveUp
<1>2. k \in Link /\ ctlLink[k] \in LinkT
  BY <1>1, LinkFacts, Bounds DEF TInv, CInv, TypesOK, ClT, Link
<1>3. PICK l : l = ClientEnds(ctlLink[k])
  OBVIOUS
<1>4. l.wire.is = "none"
  BY <1>2, <1>3, FrameTypes DEF ClientEnds, LinkT, NoFrame
<1>5. /\ ctlLink'[k] = l /\ \A j \in Link : j # k => ctlLink'[j] = ctlLink[j]
      /\ cl'[c].link = 0 /\ \A d \in CtlClient : d # c => cl'[d] = cl[d]
  BY <1>1, <1>2, <1>3 DEF TInv, CInv, TypesOK, ClT
<1>6. \A d \in CtlClient : d # c => cl[d].link # k
  BY <1>1, <1>2 DEF TInv, LinkageOK
<1>7. \A d \in CtlClient : cl[d].link # 0 => cl[d].link \in Link
  BY Bounds DEF TInv, CInv, TypesOK, ClT, Link
<1>8. LinkageOK'
  BY <1>4, <1>5, <1>6, <1>7 DEF TInv, LinkageOK
<1>9. Told(c)'
  <2>1. CurrentSlot(c)' = 0
    BY <1>5 DEF CurrentSlot
  <2> QED
    BY <2>1 DEF Told
<1> HIDE DEF k
<1>10. ASSUME NEW d \in CtlClient, d # c PROVE Told(d)'
  BY <1>1, <1>5, <1>6, <1>10, OtherClients
<1> QED
  BY <1>8, <1>9, <1>10

\* A client that obeys what is on its connection becomes what it was about to be.
LEMMA ServeFrameTold ==
  ASSUME TInv, NEW c \in CtlClient, ServeFrame(c)
  PROVE  LinkageOK' /\ \A d \in CtlClient : Told(d)'
<1> DEFINE k == cl[c].link
           e == ctlLink[k].wire.e
           v == IF e.cmd = "stats" THEN cl[c].checked ELSE 0
<1>1. /\ k # 0 /\ cl' = [cl EXCEPT ![c] = Obey(cl[c], e)] /\ ctlLink[k].wire.is = "request"
      /\ ctlLink' = [ctlLink EXCEPT ![k].wire = Answer(e, v)] /\ UNCHANGED <<ctlSet, reg, ctlHist>>
  BY DEF ServeFrame
<1>2. k \in Link /\ ctlLink[k] \in LinkT /\ cl[c] \in ClT /\ e \in EntryT
  <2>1. k \in Link /\ cl[c] \in ClT
    BY <1>1, Bounds DEF TInv, CInv, TypesOK, ClT, Link
  <2> QED
    BY <2>1, LinkFacts DEF TInv
<1>3. PICK w : w = Answer(e, v)
  OBVIOUS
<1>4. w.is = "answer"
  BY <1>3 DEF Answer
<1>5. PICK l : l = [ctlLink[k] EXCEPT !.wire = w]
  OBVIOUS
<1>6. /\ l.wire = w /\ l.client = ctlLink[k].client /\ l.cOpen = ctlLink[k].cOpen
      /\ l.pc = ctlLink[k].pc /\ l.slot = ctlLink[k].slot
  BY <1>2, <1>5 DEF LinkT
<1>7. PICK x : x = Obey(cl[c], e)
  OBVIOUS
<1>8. /\ x.link = cl[c].link
      /\ cl[c].req = "stop" => x.req = "stop"
      /\ cl[c].req # "stop" => x.req # "stop" /\ ((x.req = "admin") = Paused(cl[c], ctlLink[k].wire))
      /\ cl[c].req # "stop" => x.staged = Staged(cl[c], ctlLink[k].wire)
      /\ cl[c].req # "stop" => (Done(cl[c], ctlLink[k].wire) => x.applying \/ x.dosage = x.staged)
  <2> DEFINE y == cl[c]
  <2>1. y.req \in {"run", "admin", "stop"}
    BY <1>2 DEF ClT
  <2>2. Has(ctlLink[k].wire, "pause") = (e.cmd = "pause") /\ Has(ctlLink[k].wire, "resume") = (e.cmd = "resume")
        /\ Has(ctlLink[k].wire, "config") = (e.cmd = "config")
        /\ Has(ctlLink[k].wire, "configApply") = (e.cmd = "configApply")
    BY <1>1 DEF Has
  <2>3. CASE y.req = "stop"
    BY <1>7, <2>3, Zenon DEF Obey
  <2>4. CASE y.req # "stop" /\ e.cmd \in {"pause", "resume"}
    <3>4. /\ y.req \in {"run", "admin"}
          /\ admin_pause_transition(y.req, TRUE) = "admin" /\ admin_pause_transition(y.req, FALSE) = "run"
      <4>1. CASE y.req = "run" BY <4>1 DEF admin_pause_transition
      <4>2. CASE y.req = "admin" BY <4>2 DEF admin_pause_transition
      <4> QED BY <2>1, <2>4, <4>1, <4>2
    <3>5. ASSUME e.cmd = "pause" PROVE x = [y EXCEPT !.req = "admin"]
      BY <1>7, <2>4, <3>4, <3>5, Zenon DEF Obey
    <3>6. ASSUME e.cmd = "resume" PROVE x = [y EXCEPT !.req = "run"]
      BY <1>7, <2>4, <3>4, <3>6, Zenon DEF Obey
    <3>1. PICK r \in {"run", "admin"} : r = IF e.cmd = "pause" THEN "admin" ELSE "run"
      OBVIOUS
    <3>2. x = [y EXCEPT !.req = r] /\ ((r = "admin") = (e.cmd = "pause"))
      BY <2>4, <3>1, <3>5, <3>6
    <3>3. x.link = y.link /\ x.req = r /\ x.staged = y.staged /\ x.applying = y.applying /\ x.dosage = y.dosage
      BY <1>2, <3>2 DEF ClT
    <3>7. x.req # "stop" /\ ((x.req = "admin") = Paused(y, ctlLink[k].wire))
      BY <2>2, <2>4, <3>2, <3>3 DEF Paused
    <3>8. x.staged = Staged(y, ctlLink[k].wire)
      BY <2>2, <2>4, <3>3 DEF Staged
    <3>9. Done(y, ctlLink[k].wire) => x.applying \/ x.dosage = x.staged
      BY <2>2, <2>4, <3>3 DEF Done
    <3> QED
      BY <2>4, <3>3, <3>7, <3>8, <3>9
  <2>5. CASE y.req # "stop" /\ e.cmd = "config"
    <3>1. x = [y EXCEPT !.staged = e.n]
      BY <1>7, <2>5 DEF Obey
    <3>2. x.link = y.link /\ x.req = y.req /\ x.staged = e.n
      BY <1>2, <3>1 DEF ClT
    <3> QED
      BY <2>2, <2>5, <3>2 DEF Paused, Staged, Done
  <2>6. CASE y.req # "stop" /\ e.cmd = "configApply"
    <3>1. x = [y EXCEPT !.applying = TRUE]
      BY <1>7, <2>6 DEF Obey
    <3>2. x.link = y.link /\ x.req = y.req /\ x.staged = y.staged /\ x.applying = TRUE
      BY <1>2, <3>1 DEF ClT
    <3> QED
      BY <2>2, <2>6, <3>2 DEF Paused, Staged, Done
  <2>7. CASE y.req # "stop" /\ e.cmd \notin {"pause", "resume", "config", "configApply"}
    <3>1. x = y
      BY <1>7, <2>7, Zenon DEF Obey
    <3> QED
      BY <2>2, <2>7, <3>1 DEF Paused, Staged, Done
  <2> QED
    BY <2>3, <2>4, <2>5, <2>6, <2>7
<1>9. /\ ctlLink'[k] = l /\ \A j \in Link : j # k => ctlLink'[j] = ctlLink[j]
      /\ cl'[c] = x /\ \A d \in CtlClient : d # c => cl'[d] = cl[d]
  BY <1>1, <1>2, <1>3, <1>5, <1>7 DEF TInv, CInv, TypesOK
<1>10. \A d \in CtlClient : d # c => cl[d].link # k
  BY <1>1, <1>2 DEF TInv, LinkageOK
<1>11. LinkageOK'
  <2>1. ctlLink[k].pc \notin Quiet
    BY <1>1, <1>2 DEF TInv, LinkageOK
  <2>2. \A d \in CtlClient : cl'[d].link = cl[d].link /\ (cl[d].link # 0 => cl[d].link \in Link)
    BY <1>8, <1>9, Bounds DEF TInv, CInv, TypesOK, ClT, Link
  <2> QED
    BY <1>6, <1>9, <2>1, <2>2 DEF TInv, LinkageOK
<1>12. ASSUME cl[c].req # "stop" PROVE Told(c)'
  <2>1. CurrentSlot(c)' = CurrentSlot(c) /\ CurWire(c)' = w /\ CurWire(c) = ctlLink[k].wire
    BY <1>1, <1>6, <1>8, <1>9 DEF CurrentSlot, CurWire
  <2>2. CurQueue(c)' = CurQueue(c)
    BY <1>1, <2>1 DEF CurQueue
  <2>3. \A cmd : ~ Has(w, cmd)
    BY <1>4 DEF Has
  <2>4. /\ Paused(x, w) = (x.req = "admin") /\ Staged(x, w) = x.staged
        /\ Done(x, w) = (x.applying \/ x.dosage = x.staged)
    BY <2>3, <1>2, <1>7, ObeyType DEF Paused, Staged, Done, ClT
  <2>5. /\ Paused(cl[c], CurWire(c))' = Paused(cl[c], CurWire(c))
        /\ Staged(cl[c], CurWire(c))' = Staged(cl[c], CurWire(c))
        /\ Done(cl[c], CurWire(c)) => Done(cl[c], CurWire(c))'
    BY <1>8, <1>9, <1>12, <2>1, <2>4
  <2> QED
    BY <1>1, <1>12, <2>1, <2>2, <2>5, StaysTold DEF TInv
<1>13. ASSUME cl[c].req = "stop" PROVE Told(c)'
  BY <1>8, <1>9, <1>13 DEF Told
<1> HIDE DEF k, e, v
<1>14. ASSUME NEW d \in CtlClient, d # c PROVE Told(d)'
  BY <1>1, <1>9, <1>10, <1>14, OtherClients
<1> QED
  BY <1>11, <1>12, <1>13, <1>14

\* What a client does without its connection.
LEMMA AloneTold ==
  ASSUME TInv, NEW c \in CtlClient, ForksRestarted(c) \/ Work(c) \/ StopClient(c)
  PROVE  LinkageOK' /\ \A d \in CtlClient : Told(d)'
<1>1. PICK x :
        /\ cl' = [cl EXCEPT ![c] = x] /\ x.link = cl[c].link
        /\ \/ x.req = "stop"
           \/ /\ x.req = cl[c].req /\ x.staged = cl[c].staged
              /\ x.applying = cl[c].applying /\ x.dosage = cl[c].dosage
           \/ x.req = cl[c].req /\ x.staged = cl[c].staged /\ x.dosage = x.staged
  <2>1. cl \in [CtlClient -> ClT] /\ cl[c] \in ClT
    BY DEF TInv, CInv, TypesOK
  <2>2. CASE ForksRestarted(c)
    <3>1. PICK x : x = [cl[c] EXCEPT !.applying = FALSE, !.dosage = cl[c].staged, !.checked = 0]
      OBVIOUS
    <3>2. cl' = [cl EXCEPT ![c] = x]
      BY <2>1, <2>2, <3>1 DEF ForksRestarted
    <3>3. x.link = cl[c].link /\ x.req = cl[c].req /\ x.staged = cl[c].staged /\ x.dosage = x.staged
      BY <2>1, <3>1 DEF ClT
    <3> QED
      BY <3>2, <3>3
  <2>3. CASE Work(c)
    <3>1. PICK x : x = [cl[c] EXCEPT !.checked = @ + 1]
      OBVIOUS
    <3>2. cl' = [cl EXCEPT ![c] = x]
      BY <2>3, <3>1 DEF Work
    <3>3. /\ x.link = cl[c].link /\ x.req = cl[c].req /\ x.staged = cl[c].staged
          /\ x.applying = cl[c].applying /\ x.dosage = cl[c].dosage
      BY <2>1, <3>1 DEF ClT
    <3> QED
      BY <3>2, <3>3
  <2>4. CASE StopClient(c)
    <3>1. PICK x : x = [cl[c] EXCEPT !.req = "stop"]
      OBVIOUS
    <3>2. cl' = [cl EXCEPT ![c] = x]
      BY <2>4, <3>1 DEF StopClient
    <3>3. x.link = cl[c].link /\ x.req = "stop"
      BY <2>1, <3>1 DEF ClT
    <3> QED
      BY <3>2, <3>3
  <2> QED
    BY <2>2, <2>3, <2>4
<1>2. UNCHANGED <<ctlSet, reg, ctlLink, ctlHist>>
  BY DEF ForksRestarted, Work, StopClient
<1>3. cl'[c] = x /\ \A d \in CtlClient : d # c => cl'[d] = cl[d]
  BY <1>1 DEF TInv, CInv, TypesOK
<1>4. LinkageOK'
  BY <1>1, <1>2, <1>3 DEF TInv, LinkageOK
<1>5. \A d \in CtlClient : CurrentSlot(d)' = CurrentSlot(d) /\ CurWire(d)' = CurWire(d) /\ CurQueue(d)' = CurQueue(d)
  BY <1>1, <1>2, <1>3 DEF CurrentSlot, CurWire, CurQueue
<1>6. Told(c)'
  <2>1. CASE x.req = "stop"
    BY <1>3, <2>1 DEF Told
  <2>2. ASSUME x.req = cl[c].req, x.staged = cl[c].staged,
               (x.applying = cl[c].applying /\ x.dosage = cl[c].dosage) \/ x.dosage = x.staged
        PROVE  Told(c)'
    <3>1. \A w : /\ Paused(x, w) = Paused(cl[c], w) /\ Staged(x, w) = Staged(cl[c], w)
                 /\ Done(cl[c], w) => Done(x, w)
      BY <2>2 DEF Paused, Staged, Done
    <3>2. /\ Paused(cl[c], CurWire(c))' = Paused(x, CurWire(c))
          /\ Staged(cl[c], CurWire(c))' = Staged(x, CurWire(c))
          /\ Done(cl[c], CurWire(c))' = Done(x, CurWire(c))
      BY <1>3, <1>5
    <3>3. cl'[c].req = cl[c].req
      BY <1>3, <2>2
    <3> QED
      BY <1>2, <1>5, <3>1, <3>2, <3>3, StaysTold DEF TInv
  <2> QED
    BY <1>1, <2>1, <2>2
<1>7. ASSUME NEW d \in CtlClient, d # c PROVE Told(d)'
  BY <1>2, <1>3, <1>5, <1>7, StaysTold DEF TInv
<1> QED
  BY <1>4, <1>6, <1>7

-----------------------------------------------------------------------------
(* The operator, the automatic policy, a new process of the server.        *)

LEMMA RestartTold ==
  ASSUME TInv, ServerRestart
  PROVE  LinkageOK' /\ \A c \in CtlClient : Told(c)'
<1>1. /\ UNCHANGED cl
      /\ ctlLink' = [k \in Link |-> IF ctlLink[k].pc = "none" THEN NoLink ELSE ServerEnds(ctlLink[k])]
  BY DEF ServerRestart
<1>2. \A k \in Link : /\ ctlLink'[k].slot = 0 /\ ctlLink'[k].pc \notin Quiet
                      /\ ctlLink[k].cOpen /\ ctlLink[k].pc # "none" =>
                           /\ ctlLink'[k].client = ctlLink[k].client /\ ctlLink'[k].cOpen
                           /\ ctlLink'[k].pc # "none"
  <2> SUFFICES ASSUME NEW k \in Link
               PROVE  /\ ctlLink'[k].slot = 0 /\ ctlLink'[k].pc \notin Quiet
                      /\ ctlLink[k].cOpen /\ ctlLink[k].pc # "none" =>
                           /\ ctlLink'[k].client = ctlLink[k].client /\ ctlLink'[k].cOpen
                           /\ ctlLink'[k].pc # "none"
    OBVIOUS
  <2>1. CASE ctlLink[k].pc = "none"
    BY <1>1, <2>1, FrameTypes DEF Quiet
  <2>2. CASE ctlLink[k].pc # "none"
    <3>1. ctlLink[k] \in LinkT /\ ctlLink[k].wire.e.to \in {NoClient, ctlLink[k].client}
      BY LinkFacts DEF TInv, LinkOK
    <3>2. ctlLink'[k] = ServerEnds(ctlLink[k])
      BY <1>1, <2>2
    <3>3. ctlLink'[k].slot = 0 /\ ctlLink'[k].pc = "gone"
      BY <3>1, <3>2, EndedLink
    <3>4. ctlLink[k].cOpen => ctlLink'[k].client = ctlLink[k].client /\ ctlLink'[k].cOpen
      BY <3>1, <3>2 DEF ServerEnds, LinkT
    <3> QED
      BY <3>3, <3>4 DEF Quiet
  <2> QED
    BY <2>1, <2>2
<1>3. \A c \in CtlClient : cl[c].link # 0 => cl[c].link \in Link
  BY Bounds DEF TInv, CInv, TypesOK, ClT, Link
<1>4. LinkageOK'
  BY <1>1, <1>2, <1>3 DEF TInv, LinkageOK
<1>5. \A c \in CtlClient : CurrentSlot(c)' = 0
  BY <1>1, <1>2, <1>3 DEF CurrentSlot
<1> QED
  BY <1>4, <1>5 DEF Told

\* What an order has to do for each client of a session, q being its queue afterwards.
LEMMA OrderTold ==
  ASSUME TInv, UNCHANGED <<ctlSet, ctlLink, cl>>, NEW c \in CtlClient, NEW q,
         CurrentSlot(c) # 0 => q = reg'.slot[CurrentSlot(c)].queue,
         CurrentSlot(c) # 0 /\ c \notin ctlHist'.pauseAmiss =>
           \A v \in BOOLEAN : c \in ctlHist.pauseAmiss \/ PausedAfter(CurQueue(c), v, reg.pause)
                                => PausedAfter(q, v, reg'.pause),
         CurrentSlot(c) # 0 /\ c \notin ctlHist'.roleAmiss =>
           \A st, d : c \in ctlHist.roleAmiss \/ DosedAfter(CurQueue(c), st, d, reg.roles[MachineOf(c)])
                        => DosedAfter(q, st, d, reg'.roles[MachineOf(c)])
  PROVE  Told(c)'
<1>1. CurrentSlot(c)' = CurrentSlot(c) /\ CurWire(c)' = CurWire(c) /\ MachineOf(c)' = MachineOf(c)
  BY DEF CurrentSlot, CurWire, MachineOf
<1> SUFFICES ASSUME CurrentSlot(c) # 0, cl[c].req # "stop"
             PROVE  /\ c \in ctlHist'.pauseAmiss \/ PauseTold(c)'
                    /\ c \in ctlHist'.roleAmiss \/ RoleTold(c)'
  BY <1>1 DEF Told
<1>2. CurQueue(c)' = q
  BY <1>1 DEF CurQueue
<1>3. /\ c \in ctlHist.pauseAmiss \/ PauseTold(c)
      /\ c \in ctlHist.roleAmiss \/ RoleTold(c)
  BY DEF TInv, Told
<1>4. c \in ctlHist'.pauseAmiss \/ PauseTold(c)'
  <2>1. Paused(cl[c], CurWire(c)) \in BOOLEAN
    BY DEF Paused, Has
  <2> QED
    BY <1>1, <1>2, <1>3, <2>1 DEF PauseTold
<1>5. c \in ctlHist'.roleAmiss \/ RoleTold(c)'
  BY <1>1, <1>2, <1>3 DEF RoleTold
<1> QED
  BY <1>4, <1>5

LEMMA ToAllTold ==
  ASSUME TInv, NEW cmd \in {"pause", "resume", "stats"}, ToAll(cmd)
  PROVE  LinkageOK' /\ \A c \in CtlClient : Told(c)'
<1>1. /\ reg' = control_registry_broadcast_command(reg, cmd) /\ UNCHANGED <<ctlSet, ctlLink, cl>>
      /\ ctlHist' = IF cmd = "stats" THEN ctlHist
                    ELSE [ctlHist EXCEPT !.pauseAmiss = (@ \ Served(reg)) \cup Refused(reg, 1)]
  BY DEF ToAll, ByOperator
<1>2. reg \in RegT /\ ctlHist \in HistT
  BY InvTypes DEF TInv
<1>3. /\ ctlHist'.roleAmiss = ctlHist.roleAmiss
      /\ cmd = "stats" => ctlHist'.pauseAmiss = ctlHist.pauseAmiss
      /\ cmd # "stats" => ctlHist'.pauseAmiss = (ctlHist.pauseAmiss \ Served(reg)) \cup Refused(reg, 1)
  BY <1>1, <1>2 DEF HistT
<1>4. PICK e \in EntryT : e = CtlEntry(cmd, 0, NoClient) /\ e.cmd = cmd
  <2>1. CtlEntry(cmd, 0, NoClient) \in EntryT
    BY EntryType DEF AnyClient, Cmds
  <2>2. CtlEntry(cmd, 0, NoClient).cmd = cmd
    BY DEF CtlEntry
  <2> QED
    BY <2>1, <2>2
<1>5. /\ reg'.roles = reg.roles
      /\ reg'.pause = (IF cmd = "stats" THEN reg.pause ELSE cmd = "pause")
      /\ \A i \in CtlSlot : reg'.slot[i].queue = IF Postable(reg, i) THEN Append(reg.slot[i].queue, e)
                                                ELSE reg.slot[i].queue
  <2>1. PICK slot : slot = [i \in CtlSlot |-> IF Postable(reg, i)
                                THEN [reg.slot[i] EXCEPT !.queue = Append(@, e)] ELSE reg.slot[i]]
    OBVIOUS
  <2>2. PICK pause : pause = CASE cmd = "pause" -> TRUE [] cmd = "resume" -> FALSE [] OTHER -> reg.pause
    OBVIOUS
  <2>3. reg' = [reg EXCEPT !.pause = pause, !.slot = slot]
    BY <1>1, <1>4, <2>1, <2>2 DEF control_registry_broadcast_command
  <2>4. reg'.roles = reg.roles /\ reg'.pause = pause /\ reg'.slot = slot
    BY <1>2, <2>3 DEF RegT
  <2>5. pause = IF cmd = "stats" THEN reg.pause ELSE cmd = "pause"
    BY <2>2
  <2>6. \A i \in CtlSlot : reg.slot[i] \in SlotT
    BY <1>2 DEF RegT
  <2> QED
    BY <2>1, <2>4, <2>5, <2>6 DEF SlotT
<1>6. LinkageOK'
  BY <1>1 DEF TInv, LinkageOK
<1>7. ASSUME NEW c \in CtlClient PROVE Told(c)'
  <2> DEFINE i == CurrentSlot(c)
             q == reg.slot[i].queue
  <2>1. PICK t : t = reg'.slot[i].queue
    OBVIOUS
  <2>2. ASSUME i # 0
        PROVE  /\ i \in CtlSlot /\ q \in Seq(EntryT) /\ Len(q) \in Nat /\ c \in Served(reg)
               /\ c \notin Refused(reg, 1) => Postable(reg, i)
               /\ t = IF Postable(reg, i) THEN Append(q, e) ELSE q
    <3>1. i \in CtlSlot /\ q \in Seq(EntryT) /\ c \in Served(reg) /\ i \in InUse(reg)
      BY <2>2, Current DEF TInv, CurQueue
    <3>2. Len(q) \in Nat
      BY <3>1
    <3>3. c \notin Refused(reg, 1) => Len(q) < QueueCap
      BY <3>1, <3>2, Bounds DEF Refused
    <3> QED
      BY <1>5, <2>1, <3>1, <3>2, <3>3 DEF Postable, InUse
  <2>3. ASSUME i # 0, c \notin ctlHist'.pauseAmiss, NEW v \in BOOLEAN,
               c \in ctlHist.pauseAmiss \/ PausedAfter(q, v, reg.pause)
        PROVE  PausedAfter(t, v, reg'.pause)
    <3>1. reg.pause \in BOOLEAN
      BY <1>2 DEF RegT
    <3>2. CASE cmd = "stats"
      <4>1. PausedAfter(q, v, reg.pause) /\ reg'.pause = reg.pause
        BY <1>3, <1>5, <2>3, <3>2
      <4>2. ~ PauseCmd(e)
        BY <1>4, <3>2 DEF PauseCmd
      <4> QED
        BY <2>2, <2>3, <3>1, <4>1, <4>2, PauseAppended
    <3>3. CASE cmd # "stats"
      <4>1. t = Append(q, e) /\ q \in Seq(EntryT)
        BY <1>3, <2>2, <2>3, <3>3
      <4>2. reg'.pause = (cmd = "pause")
        BY <1>5, <3>3
      <4>3. CASE cmd = "pause"
        <5>1. reg'.pause = TRUE
          BY <4>2, <4>3
        <5> QED
          BY <1>4, <4>1, <4>3, <5>1, PauseAppended
      <4>4. CASE cmd = "resume"
        <5>1. reg'.pause = FALSE
          BY <4>2, <4>4
        <5> QED
          BY <1>4, <4>1, <4>4, <5>1, PauseAppended
      <4> QED
        BY <3>3, <4>3, <4>4
    <3> QED
      BY <3>2, <3>3
  <2>4. ASSUME i # 0, c \notin ctlHist'.roleAmiss, NEW st, NEW d,
               c \in ctlHist.roleAmiss \/ DosedAfter(q, st, d, reg.roles[MachineOf(c)])
        PROVE  DosedAfter(t, st, d, reg'.roles[MachineOf(c)])
    <3>1. DosedAfter(q, st, d, reg.roles[MachineOf(c)]) /\ e.cmd # "config"
      BY <1>3, <1>4, <2>4
    <3>2. q \in Seq(EntryT) /\ (t = q \/ t = Append(q, e)) /\ reg'.roles = reg.roles
      BY <1>5, <2>2, <2>4
    <3> HIDE DEF q, i
    <3>3. DosedAfter(t, st, d, reg.roles[MachineOf(c)])
      BY <3>1, <3>2, DoseAppended
    <3> QED
      BY <3>2, <3>3
  <2>5. CurQueue(c) = q
    BY DEF CurQueue
  <2> HIDE DEF i, q
  <2> QED
    BY <1>1, <2>1, <2>3, <2>4, <2>5, OrderTold DEF i
<1> QED
  BY <1>6, <1>7

\* An order to one session; its client is no longer covered.
LEMMA SendToTold ==
  ASSUME TInv, NEW t \in Targets, NEW cmd \in {"pause", "resume"}, SendTo(t, cmd)
  PROVE  LinkageOK' /\ \A c \in CtlClient : Told(c)'
<1> DEFINE hit == {reg.slot[i].client : i \in Matches(reg, t)}
<1>1. /\ UNCHANGED <<ctlSet, ctlLink, cl>>
      /\ reg' = control_registry_send_command_to(reg, t, CtlEntry(cmd, 0, Meant(t, reg)))
      /\ ctlHist' = [ctlHist EXCEPT !.pauseAmiss = @ \cup hit]
  BY DEF SendTo, ByOperator
<1>2. reg \in RegT /\ ctlHist \in HistT /\ \A i \in CtlSlot : reg.slot[i] \in SlotT
  BY InvTypes DEF TInv
<1>3. ctlHist'.roleAmiss = ctlHist.roleAmiss /\ ctlHist'.pauseAmiss = ctlHist.pauseAmiss \cup hit
  BY <1>1, <1>2 DEF HistT
\* At most one queue has grown, of a session that matches.
<1>4. /\ reg'.pause = reg.pause /\ reg'.roles = reg.roles
      /\ \A i \in CtlSlot :
           \/ reg'.slot[i].queue = reg.slot[i].queue
           \/ /\ i \in Matches(reg, t)
              /\ \E e \in EntryT : e.cmd = cmd /\ reg'.slot[i].queue = Append(reg.slot[i].queue, e)
  <2>1. CASE reg' = reg
    BY <2>1
  <2>2. CASE reg' # reg
    <3>1. Cardinality(Matches(reg, t)) = 1
      BY <1>1, <2>2 DEF control_registry_send_command_to
    <3>2. PICK x \in InUse(reg) : /\ Matches(reg, t) = {x} /\ Min(Matches(reg, t)) = x
                                  /\ Meant(t, reg) = reg.slot[x].client
      BY <3>1, OneMatch DEF TInv
    <3>3. x \in CtlSlot /\ reg.slot[x] \in SlotT /\ reg.slot[x].client \in AnyClient
      BY <1>2 DEF InUse, SlotT
    <3>4. PICK e \in EntryT : e = CtlEntry(cmd, 0, Meant(t, reg)) /\ e.cmd = cmd
      <4>1. CtlEntry(cmd, 0, Meant(t, reg)) \in EntryT
        BY <3>2, <3>3, EntryType DEF Cmds
      <4>2. CtlEntry(cmd, 0, Meant(t, reg)).cmd = cmd
        BY DEF CtlEntry
      <4> QED
        BY <4>1, <4>2
    <3>5. reg' = control_registry_post_command(reg, x, e)
      BY <1>1, <3>1, <3>2, <3>4 DEF control_registry_send_command_to
    <3>6. reg' = [reg EXCEPT !.slot[x].queue = Append(@, e)]
      BY <2>2, <3>5 DEF control_registry_post_command
    <3>7. PICK s : s = [reg.slot[x] EXCEPT !.queue = Append(reg.slot[x].queue, e)]
      OBVIOUS
    <3>8. s.queue = Append(reg.slot[x].queue, e)
      BY <3>3, <3>7 DEF SlotT
    <3>9. reg' = [reg EXCEPT !.slot[x] = s]
      BY <3>6, <3>7
    <3>10. /\ reg'.pause = reg.pause /\ reg'.roles = reg.roles /\ reg'.slot[x] = s
           /\ \A i \in CtlSlot : i # x => reg'.slot[i] = reg.slot[i]
      BY <1>2, <3>3, <3>9 DEF RegT
    <3> QED
      BY <3>2, <3>4, <3>8, <3>10
  <2> QED
    BY <2>1, <2>2
<1>5. LinkageOK'
  BY <1>1 DEF TInv, LinkageOK
<1>6. ASSUME NEW c \in CtlClient PROVE Told(c)'
  <2> DEFINE i == CurrentSlot(c)
             q == reg.slot[i].queue
  <2>1. PICK s : s = reg'.slot[i].queue
    OBVIOUS
  <2>2. i # 0 => i \in CtlSlot /\ q \in Seq(EntryT) /\ reg.slot[i].client = c
    BY Current DEF TInv, CurQueue
  <2>3. ASSUME i # 0, c \notin ctlHist'.pauseAmiss, NEW v \in BOOLEAN,
               c \in ctlHist.pauseAmiss \/ PausedAfter(q, v, reg.pause)
        PROVE  PausedAfter(s, v, reg'.pause)
    <3>1. i \notin Matches(reg, t) /\ c \notin ctlHist.pauseAmiss
      BY <1>3, <2>2, <2>3
    <3>2. s = q
      BY <1>4, <2>1, <2>2, <2>3, <3>1
    <3> QED
      BY <1>4, <2>3, <3>1, <3>2
  <2>4. ASSUME i # 0, c \notin ctlHist'.roleAmiss, NEW st, NEW d,
               c \in ctlHist.roleAmiss \/ DosedAfter(q, st, d, reg.roles[MachineOf(c)])
        PROVE  DosedAfter(s, st, d, reg'.roles[MachineOf(c)])
    <3>1. DosedAfter(q, st, d, reg.roles[MachineOf(c)]) /\ reg'.roles = reg.roles
      BY <1>3, <1>4, <2>4
    <3>2. s = q \/ \E e \in EntryT : e.cmd # "config" /\ s = Append(q, e)
      BY <1>4, <2>1, <2>2, <2>4
    <3> QED
      BY <2>2, <2>4, <3>1, <3>2, DoseAppended
  <2>5. CurQueue(c) = q
    BY DEF CurQueue
  <2> HIDE DEF i, q
  <2> QED
    BY <1>1, <2>1, <2>3, <2>4, <2>5, OrderTold DEF i
<1> QED
  BY <1>5, <1>6

\* A dosage for the sessions S.
LEMMA DosageTold ==
  ASSUME TInv, NEW S \in SUBSET InUse(reg), NEW n \in Int, UNCHANGED <<ctlSet, ctlLink, cl>>,
         ctlHist' = AmissAfter(S), reg'.pause = reg.pause,
         reg'.roles = desired_role_set(reg, Dosed(reg, S), n),
         reg'.slot = [i \in CtlSlot |-> IF i \in S THEN DosePosted(reg.slot[i], n) ELSE reg.slot[i]]
  PROVE  LinkageOK' /\ \A c \in CtlClient : Told(c)'
<1> DEFINE told == {c \in Served(reg) : CurrentSlot(c) \in S} \ Refused(reg, 2)
           machines == {MachineOf(reg.slot[i].client) : i \in S}
<1>1. reg \in RegT /\ ctlHist \in HistT /\ \A i \in CtlSlot : reg.slot[i] \in SlotT /\ QueueOK(reg.slot[i])
  BY InvTypes DEF TInv
<1>2. /\ ctlHist'.pauseAmiss = ctlHist.pauseAmiss
      /\ ctlHist'.roleAmiss = (ctlHist.roleAmiss \ told) \cup {c \in Served(reg) \ told : MachineOf(c) \in machines}
  BY <1>1 DEF AmissAfter, HistT
<1>3. LinkageOK'
  BY DEF TInv, LinkageOK
<1>4. ASSUME NEW c \in CtlClient PROVE Told(c)'
  <2> DEFINE i == CurrentSlot(c)
             q == reg.slot[i].queue
             m == MachineOf(c)
  <2>1. PICK s : s = reg'.slot[i].queue
    OBVIOUS
  <2>2. ASSUME i # 0
        PROVE  /\ i \in CtlSlot /\ q \in Seq(EntryT) /\ Len(q) \in Nat /\ c \in Served(reg)
               /\ reg.slot[i].client = c /\ reg.slot[i] \in SlotT /\ QueueOK(reg.slot[i])
               /\ s = IF i \in S THEN DosePosted(reg.slot[i], n).queue ELSE q
    <3>1. /\ i \in CtlSlot /\ q \in Seq(EntryT) /\ c \in Served(reg)
          /\ reg.slot[i].client = c
      BY <2>2, Current DEF TInv, CurQueue
    <3>2. Len(q) \in Nat
      BY <3>1
    <3> QED
      BY <1>1, <2>1, <3>1, <3>2
  <2>3. m \in Machine
    BY ControlAssumption DEF TInv, CInv, TypesOK, MachineOf
  <2>4. ASSUME i # 0, c \notin ctlHist'.pauseAmiss, NEW v \in BOOLEAN,
               c \in ctlHist.pauseAmiss \/ PausedAfter(q, v, reg.pause)
        PROVE  PausedAfter(s, v, reg'.pause)
    <3>1. PausedAfter(q, v, reg.pause) /\ reg.pause \in BOOLEAN
      BY <1>1, <1>2, <2>4 DEF RegT
    <3>2. CASE i \in S
      <4>1. PausedAfter(DosePosted(reg.slot[i], n).queue, v, reg.pause)
        BY <2>2, <2>4, <3>1, DoseKeepsPause
      <4> QED
        BY <2>2, <2>4, <3>2, <4>1
    <3>3. CASE i \notin S
      BY <2>2, <2>4, <3>1, <3>3
    <3> QED
      BY <3>2, <3>3
  <2>5. ASSUME i # 0, c \notin ctlHist'.roleAmiss, NEW st, NEW d,
               c \in ctlHist.roleAmiss \/ DosedAfter(q, st, d, reg.roles[m])
        PROVE  DosedAfter(s, st, d, reg'.roles[m])
    <3> DEFINE of == {x \in Dosed(reg, S) : MachineOf(reg.slot[x].client) = m}
    <3>1. CASE c \in told
      <4>1. i \in S /\ Len(q) + 2 <= QueueCap
        BY <2>2, <2>5, <3>1, Bounds DEF Refused
      <4>2. i \in of
        BY <2>2, <2>5, <4>1 DEF Dosed
      <4>3. reg'.roles[m] = n \/ (reg'.roles[m] = reg.roles[m] /\ reg.roles[m] = NoRole)
        BY <2>3, <4>2 DEF desired_role_set
      <4>4. DosedAfter(DosePosted(reg.slot[i], n).queue, st, d, n)
        BY <2>2, <2>5, <4>1, DoseKeepsPause
      <4>5. s = DosePosted(reg.slot[i], n).queue
        BY <2>2, <2>5, <4>1
      <4>6. CASE reg'.roles[m] = n
        BY <4>4, <4>5, <4>6
      <4>7. CASE reg'.roles[m] = NoRole
        BY <4>7 DEF DosedAfter
      <4> QED
        BY <4>3, <4>6, <4>7
    <3>2. CASE c \notin told
      <4>1. c \notin ctlHist.roleAmiss /\ m \notin machines
        BY <1>2, <2>2, <2>5, <3>2
      <4>2. of = {}
        BY <4>1 DEF Dosed
      <4>3. reg'.roles[m] = reg.roles[m]
        BY <2>3, <4>2 DEF desired_role_set
      <4>4. i \notin S
        BY <2>2, <2>5, <4>1
      <4>5. s = q
        BY <2>2, <2>5, <4>4
      <4> QED
        BY <2>5, <4>1, <4>3, <4>5
    <3> QED
      BY <3>1, <3>2
  <2>6. CurQueue(c) = q
    BY DEF CurQueue
  <2> HIDE DEF i, q, m
  <2> QED
    BY <2>1, <2>4, <2>5, <2>6, OrderTold DEF i, m
<1> QED
  BY <1>3, <1>4

LEMMA RolesTold ==
  ASSUME TInv, NEW t \in Targets \cup {[kind |-> "all"]}, NEW n \in 0 .. MaxDosage, Roles(t, n)
  PROVE  LinkageOK' /\ \A c \in CtlClient : Told(c)'
<1>1. PICK S \in SUBSET InUse(reg) :
        reg' = control_registry_apply_role_dosage(reg, S, n) /\ ctlHist' = AmissAfter(S)
  <2>1. Matches(reg, t) \subseteq InUse(reg)
    BY DEF Matches
  <2> QED
    BY <2>1 DEF Roles
<1>2. reg \in RegT
  BY InvTypes DEF TInv
<1>3. /\ reg'.pause = reg.pause /\ reg'.roles = desired_role_set(reg, Dosed(reg, S), n)
      /\ reg'.slot = [i \in CtlSlot |-> IF i \in S THEN DosePosted(reg.slot[i], n) ELSE reg.slot[i]]
  BY <1>1, <1>2 DEF control_registry_apply_role_dosage, RegT
<1> QED
  BY <1>1, <1>3, Bounds, DosageTold DEF Roles, ByOperator

LEMMA AutoRolesTold ==
  ASSUME TInv, NEW need, AutoRoles(need)
  PROVE  LinkageOK' /\ \A c \in CtlClient : Told(c)'
<1> DEFINE d == compute_desired_role_mix(need, count_role_forks(reg, "search"), count_role_forks(reg, "prune"))
           n == Max({0, Min({MaxDosage, reg.dosage + d})})
           r == control_registry_apply_role_dosage(reg, InUse(reg), n)
<1>1. /\ reg' = [r EXCEPT !.dosage = n] /\ ctlHist' = AmissAfter(InUse(reg))
      /\ UNCHANGED <<ctlSet, ctlLink, cl>>
  BY DEF AutoRoles, ByOperator
<1>2. d \in Int
  BY DEF compute_desired_role_mix
<1>3. reg \in RegT /\ reg.dosage \in Int /\ MaxDosage \in Int
  BY InvTypes, Bounds DEF RegT, TInv
<1> HIDE DEF d
<1>4. n \in Int
  <2>1. PICK x \in Int : x = reg.dosage + d
    BY <1>2, <1>3
  <2>2. PICK y \in Int : y = Min({MaxDosage, x})
    BY <1>3, ExtremesAreInts
  <2>3. Max({0, y}) \in Int
    BY ExtremesAreInts
  <2> QED
    BY <2>1, <2>2, <2>3
<1> HIDE DEF n
<1>5. r = [reg EXCEPT !.slot = [i \in CtlSlot |-> IF i \in InUse(reg) THEN DosePosted(reg.slot[i], n) ELSE reg.slot[i]],
                      !.roles = desired_role_set(reg, Dosed(reg, InUse(reg)), n)]
  BY DEF control_registry_apply_role_dosage
<1>6. /\ reg'.pause = reg.pause /\ reg'.roles = desired_role_set(reg, Dosed(reg, InUse(reg)), n)
      /\ reg'.slot = [i \in CtlSlot |-> IF i \in InUse(reg) THEN DosePosted(reg.slot[i], n) ELSE reg.slot[i]]
  BY <1>1, <1>3, <1>5 DEF RegT
<1> QED
  BY <1>1, <1>4, <1>6, DosageTold

LEMMA OperatorTold == ASSUME TInv, OperatorStep PROVE LinkageOK' /\ \A c \in CtlClient : Told(c)'
<1>1. CASE SaveKnown \/ RestoreKnown
  <2>1. UNCHANGED <<ctlSet, reg, ctlLink, cl, ctlHist>>
    BY <1>1 DEF SaveKnown, RestoreKnown
  <2>2. LinkageOK'
    BY <2>1 DEF TInv, LinkageOK
  <2>3. ASSUME NEW c \in CtlClient PROVE Told(c)'
    BY <2>1 DEF TInv, Told, CurrentSlot, PauseTold, RoleTold, CurQueue, CurWire, MachineOf
  <2> QED
    BY <2>2, <2>3
<1> QED
  BY <1>1, ToAllTold, SendToTold, RolesTold, AutoRolesTold, RestartTold DEF OperatorStep

\* The desired state reaches every client it is promised to, whatever the order of
\* its connections, of the orders and of their losses (control_registry_register,
\* control_registry_broadcast_command, control_registry_apply_role_dosage).
THEOREM ClientsAsWanted == CtlSpec => []DesiredStateReached
<1>1. CtlInit => TInv
  <2> SUFFICES ASSUME CtlInit PROVE TInv
    OBVIOUS
  <2>1. \A c \in CtlClient : cl[c].link = 0
    BY DEF CtlInit, Down
  <2>2. LinkageOK
    BY <2>1, FrameTypes DEF CtlInit, LinkageOK, Quiet
  <2>3. \A c \in CtlClient : Told(c)
    BY <2>1 DEF Told, CurrentSlot
  <2> QED
    BY <2>2, <2>3, InitOK DEF TInv
<1>2. ASSUME TInv, [CtlNext]_ctlVars PROVE TInv'
  <2>1. CInv'
    <3>1. CASE CtlNext
      BY <1>2, <3>1, ClientKeeps, ServerKeeps, OperatorKeeps DEF CtlNext, TInv
    <3>2. CASE UNCHANGED ctlVars
      BY <1>2, <3>2, ClientOnly DEF ctlVars, CInv, TypesOK, TInv
    <3> QED
      BY <1>2, <3>1, <3>2
  <2>2. ASSUME NEW c \in CtlClient, CtlClientStep(c) PROVE TInv'
    BY <1>2, <2>1, <2>2, ConnectTold, GiveUpTold, ServeFrameTold, AloneTold DEF CtlClientStep, TInv
  <2>3. ASSUME NEW k \in Link, ServerStep(k) PROVE TInv'
    BY <1>2, <2>1, <2>3, HelloTold, SamePlaceTold, DequeueTold, AutoStatsTold, ReplyTold, LeaveTold
       DEF ServerStep, TInv
  <2>4. CASE OperatorStep
    BY <1>2, <2>1, <2>4, OperatorTold DEF TInv
  <2>5. CASE UNCHANGED ctlVars
    <3>1. LinkageOK'
      BY <1>2, <2>5 DEF TInv, LinkageOK, ctlVars
    <3>2. ASSUME NEW c \in CtlClient PROVE Told(c)'
      BY <1>2, <2>5 DEF TInv, Told, CurrentSlot, PauseTold, RoleTold, CurQueue, CurWire, MachineOf, ctlVars
    <3> QED
      BY <2>1, <3>1, <3>2 DEF TInv
  <2> QED
    BY <1>2, <2>2, <2>3, <2>4, <2>5 DEF CtlNext
<1>3. TInv => DesiredStateReached
  <2> SUFFICES ASSUME TInv, NEW c \in CtlClient, Settled(c)
               PROVE  /\ c \notin ctlHist.pauseAmiss => (cl[c].req = "admin" <=> reg.pause)
                      /\ c \notin ctlHist.roleAmiss /\ reg.roles[MachineOf(c)] # NoRole
                           => cl[c].dosage = reg.roles[MachineOf(c)]
    BY DEF DesiredStateReached, DesiredPauseReached, RoleReached
  <2>1. CurrentSlot(c) # 0 /\ cl[c].req # "stop" /\ ~ cl[c].applying /\ CurQueue(c) = <<>>
    BY DEF Settled, CurQueue
  <2>2. CurWire(c).is = "none"
    BY <2>1, Current DEF Settled, TInv, LinkageOK, Quiet, CurWire
  <2>3. \A cmd : ~ Has(CurWire(c), cmd)
    BY <2>2 DEF Has
  <2>4. Len(CurQueue(c)) = 0
    BY <2>1
  <2>5. ASSUME c \notin ctlHist.pauseAmiss PROVE cl[c].req = "admin" <=> reg.pause
    <3>1. PausedAfter(CurQueue(c), Paused(cl[c], CurWire(c)), reg.pause)
      BY <2>1, <2>5 DEF TInv, Told, PauseTold
    <3>2. Paused(cl[c], CurWire(c)) = reg.pause
      BY <2>4, <3>1 DEF PausedAfter
    <3> QED
      BY <2>3, <3>2 DEF Paused
  <2>6. ASSUME c \notin ctlHist.roleAmiss, reg.roles[MachineOf(c)] # NoRole
        PROVE  cl[c].dosage = reg.roles[MachineOf(c)]
    <3>1. RoleTold(c)
      BY <2>1, <2>6 DEF TInv, Told
    <3>2. Staged(cl[c], CurWire(c)) = reg.roles[MachineOf(c)] /\ Done(cl[c], CurWire(c))
      BY <2>4, <2>6, <3>1 DEF RoleTold, DosedAfter
    <3> QED
      BY <2>1, <2>3, <3>2 DEF Staged, Done
  <2> QED
    BY <2>5, <2>6
<1> QED
  BY <1>1, <1>2, <1>3, PTL DEF CtlSpec
-----------------------------------------------------------------------------
(* The register of machines.  What is inductive: an entry counts its        *)
(* sessions, one for each client (EntryOK), so that an entry without a      *)
(* session in use, which may be taken for another machine, has none to      *)
(* lose; and a client that is not counted twice is on one connection at     *)
(* most, which is shown (ShownOK).                                          *)

SessT == [client : CtlClient, last : Int]
KEntryT == [used : BOOLEAN, mode : {"search", "prune"}, sess : SUBSET SessT, active : Int,
            search : Int, prune : Int, total : Int, last_seen : Int]
RecordT == [m : Machine, mode : {"search", "prune"}, total : Int, last_seen : Int]
KnownT == [entry : [Machine -> KEntryT], now : Int]

Playing(S, mode) == {s \in S : Mode[s.client] = mode}
EntryOK(e) ==
  /\ IsFiniteSet(e.sess)
  /\ \A s, t \in e.sess : s.client = t.client => s = t
  /\ e.active = Cardinality(e.sess)
  /\ e.search = Cardinality(Playing(e.sess, "search"))
  /\ e.prune = Cardinality(Playing(e.sess, "prune"))
  /\ ~ e.used => e.sess = {}
KnownOK(kn) == kn \in KnownT /\ IsFiniteSet(Used(kn)) /\ \A m \in Machine : EntryOK(kn.entry[m])

\* A session more.
LEMMA SessionAdded ==
  ASSUME NEW S \in SUBSET SessT, IsFiniteSet(S), NEW s \in SessT, s \notin S, NEW mode
  PROVE  /\ IsFiniteSet(S \cup {s}) /\ Cardinality(S \cup {s}) = Cardinality(S) + 1
         /\ Cardinality(Playing(S \cup {s}, mode))
              = IF Mode[s.client] = mode THEN Cardinality(Playing(S, mode)) + 1 ELSE Cardinality(Playing(S, mode))
         /\ Cardinality(S) \in Int /\ Cardinality(Playing(S, mode)) \in Int
<1>1. IsFiniteSet(Playing(S, mode)) /\ s \notin Playing(S, mode)
  <2>1. Playing(S, mode) \subseteq S BY DEF Playing
  <2> QED BY <2>1, FS_Subset
<1>2. Cardinality(S) \in Int /\ Cardinality(Playing(S, mode)) \in Int BY <1>1, FS_CardinalityType
<1>3. IsFiniteSet(S \cup {s}) /\ Cardinality(S \cup {s}) = Cardinality(S) + 1 BY FS_AddElement
<1>4. CASE Mode[s.client] = mode
  <2>1. Playing(S \cup {s}, mode) = Playing(S, mode) \cup {s} BY <1>4 DEF Playing
  <2>2. Cardinality(Playing(S, mode) \cup {s}) = Cardinality(Playing(S, mode)) + 1 BY <1>1, FS_AddElement
  <2> QED BY <1>2, <1>3, <1>4, <2>1, <2>2
<1>5. CASE Mode[s.client] # mode
  <2>1. Playing(S \cup {s}, mode) = Playing(S, mode) BY <1>5 DEF Playing
  <2> QED BY <1>2, <1>3, <1>5, <2>1
<1> QED BY <1>4, <1>5

\* A session less.
LEMMA SessionRemoved ==
  ASSUME NEW S \in SUBSET SessT, IsFiniteSet(S), NEW s \in S, NEW mode
  PROVE  /\ IsFiniteSet(S \ {s}) /\ Cardinality(S \ {s}) = Cardinality(S) - 1
         /\ Cardinality(Playing(S \ {s}, mode))
              = IF Mode[s.client] = mode THEN Cardinality(Playing(S, mode)) - 1 ELSE Cardinality(Playing(S, mode))
<1> DEFINE R == S \ {s}
<1>1. R \in SUBSET SessT /\ s \in SessT /\ s \notin R /\ S = R \cup {s} OBVIOUS
<1>2. IsFiniteSet(R) BY FS_Subset
<1> HIDE DEF R
<1>3. /\ Cardinality(S) = Cardinality(R) + 1 /\ Cardinality(R) \in Int
      /\ Cardinality(Playing(R, mode)) \in Int
      /\ Cardinality(Playing(S, mode))
           = IF Mode[s.client] = mode THEN Cardinality(Playing(R, mode)) + 1 ELSE Cardinality(Playing(R, mode))
  <2>1. /\ Cardinality(R \cup {s}) = Cardinality(R) + 1
        /\ Cardinality(Playing(R \cup {s}, mode))
             = IF Mode[s.client] = mode THEN Cardinality(Playing(R, mode)) + 1 ELSE Cardinality(Playing(R, mode))
        /\ Cardinality(R) \in Int /\ Cardinality(Playing(R, mode)) \in Int
    <3>1. R \in SUBSET SessT /\ IsFiniteSet(R) /\ s \in SessT /\ s \notin R BY <1>1, <1>2
    <3> QED BY <3>1, SessionAdded, ZenonT(60)
  <2> QED BY <1>1, <2>1
<1>4. IsFiniteSet(R) /\ Cardinality(R) = Cardinality(S) - 1 BY <1>2, <1>3
<1>5. Cardinality(Playing(R, mode))
              = IF Mode[s.client] = mode THEN Cardinality(Playing(S, mode)) - 1 ELSE Cardinality(Playing(S, mode))
  BY <1>3
<1> QED BY <1>4, <1>5 DEF R

\* An empty entry.
LEMMA EmptyEntry ==
  /\ NoEntry \in KEntryT /\ EntryOK(NoEntry)
  /\ [NoEntry EXCEPT !.used = TRUE] \in KEntryT /\ EntryOK([NoEntry EXCEPT !.used = TRUE])
<1>1. Playing({}, "search") = {} /\ Playing({}, "prune") = {} BY DEF Playing
<1>2. IsFiniteSet({}) /\ Cardinality({}) = 0 BY FS_EmptySet
<1>3. ASSUME NEW e, e.sess = {}, e.active = 0, e.search = 0, e.prune = 0 PROVE EntryOK(e)
  BY <1>1, <1>2, <1>3 DEF EntryOK
<1>4. NoEntry \in KEntryT /\ [NoEntry EXCEPT !.used = TRUE] \in KEntryT
  <2>1. {} \in SUBSET SessT OBVIOUS
  <2>2. NoEntry \in KEntryT BY <2>1 DEF NoEntry, KEntryT
  <2>3. [NoEntry EXCEPT !.used = TRUE] \in KEntryT BY <2>2 DEF KEntryT
  <2> QED BY <2>2, <2>3
<1> QED BY <1>3, <1>4 DEF NoEntry

\* An entry with other sessions and another count, or another total.
Counting(e, S, n) == [e EXCEPT !.sess = S, !.active = n]
Adding(e, S, n) == [e EXCEPT !.total = n, !.sess = S]
LEMMA EntryWith ==
  ASSUME NEW e \in KEntryT, NEW S \in SUBSET SessT, NEW n \in Int
  PROVE  /\ Counting(e, S, n) \in KEntryT /\ Adding(e, S, n) \in KEntryT
         /\ Counting(e, S, n).sess = S /\ Adding(e, S, n).sess = S
         /\ Counting(e, S, n).active = n /\ Adding(e, S, n).active = e.active
         /\ Counting(e, S, n).search = e.search /\ Adding(e, S, n).search = e.search
         /\ Counting(e, S, n).prune = e.prune /\ Adding(e, S, n).prune = e.prune
         /\ Counting(e, S, n).used = e.used /\ Adding(e, S, n).used = e.used
BY DEF Counting, Adding, KEntryT

\* A place is found for a machine without the loss of a session.
LEMMA PlaceFound ==
  ASSUME NEW kn, KnownOK(kn), NEW m \in Machine, NEW k \in allocate_machine_slot(kn, m)
  PROVE  /\ KnownOK(k) /\ k.entry[m].used
         /\ \A x \in Machine : k.entry[x].sess = kn.entry[x].sess
<1> DEFINE e == [NoEntry EXCEPT !.used = TRUE]
           new(q) == [q EXCEPT !.entry[m] = e]
<1>0. /\ e \in KEntryT /\ EntryOK(e) /\ e.used /\ e.sess = {}
      /\ NoEntry \in KEntryT /\ EntryOK(NoEntry) /\ ~ NoEntry.used /\ NoEntry.sess = {}
  BY EmptyEntry DEF NoEntry
<1> HIDE DEF e
<1>1. ASSUME NEW q, KnownOK(q), ~ q.entry[m].used
      PROVE  /\ KnownOK(new(q)) /\ new(q).entry[m].used
             /\ \A x \in Machine : new(q).entry[x].sess = q.entry[x].sess
  <2>1. new(q) \in KnownT /\ \A x \in Machine : new(q).entry[x] = IF x = m THEN e ELSE q.entry[x]
    BY <1>0, <1>1 DEF KnownOK, KnownT
  <2>2. Used(new(q)) = Used(q) \cup {m} BY <1>0, <2>1 DEF Used
  <2>3. IsFiniteSet(Used(new(q))) BY <1>1, <2>2, FS_AddElement DEF KnownOK
  <2>4. q.entry[m].sess = {} BY <1>1 DEF KnownOK, EntryOK
  <2> HIDE DEF new
  <2> QED BY <1>0, <1>1, <2>1, <2>3, <2>4 DEF KnownOK
<1>2. CASE m \in Used(kn) BY <1>2 DEF allocate_machine_slot, Used
<1>3. CASE m \notin Used(kn) /\ k = new(kn)
  <2>1. ~ kn.entry[m].used BY <1>3 DEF Used
  <2> HIDE DEF new
  <2> QED BY <1>1, <1>3, <2>1
<1>4. ASSUME m \notin Used(kn), NEW v \in Evictable(kn), k = new([kn EXCEPT !.entry[v] = NoEntry])
      PROVE  /\ KnownOK(k) /\ k.entry[m].used
             /\ \A x \in Machine : k.entry[x].sess = kn.entry[x].sess
  <2> DEFINE q == [kn EXCEPT !.entry[v] = NoEntry]
  <2>1. v \in Used(kn) /\ kn.entry[v].active = 0 /\ v \in Machine BY DEF Evictable, Used
  <2>2. kn.entry[v].sess = {}
    <3>1. IsFiniteSet(kn.entry[v].sess) /\ Cardinality(kn.entry[v].sess) = 0
      BY <2>1 DEF KnownOK, EntryOK
    <3> QED BY <3>1, FS_EmptySet
  <2>3. q \in KnownT /\ \A x \in Machine : q.entry[x] = IF x = v THEN NoEntry ELSE kn.entry[x]
    BY <1>0, <2>1 DEF KnownOK, KnownT
  <2>4. IsFiniteSet(Used(q))
    <3>1. Used(q) \subseteq Used(kn) BY <1>0, <2>3 DEF Used
    <3> QED BY <3>1, FS_Subset DEF KnownOK
  <2>5. ~ q.entry[m].used BY <1>0, <1>4, <2>3 DEF Used
  <2>6. k = new(q) BY <1>4
  <2> HIDE DEF q, new
  <2>7. KnownOK(q) BY <1>0, <2>3, <2>4 DEF KnownOK
  <2>8. \A x \in Machine : q.entry[x].sess = kn.entry[x].sess BY <1>0, <2>2, <2>3
  <2> QED BY <1>1, <2>5, <2>6, <2>7, <2>8
<1> QED
  <2>1. \/ m \in Used(kn)
        \/ m \notin Used(kn) /\ k = new(kn)
        \/ m \notin Used(kn) /\ \E v \in Evictable(kn) : k = new([kn EXCEPT !.entry[v] = NoEntry])
    <3>1. CASE m \in Used(kn) BY <3>1, Zenon
    <3>2. CASE m \notin Used(kn)
      <4>1. k \in IF Cardinality(Used(kn)) < MaxKnown THEN {new(kn)}
                  ELSE {new([kn EXCEPT !.entry[v] = NoEntry]) : v \in Evictable(kn)}
        BY <3>2, Zenon DEF allocate_machine_slot, e
      <4> HIDE DEF new
      <4> QED BY <3>2, <4>1
    <3> QED BY <3>1, <3>2
  <2> QED BY <1>2, <1>3, <1>4, <2>1

\* A machine is seen, with an entry that counts its sessions.
LEMMA TouchOK ==
  ASSUME NEW kn, KnownOK(kn), NEW m \in Machine, NEW e \in KEntryT, EntryOK(e)
  PROVE  /\ KnownOK(Touch(kn, m, e))
         /\ \A x \in Machine : Touch(kn, m, e).entry[x].sess = IF x = m THEN e.sess ELSE kn.entry[x].sess
<1> DEFINE f == [e EXCEPT !.last_seen = kn.now]
           t == Touch(kn, m, e)
<1>1. f \in KEntryT /\ f.sess = e.sess /\ f.used = e.used /\ EntryOK(f)
  BY DEF KEntryT, EntryOK, KnownOK, KnownT
<1> HIDE DEF f
<1>2. t \in KnownT /\ \A x \in Machine : t.entry[x] = IF x = m THEN f ELSE kn.entry[x]
  BY <1>1 DEF Touch, KnownOK, KnownT, f
<1>3. IsFiniteSet(Used(t))
  <2>1. Used(t) \subseteq Used(kn) \cup {m} BY <1>2 DEF Used
  <2>2. IsFiniteSet(Used(kn) \cup {m}) BY FS_AddElement DEF KnownOK
  <2> QED BY <2>1, <2>2, FS_Subset
<1> HIDE DEF t
<1>4. KnownOK(t) /\ \A x \in Machine : t.entry[x].sess = IF x = m THEN e.sess ELSE kn.entry[x].sess
  BY <1>1, <1>2, <1>3 DEF KnownOK
<1> QED BY <1>4 DEF t

\* The counts by role.
LEMMA RoleCounts ==
  ASSUME NEW e \in KEntryT, NEW c \in CtlClient, NEW d \in Int
  PROVE  LET r == Role(e, Mode[c], d)
         IN  /\ r \in KEntryT /\ r.sess = e.sess /\ r.active = e.active /\ r.used = e.used
             /\ r.search = IF Mode[c] = "search" THEN e.search + d ELSE e.search
             /\ r.prune = IF Mode[c] = "prune" THEN e.prune + d ELSE e.prune
<1>1. Mode[c] \in {"search", "prune"} BY ControlAssumption
<1>2. CASE Mode[c] = "search" BY <1>2 DEF Role, KEntryT
<1>3. CASE Mode[c] = "prune" BY <1>3 DEF Role, KEntryT
<1> QED BY <1>1, <1>2, <1>3

\* The connection of a client loses no session, and opens at most its own
\* (known_clients_registry_on_connect).
LEMMA ConnectOK ==
  ASSUME NEW kn, KnownOK(kn), NEW m \in Machine, NEW c \in CtlClient
  PROVE  LET t == known_clients_on_connect(kn, m, c)
         IN  KnownOK(t) /\ \A x \in Machine : kn.entry[x].sess \subseteq t.entry[x].sess
<1> DEFINE slots == allocate_machine_slot(kn, m)
           k == CHOOSE x \in slots : TRUE
           s == [client |-> c, last |-> 0]
           e == [k.entry[m] EXCEPT !.mode = Mode[c]]
           f == [e EXCEPT !.sess = @ \cup {s}, !.active = @ + 1]
           new == Role(f, Mode[c], 1)
           t == known_clients_on_connect(kn, m, c)
<1>1. CASE slots = {} BY <1>1 DEF known_clients_on_connect
<1>2. CASE slots # {}
  <2>1. k \in slots BY <1>2
  <2> HIDE DEF k
  <2>2. /\ KnownOK(k) /\ k.entry[m].used
        /\ \A x \in Machine : k.entry[x].sess = kn.entry[x].sess
    BY <2>1, PlaceFound
  <2>3. Mode[c] \in {"search", "prune"} BY ControlAssumption
  <2>4. k.entry[m] \in KEntryT /\ EntryOK(k.entry[m]) BY <2>2 DEF KnownOK, KnownT
  <2>5. e \in KEntryT /\ EntryOK(e) /\ e.sess = k.entry[m].sess /\ e.used
    BY <2>2, <2>3, <2>4 DEF KEntryT, EntryOK
  <2> HIDE DEF e
  <2>6. ASSUME Session(k, m, c) = {} PROVE new \in KEntryT /\ EntryOK(new) /\ new.sess = e.sess \cup {s}
    <3>1. s \in SessT /\ s.client = c /\ \A q \in e.sess : q.client # c
      BY <2>5, <2>6 DEF SessT, Session
    <3>2. e.sess \in SUBSET SessT /\ IsFiniteSet(e.sess) /\ s \notin e.sess
      BY <2>5, <3>1 DEF KEntryT, EntryOK
    <3> HIDE DEF s
    <3>3. f \in KEntryT /\ f.sess = e.sess \cup {s} /\ f.active = e.active + 1 /\ f.search = e.search
          /\ f.prune = e.prune /\ f.used = e.used
      <4>1. PICK S \in SUBSET SessT : S = e.sess \cup {s} BY <2>5, <3>1, <3>2
      <4>2. PICK n \in Int : n = e.active + 1 BY <2>5 DEF KEntryT
      <4>3. f = Counting(e, S, n) BY <4>1, <4>2 DEF Counting
      <4>4. e \in KEntryT BY <2>5
      <4> HIDE DEF f
      <4> QED BY <4>1, <4>2, <4>3, <4>4, EntryWith
    <3> HIDE DEF f
    <3>4. /\ new \in KEntryT /\ new.sess = f.sess /\ new.active = f.active /\ new.used = f.used
          /\ new.search = IF Mode[c] = "search" THEN f.search + 1 ELSE f.search
          /\ new.prune = IF Mode[c] = "prune" THEN f.prune + 1 ELSE f.prune
      BY <3>3, RoleCounts
    <3> HIDE DEF new
    <3>5. \A p, q \in new.sess : p.client = q.client => p = q
      BY <2>5, <3>1, <3>3, <3>4 DEF EntryOK
    <3>6. /\ IsFiniteSet(new.sess) /\ new.active = Cardinality(new.sess)
      BY <2>5, <3>2, <3>1, <3>3, <3>4, SessionAdded DEF EntryOK
    <3>7. new.search = Cardinality(Playing(new.sess, "search"))
      BY <2>5, <3>2, <3>1, <3>3, <3>4, SessionAdded DEF EntryOK
    <3>8. new.prune = Cardinality(Playing(new.sess, "prune"))
      BY <2>5, <3>2, <3>1, <3>3, <3>4, SessionAdded DEF EntryOK
    <3> QED BY <2>5, <3>3, <3>4, <3>5, <3>6, <3>7, <3>8 DEF EntryOK
  <2>7. t = Touch(k, m, IF Session(k, m, c) # {} \/ Cardinality(e.sess) >= MaxSessions THEN e ELSE new)
    BY <1>2 DEF known_clients_on_connect, k, e
  <2> HIDE DEF new, t, s, f, slots
  <2>8. CASE Session(k, m, c) # {} \/ Cardinality(e.sess) >= MaxSessions
    <3>1. t = Touch(k, m, e) BY <2>7, <2>8
    <3>2. KnownOK(t) /\ \A x \in Machine : t.entry[x].sess = IF x = m THEN e.sess ELSE k.entry[x].sess
      BY <2>2, <2>5, <3>1, TouchOK
    <3> QED BY <2>2, <2>5, <3>2 DEF t
  <2>9. CASE Session(k, m, c) = {} /\ ~ (Cardinality(e.sess) >= MaxSessions)
    <3>1. t = Touch(k, m, new) BY <2>7, <2>9
    <3>2. KnownOK(t) /\ \A x \in Machine : t.entry[x].sess = IF x = m THEN new.sess ELSE k.entry[x].sess
      BY <2>2, <2>6, <2>9, <3>1, TouchOK
    <3> QED BY <2>2, <2>5, <2>6, <2>9, <3>2 DEF t
  <2> QED BY <2>8, <2>9
<1> QED BY <1>1, <1>2

\* The session of a client is the only one of that client.
LEMMA OneSession ==
  ASSUME NEW kn, KnownOK(kn), NEW m \in Machine, NEW c, NEW s \in Session(kn, m, c)
  PROVE  s \in kn.entry[m].sess /\ s \in SessT /\ s.client = c /\ c \in CtlClient /\ Session(kn, m, c) = {s}
<1>1. kn.entry[m] \in KEntryT /\ EntryOK(kn.entry[m]) BY DEF KnownOK, KnownT
<1>2. s \in kn.entry[m].sess /\ s.client = c BY DEF Session
<1>3. s \in SessT BY <1>1, <1>2 DEF KEntryT
<1>4. \A x \in Session(kn, m, c) : x = s BY <1>1, <1>2 DEF Session, EntryOK
<1> QED BY <1>2, <1>3, <1>4 DEF SessT

\* A reading of the counters replaces the session of the client by one of the same
\* client (known_clients_registry_on_stats).
LEMMA StatsOK ==
  ASSUME NEW kn, KnownOK(kn), NEW m \in Machine, NEW c \in CtlClient, NEW v \in Int
  PROVE  LET t == known_clients_on_stats(kn, m, c, v)
         IN  /\ KnownOK(t)
             /\ \A x \in Machine : \A p \in kn.entry[x].sess : \E q \in t.entry[x].sess : q.client = p.client
<1> DEFINE e == kn.entry[m]
           S == Session(kn, m, c)
           s == CHOOSE x \in S : TRUE
           r == [client |-> c, last |-> v]
           f == [e EXCEPT !.total = @ + (v - s.last), !.sess = (@ \ {s}) \cup {r}]
           t == known_clients_on_stats(kn, m, c, v)
<1>1. e \in KEntryT /\ EntryOK(e) BY DEF KnownOK, KnownT
<1>2. CASE ~ e.used BY <1>2 DEF known_clients_on_stats
<1>3. CASE e.used /\ \A x \in S : v < x.last
  <2>1. t = Touch(kn, m, e) BY <1>3 DEF known_clients_on_stats
  <2>2. KnownOK(t) /\ \A x \in Machine : t.entry[x].sess = IF x = m THEN e.sess ELSE kn.entry[x].sess
    BY <1>1, <2>1, TouchOK
  <2> HIDE DEF t
  <2> QED BY <2>2 DEF t
<1>4. CASE e.used /\ ~ \A x \in S : v < x.last
  <2>1. s \in S BY <1>4
  <2> HIDE DEF s
  <2>2. s \in e.sess /\ s \in SessT /\ s.client = c BY <2>1, OneSession
  <2>3. r \in SessT /\ r.client = c BY DEF SessT
  <2> DEFINE R == e.sess \ {s}
  <2>4. /\ R \in SUBSET SessT /\ IsFiniteSet(R) /\ r \notin R /\ \A q \in R : q.client # c
        /\ e.sess \in SUBSET SessT /\ IsFiniteSet(e.sess)
    <3>1. e.sess \in SUBSET SessT /\ IsFiniteSet(e.sess) BY <1>1 DEF KEntryT, EntryOK
    <3>2. \A q \in R : q.client # c BY <1>1, <2>2 DEF EntryOK
    <3> QED BY <2>3, <3>1, <3>2, FS_Subset
  <2>5. ASSUME NEW mode
        PROVE  /\ Cardinality(R) = Cardinality(e.sess) - 1
               /\ Cardinality(Playing(R, mode)) = IF Mode[c] = mode THEN Cardinality(Playing(e.sess, mode)) - 1
                                                  ELSE Cardinality(Playing(e.sess, mode))
    BY <2>2, <2>4, SessionRemoved
  <2>6. f \in KEntryT /\ f.sess = R \cup {r} /\ f.active = e.active /\ f.search = e.search
        /\ f.prune = e.prune /\ f.used = e.used
    <3>1. s.last \in Int BY <2>2 DEF SessT
    <3>2. (e.sess \ {s}) \cup {r} \in SUBSET SessT BY <2>3, <2>4
    <3>3. PICK T \in SUBSET SessT : T = (e.sess \ {s}) \cup {r} BY <3>2
    <3>4. PICK n \in Int : n = e.total + (v - s.last) BY <1>1, <3>1 DEF KEntryT
    <3>5. f = Adding(e, T, n) BY <3>3, <3>4 DEF Adding
    <3> HIDE DEF f
    <3>6. e \in KEntryT BY <1>1
    <3> HIDE DEF e
    <3> QED BY <3>3, <3>4, <3>5, <3>6, EntryWith
  <2> HIDE DEF R, f, r
  <2>7. ASSUME NEW mode
        PROVE  /\ Cardinality(R \cup {r}) = Cardinality(R) + 1 /\ IsFiniteSet(R \cup {r})
               /\ Cardinality(Playing(R \cup {r}, mode))
                    = IF Mode[c] = mode THEN Cardinality(Playing(R, mode)) + 1 ELSE Cardinality(Playing(R, mode))
               /\ Cardinality(R) \in Int /\ Cardinality(Playing(R, mode)) \in Int
    <3>1. /\ IsFiniteSet(R \cup {r}) /\ Cardinality(R \cup {r}) = Cardinality(R) + 1
          /\ Cardinality(Playing(R \cup {r}, mode))
               = IF Mode[r.client] = mode THEN Cardinality(Playing(R, mode)) + 1 ELSE Cardinality(Playing(R, mode))
          /\ Cardinality(R) \in Int /\ Cardinality(Playing(R, mode)) \in Int
      BY <2>3, <2>4, SessionAdded, Zenon
    <3> QED BY <2>3, <3>1, Zenon
  <2>8. EntryOK(f)
    <3>1. /\ e.active = Cardinality(e.sess)
          /\ e.search = Cardinality(Playing(e.sess, "search")) /\ e.prune = Cardinality(Playing(e.sess, "prune"))
          /\ e.active \in Int /\ e.search \in Int /\ e.prune \in Int
      BY <1>1 DEF EntryOK, KEntryT
    <3>6. ASSUME NEW mode
          PROVE  /\ IsFiniteSet(f.sess) /\ Cardinality(f.sess) = Cardinality(e.sess)
                 /\ Cardinality(Playing(f.sess, mode)) = Cardinality(Playing(e.sess, mode))
      <4>1. /\ Cardinality(R) = Cardinality(e.sess) - 1
            /\ Cardinality(Playing(R, mode)) = IF Mode[c] = mode THEN Cardinality(Playing(e.sess, mode)) - 1
                                               ELSE Cardinality(Playing(e.sess, mode))
        BY <2>5
      <4>2. /\ Cardinality(f.sess) = Cardinality(R) + 1 /\ IsFiniteSet(f.sess)
            /\ Cardinality(Playing(f.sess, mode))
                 = IF Mode[c] = mode THEN Cardinality(Playing(R, mode)) + 1 ELSE Cardinality(Playing(R, mode))
            /\ Cardinality(R) \in Int /\ Cardinality(Playing(R, mode)) \in Int
        BY <2>3, <2>6, <2>7
      <4>3. Cardinality(e.sess) \in Int /\ Cardinality(Playing(e.sess, mode)) \in Int
        <5>1. Playing(e.sess, mode) \subseteq e.sess BY DEF Playing
        <5> QED BY <2>4, <5>1, FS_Subset, FS_CardinalityType
      <4> QED BY <4>1, <4>2, <4>3
    <3>2. IsFiniteSet(f.sess) /\ f.active = Cardinality(f.sess) BY <2>6, <3>1, <3>6
    <3>3. f.search = Cardinality(Playing(f.sess, "search")) BY <2>6, <3>1, <3>6
    <3>4. f.prune = Cardinality(Playing(f.sess, "prune")) BY <2>6, <3>1, <3>6
    <3>5. \A p, q \in f.sess : p.client = q.client => p = q BY <1>1, <2>3, <2>4, <2>6 DEF EntryOK, R
    <3> QED BY <1>4, <2>6, <3>2, <3>3, <3>4, <3>5 DEF EntryOK
  <2>9. t = Touch(kn, m, f) BY <1>4 DEF known_clients_on_stats, f, s, r
  <2> HIDE DEF t
  <2>10. KnownOK(t) /\ \A x \in Machine : t.entry[x].sess = IF x = m THEN f.sess ELSE kn.entry[x].sess
    <3>1. f \in KEntryT BY <2>6
    <3> QED BY <2>8, <2>9, <3>1, TouchOK
  <2>11. \A p \in e.sess : \E q \in f.sess : q.client = p.client BY <2>2, <2>3, <2>6 DEF R
  <2>12. \A x \in Machine : \A p \in kn.entry[x].sess : \E q \in t.entry[x].sess : q.client = p.client
    BY <2>10, <2>11
  <2> QED BY <2>10, <2>12 DEF t
<1> QED BY <1>2, <1>3, <1>4

\* The end of a session takes that session only (known_clients_registry_on_disconnect).
LEMMA DisconnectOK ==
  ASSUME NEW kn, KnownOK(kn), NEW m \in Machine, NEW c \in CtlClient
  PROVE  LET t == known_clients_on_disconnect(kn, m, c)
         IN  /\ KnownOK(t)
             /\ \A x \in Machine : \A p \in kn.entry[x].sess : p.client # c => p \in t.entry[x].sess
<1> DEFINE e == kn.entry[m]
           S == Session(kn, m, c)
           f == [e EXCEPT !.sess = @ \ S, !.active = @ - 1]
           new == Role(f, Mode[c], -1)
           t == known_clients_on_disconnect(kn, m, c)
<1>1. e \in KEntryT /\ EntryOK(e) BY DEF KnownOK, KnownT
<1>2. CASE ~ e.used BY <1>2 DEF known_clients_on_disconnect, ForgetSession
<1>3. CASE e.used /\ S = {}
  <2>1. t = Touch(kn, m, e) BY <1>3 DEF known_clients_on_disconnect, ForgetSession
  <2>2. KnownOK(t) /\ \A x \in Machine : t.entry[x].sess = IF x = m THEN e.sess ELSE kn.entry[x].sess
    BY <1>1, <2>1, TouchOK
  <2> HIDE DEF t
  <2> QED BY <2>2 DEF t
<1>4. CASE e.used /\ S # {}
  <2>1. PICK s \in S : TRUE BY <1>4
  <2>2. s \in e.sess /\ s \in SessT /\ s.client = c /\ S = {s} BY OneSession
  <2> DEFINE R == e.sess \ {s}
  <2>3. e.sess \in SUBSET SessT /\ IsFiniteSet(e.sess) BY <1>1 DEF KEntryT, EntryOK
  <2>4. f \in KEntryT /\ f.sess = R /\ f.active = e.active - 1 /\ f.search = e.search
        /\ f.prune = e.prune /\ f.used = e.used
    <3>1. PICK Q \in SUBSET SessT : Q = e.sess \ {s} BY <2>3
    <3>2. PICK n \in Int : n = e.active - 1 BY <1>1 DEF KEntryT
    <3>3. f = Counting(e, Q, n) BY <2>2, <3>1, <3>2 DEF Counting
    <3>4. e \in KEntryT BY <1>1
    <3> HIDE DEF f, e
    <3> QED BY <3>1, <3>2, <3>3, <3>4, EntryWith
  <2> HIDE DEF f
  <2>5. /\ new \in KEntryT /\ new.sess = f.sess /\ new.active = f.active /\ new.used = f.used
        /\ new.search = IF Mode[c] = "search" THEN f.search + (-1) ELSE f.search
        /\ new.prune = IF Mode[c] = "prune" THEN f.prune + (-1) ELSE f.prune
    BY <2>4, RoleCounts
  <2> HIDE DEF new
  <2>6. ASSUME NEW mode
        PROVE  /\ IsFiniteSet(R) /\ Cardinality(R) = Cardinality(e.sess) - 1
               /\ Cardinality(Playing(R, mode)) = IF Mode[c] = mode THEN Cardinality(Playing(e.sess, mode)) - 1
                                                  ELSE Cardinality(Playing(e.sess, mode))
    <3>1. e.sess \in SUBSET SessT /\ IsFiniteSet(e.sess) /\ s \in e.sess /\ s.client = c BY <2>2, <2>3
    <3>2. /\ IsFiniteSet(e.sess \ {s}) /\ Cardinality(e.sess \ {s}) = Cardinality(e.sess) - 1
          /\ Cardinality(Playing(e.sess \ {s}, mode))
               = IF Mode[s.client] = mode THEN Cardinality(Playing(e.sess, mode)) - 1
                 ELSE Cardinality(Playing(e.sess, mode))
      BY <3>1, SessionRemoved, Zenon
    <3> QED BY <3>1, <3>2, Zenon
  <2>7. /\ e.active = Cardinality(e.sess)
        /\ e.search = Cardinality(Playing(e.sess, "search")) /\ e.prune = Cardinality(Playing(e.sess, "prune"))
        /\ e.active \in Int /\ e.search \in Int /\ e.prune \in Int
    BY <1>1 DEF EntryOK, KEntryT
  <2>8. IsFiniteSet(new.sess) /\ new.active = Cardinality(new.sess)
    BY <2>4, <2>5, <2>6, <2>7
  <2>9. new.search = Cardinality(Playing(new.sess, "search"))
    <3>1. Cardinality(Playing(R, "search")) = IF Mode[c] = "search" THEN Cardinality(Playing(e.sess, "search")) - 1
                                              ELSE Cardinality(Playing(e.sess, "search"))
      BY <2>6
    <3> QED BY <2>4, <2>5, <2>7, <3>1
  <2>10. new.prune = Cardinality(Playing(new.sess, "prune"))
    <3>1. Cardinality(Playing(R, "prune")) = IF Mode[c] = "prune" THEN Cardinality(Playing(e.sess, "prune")) - 1
                                             ELSE Cardinality(Playing(e.sess, "prune"))
      BY <2>6
    <3> QED BY <2>4, <2>5, <2>7, <3>1
  <2>11. EntryOK(new)
    <3>1. \A p, q \in new.sess : p.client = q.client => p = q BY <1>1, <2>4, <2>5 DEF EntryOK
    <3> QED BY <1>4, <2>4, <2>5, <2>8, <2>9, <2>10, <3>1 DEF EntryOK
  <2>12. t = Touch(kn, m, new) BY <1>4 DEF known_clients_on_disconnect, ForgetSession, new, f
  <2> HIDE DEF t
  <2>13. KnownOK(t) /\ \A x \in Machine : t.entry[x].sess = IF x = m THEN new.sess ELSE kn.entry[x].sess
    <3>1. new \in KEntryT BY <2>5
    <3> QED BY <2>11, <2>12, <3>1, TouchOK
  <2>14. \A p \in e.sess : p.client # c => p \in new.sess BY <2>2, <2>4, <2>5
  <2>15. \A x \in Machine : \A p \in kn.entry[x].sess : p.client # c => p \in t.entry[x].sess
    BY <2>13, <2>14
  <2> QED BY <2>13, <2>15 DEF t
<1> QED BY <1>2, <1>3, <1>4

\* A record of the file brings totals and no session, and takes the place of none.
LEMMA RecordOK ==
  ASSUME NEW kn, KnownOK(kn), NEW rec \in RecordT
  PROVE  LET t == apply_persisted_record(kn, rec)
         IN  KnownOK(t) /\ \A x \in Machine : t.entry[x].sess = kn.entry[x].sess
<1> DEFINE m == rec.m
           slots == allocate_machine_slot(kn, m)
           k == CHOOSE x \in slots : TRUE
           t == apply_persisted_record(kn, rec)
<1>0. m \in Machine /\ rec.total \in Int /\ rec.last_seen \in Int /\ rec.mode \in {"search", "prune"} BY DEF RecordT
<1>1. CASE slots = {} BY <1>1 DEF apply_persisted_record
<1>2. CASE slots # {}
  <2>1. k \in slots BY <1>2
  <2>2. t = [k EXCEPT !.entry[m].total = @ + rec.total,
                      !.entry[m].mode = IF m \in Used(kn) THEN @ ELSE rec.mode,
                      !.entry[m].last_seen = IF rec.last_seen > @ THEN rec.last_seen ELSE @]
    BY <1>2 DEF apply_persisted_record
  <2> HIDE DEF k, t
  <2>3. /\ KnownOK(k) /\ k.entry[m].used
        /\ \A x \in Machine : k.entry[x].sess = kn.entry[x].sess
    BY <1>0, <2>1, PlaceFound
  <2> DEFINE e == k.entry[m]
             f == [e EXCEPT !.total = @ + rec.total,
                            !.mode = IF m \in Used(kn) THEN @ ELSE rec.mode,
                            !.last_seen = IF rec.last_seen > @ THEN rec.last_seen ELSE @]
  <2>4. e \in KEntryT /\ EntryOK(e) BY <1>0, <2>3 DEF KnownOK, KnownT
  <2>5. k \in KnownT BY <2>3 DEF KnownOK
  <2>6. t \in KnownT /\ \A x \in Machine : t.entry[x] = IF x = m THEN f ELSE k.entry[x]
    <3>1. t = [k EXCEPT !.entry = [k.entry EXCEPT ![m] = f]] BY <1>0, <2>2, <2>5, ZenonT(40) DEF KnownT
    <3>2. f \in KEntryT
      <4>1. PICK n \in Int : n = e.total + rec.total BY <1>0, <2>4 DEF KEntryT
      <4>2. PICK r \in {"search", "prune"} : r = IF m \in Used(kn) THEN e.mode ELSE rec.mode
        BY <1>0, <2>4 DEF KEntryT
      <4>3. PICK l \in Int : l = IF rec.last_seen > e.last_seen THEN rec.last_seen ELSE e.last_seen
        BY <1>0, <2>4 DEF KEntryT
      <4>4. f = [e EXCEPT !.total = n, !.mode = r, !.last_seen = l] BY <4>1, <4>2, <4>3
      <4> HIDE DEF f
      <4>5. e \in KEntryT BY <2>4
      <4> QED BY <4>4, <4>5 DEF KEntryT
    <3> HIDE DEF f
    <3> QED BY <1>0, <2>5, <3>1, <3>2 DEF KnownT
  <2>7. f.sess = e.sess /\ EntryOK(f) BY <2>4 DEF KEntryT, EntryOK
  <2> HIDE DEF f
  <2>8. \A x \in Machine : t.entry[x].sess = k.entry[x].sess /\ EntryOK(t.entry[x]) BY <2>3, <2>6, <2>7 DEF KnownOK
  <2>9. IsFiniteSet(Used(t))
    <3>1. Used(t) \subseteq Used(k) \cup {m} BY <2>6 DEF Used
    <3>2. IsFiniteSet(Used(k) \cup {m}) BY <2>3, FS_AddElement DEF KnownOK
    <3> QED BY <3>1, <3>2, FS_Subset
  <2> QED BY <2>3, <2>6, <2>8, <2>9 DEF KnownOK, t
<1> QED BY <1>1, <1>2

\* The fold of known_clients_registry_load.
RecordOp(x, y, kn, rec) == apply_persisted_record(kn, rec)
Restored(x, n, kn) == KnownOK(kn) /\ \A m \in Machine : kn.entry[m].sess = known.entry[m].sess
Load == INSTANCE Iteration WITH Op <- RecordOp, P <- Restored

\* The load of the file changes no session.
LEMMA LoadOK ==
  ASSUME KnownOK(known), saved \in Seq(RecordT)
  PROVE  Restored(0, 0, FoldLeft(apply_persisted_record, known, saved))
<1> DEFINE g == CHOOSE g : Load!IsFold(0, 0, known, saved, g)
<1>1. Len(saved) \in Nat /\ DOMAIN saved = 1 .. Len(saved) OBVIOUS
<1>2. Load!IsFold(0, 0, known, saved, g) BY <1>1, Load!FoldExists
<1>3. FoldLeft(apply_persisted_record, known, saved) = g[DOMAIN saved]
  BY DEF FoldLeft, MapThenFoldSet, Load!IsFold, Load!Step, RecordOp, Load!Last, Max
<1> HIDE DEF g
<1>4. Restored(0, 0, known) BY DEF Restored
<1>5. \A k \in 1 .. Len(saved) : \A v : Restored(0, k - 1, v) => Restored(0, k, RecordOp(0, 0, v, saved[k]))
  <2> SUFFICES ASSUME NEW k \in 1 .. Len(saved), NEW v, Restored(0, 0, v)
               PROVE  Restored(0, 0, apply_persisted_record(v, saved[k]))
    BY DEF Restored, RecordOp
  <2>1. saved[k] \in RecordT OBVIOUS
  <2>2. KnownOK(v) /\ \A m \in Machine : v.entry[m].sess = known.entry[m].sess BY DEF Restored
  <2>3. /\ KnownOK(apply_persisted_record(v, saved[k]))
        /\ \A x \in Machine : apply_persisted_record(v, saved[k]).entry[x].sess = v.entry[x].sess
    BY <2>1, <2>2, RecordOK
  <2> QED BY <2>2, <2>3 DEF Restored
<1>6. Restored(0, Len(saved), g[DOMAIN saved]) BY <1>1, <1>2, <1>4, <1>5, Load!FoldInduction
<1> QED BY <1>3, <1>6 DEF Restored

-----------------------------------------------------------------------------
(* The register beside the connections. *)

\* The connections whose client has been shown and not yet taken away.
Shown(k) == ctlLink[k].pc \in {"idle", "wait", "closing"}
HasSession(c) == Session(known, MachineOf(c), c) # {}
ShownAt(k) ==
  Shown(k) /\ ctlLink[k].client \notin ctlHist.unshown =>
    /\ HasSession(ctlLink[k].client)
    /\ \A j \in Link : Shown(j) /\ ctlLink[j].client = ctlLink[k].client => j = k
ShownOK == \A k \in Link : ShownAt(k)
RInv == CInv /\ KnownOK(known) /\ saved \in Seq(RecordT) /\ ShownOK

\* A client has a machine.
LEMMA OnMachine ==
  ASSUME CInv, NEW c \in CtlClient
  PROVE  MachineOf(c) \in Machine
BY ControlAssumption DEF CInv, TypesOK, MachineOf

\* Steps that keep the sessions shown, and by which no connection comes to be shown.
LEMMA ShownKeeps ==
  ASSUME ShownOK, ctlHist'.unshown = ctlHist.unshown,
         \A k \in Link : Shown(k)' => Shown(k) /\ ctlLink'[k].client = ctlLink[k].client,
         \A k \in Link : \A c : Shown(k)' /\ c = ctlLink[k].client /\ c \notin ctlHist.unshown /\ HasSession(c)
            => HasSession(c)'
  PROVE  ShownOK'
<1> SUFFICES ASSUME NEW k \in Link, NEW c, c = ctlLink'[k].client, Shown(k)', c \notin ctlHist'.unshown
             PROVE  /\ HasSession(c)'
                    /\ \A j \in Link : Shown(j)' /\ ctlLink'[j].client = c => j = k
  BY DEF ShownOK, ShownAt, HasSession, MachineOf, Session
<1>1. Shown(k) /\ c = ctlLink[k].client OBVIOUS
<1>2. HasSession(c) BY <1>1 DEF ShownOK, ShownAt
<1>3. ASSUME NEW j \in Link, Shown(j)', ctlLink'[j].client = c PROVE j = k
  BY <1>1, <1>3 DEF ShownOK, ShownAt
<1>4. HasSession(c)' BY <1>1, <1>2
<1> QED BY <1>3, <1>4

LinksFollow == \A k \in Link : Shown(k)' => Shown(k) /\ ctlLink'[k].client = ctlLink[k].client

\* One connection changes, and is shown only if it was.
LEMMA OneFollows ==
  ASSUME CInv, NEW k \in Link, NEW l, ctlLink' = [ctlLink EXCEPT ![k] = l],
         l.pc \in {"idle", "wait", "closing"} => Shown(k) /\ l.client = ctlLink[k].client
  PROVE  LinksFollow
<1>1. \A j \in Link : ctlLink'[j] = IF j = k THEN l ELSE ctlLink[j] BY DEF CInv, TypesOK
<1> QED BY <1>1 DEF LinksFollow, Shown

\* A client shows and hides nothing.
LEMMA ClientFollows ==
  ASSUME CInv, NEW c \in CtlClient, CtlClientStep(c)
  PROVE  LinksFollow /\ UNCHANGED <<ctlSet, known, saved, ctlHist>>
<1>1. CASE CtlConnect(c)
  <2>1. PICK l : l = [NoLink EXCEPT !.client = c, !.cOpen = TRUE, !.pc = "hello"] OBVIOUS
  <2>2. PICK k \in Link : ctlLink' = [ctlLink EXCEPT ![k] = l] BY <1>1, <2>1 DEF CtlConnect
  <2>3. l.pc = "hello" BY <2>1 DEF NoLink
  <2> QED BY <1>1, <2>2, <2>3, OneFollows DEF CtlConnect
<1>2. CASE ServeFrame(c)
  <2>1. cl[c].link \in Link /\ UNCHANGED <<ctlSet, known, saved, ctlHist>>
    BY <1>2 DEF ServeFrame, CInv, TypesOK, ClT, Link
  <2>2. PICK w : ctlLink' = [ctlLink EXCEPT ![cl[c].link].wire = w] BY <1>2 DEF ServeFrame
  <2>3. PICK k \in Link : k = cl[c].link BY <2>1
  <2>4. PICK l : l = [ctlLink[k] EXCEPT !.wire = w] OBVIOUS
  <2>5. ctlLink' = [ctlLink EXCEPT ![k] = l] BY <2>2, <2>3, <2>4
  <2>6. ctlLink[k] \in LinkT BY LinkFacts
  <2>7. l.pc = ctlLink[k].pc /\ l.client = ctlLink[k].client BY <2>4, <2>6 DEF LinkT
  <2> QED BY <2>1, <2>5, <2>7, OneFollows DEF Shown
<1>3. CASE GiveUp(c)
  <2>1. PICK k \in Link : k = cl[c].link BY <1>3 DEF GiveUp, CInv, TypesOK, ClT, Link
  <2>2. PICK l : l = ClientEnds(ctlLink[k]) OBVIOUS
  <2>3. ctlLink' = [ctlLink EXCEPT ![k] = l] BY <1>3, <2>1, <2>2 DEF GiveUp
  <2>4. ctlLink[k] \in LinkT BY LinkFacts
  <2>5. \/ l.pc = "gone"
        \/ l.pc = ctlLink[k].pc /\ l.client = ctlLink[k].client
    BY <2>2, <2>4 DEF ClientEnds, LinkT, Over, NoLink
  <2> QED BY <1>3, <2>3, <2>5, OneFollows DEF Shown, GiveUp
<1>4. CASE ForksRestarted(c) \/ Work(c) \/ StopClient(c)
  BY <1>4 DEF ForksRestarted, Work, StopClient, LinksFollow, Shown
<1> QED BY <1>1, <1>2, <1>3, <1>4 DEF CtlClientStep

\* Nor does a thread of the server, but at the connection.
LEMMA ServerFollows ==
  ASSUME CInv, NEW k \in Link, ServerStep(k), ~ KnowConnect(k)
  PROVE  /\ LinksFollow /\ UNCHANGED <<ctlSet, saved>> /\ ctlHist'.unshown = ctlHist.unshown
         /\ ~ Reply(k) /\ ~ KnowDisconnect(k) => UNCHANGED known
<1>0. ctlLink[k] \in LinkT /\ ctlHist \in HistT BY LinkFacts
<1>1. CASE Hello(k)
  <2>1. PICK l : ctlLink' = [ctlLink EXCEPT ![k] = l] /\ l.pc \in {"gone", "known"}
    <3>1. CASE ctlLink' = [ctlLink EXCEPT ![k] = ServerEnds(@)]
      <4>1. ServerEnds(ctlLink[k]).pc = "gone" BY <1>0 DEF ServerEnds, LinkT, Over, NoLink
      <4> QED BY <3>1, <4>1
    <3>2. CASE \E i \in FirstFree(reg) : ctlLink' = [ctlLink EXCEPT ![k].pc = "known", ![k].slot = i]
      <4>1. PICK i : ctlLink' = [ctlLink EXCEPT ![k].pc = "known", ![k].slot = i] BY <3>2
      <4>2. ctlLink' = [ctlLink EXCEPT ![k] = [ctlLink[k] EXCEPT !.pc = "known", !.slot = i]]
        BY <4>1 DEF CInv, TypesOK
      <4>3. [ctlLink[k] EXCEPT !.pc = "known", !.slot = i].pc = "known" BY <1>0 DEF LinkT
      <4> QED BY <4>2, <4>3
    <3> QED BY <1>1, <3>1, <3>2 DEF Hello
  <2>2. ctlHist'.unshown = ctlHist.unshown BY <1>0, <1>1 DEF Hello, HistT
  <2> QED BY <1>1, <2>1, <2>2, OneFollows DEF Hello
<1>2. CASE Dequeue(k)
  <2>1. PICK l : l = [ctlLink[k] EXCEPT !.pc = IF ctlLink[k].cOpen THEN "wait" ELSE "closing",
                          !.wire = IF ctlLink[k].cOpen THEN CtlRequest(Head(Queue(k))) ELSE NoFrame]
    OBVIOUS
  <2>2. ctlLink' = [ctlLink EXCEPT ![k] = l] BY <1>2, <2>1 DEF Dequeue
  <2>3. l.client = ctlLink[k].client /\ Shown(k) BY <1>0, <1>2, <2>1 DEF LinkT, Dequeue, Shown
  <2> QED BY <1>2, <2>2, <2>3, OneFollows DEF Dequeue
<1>3. CASE AutoStats(k)
  <2>1. PICK l : l = [ctlLink[k] EXCEPT !.pc = "wait", !.wire = CtlRequest(CtlEntry("stats", 0, NoClient))]
    OBVIOUS
  <2>2. ctlLink' = [ctlLink EXCEPT ![k] = l] BY <1>3, <2>1 DEF AutoStats
  <2>3. l.client = ctlLink[k].client /\ Shown(k) BY <1>0, <1>3, <2>1 DEF LinkT, AutoStats, Shown
  <2> QED BY <1>3, <2>2, <2>3, OneFollows DEF AutoStats
<1>4. CASE Reply(k)
  <2>1. PICK l : l = [ctlLink[k] EXCEPT !.pc = "idle", !.wire = NoFrame]
    OBVIOUS
  <2>2. ctlLink' = [ctlLink EXCEPT ![k] = l] BY <1>4, <2>1 DEF Reply
  <2>3. l.client = ctlLink[k].client /\ Shown(k) BY <1>0, <1>4, <2>1 DEF LinkT, Reply, Shown
  <2> QED BY <1>4, <2>2, <2>3, OneFollows DEF Reply
<1>5. ASSUME NEW pc, SetPc(k, pc), pc \in {"idle", "wait", "closing"} => Shown(k) PROVE LinksFollow
  <2>1. PICK l : l = [ctlLink[k] EXCEPT !.pc = pc] OBVIOUS
  <2>2. ctlLink' = [ctlLink EXCEPT ![k] = l] BY <1>5, <2>1 DEF SetPc
  <2>3. l.client = ctlLink[k].client /\ l.pc = pc BY <1>0, <2>1 DEF LinkT
  <2> QED BY <1>5, <2>2, <2>3, OneFollows
<1>6. CASE PingFails(k) BY <1>5, <1>6 DEF PingFails, Shown
<1>7. CASE NoReply(k) BY <1>5, <1>7 DEF NoReply, Shown
<1>8. CASE KnowDisconnect(k) BY <1>5, <1>8 DEF KnowDisconnect, Shown
<1>9. CASE Leave(k)
  <2>1. PICK l : l = ServerEnds(ctlLink[k]) OBVIOUS
  <2>2. ctlLink' = [ctlLink EXCEPT ![k] = l] BY <1>9, <2>1 DEF Leave
  <2>3. l.pc = "gone" BY <1>0, <2>1 DEF ServerEnds, LinkT, Over, NoLink
  <2> QED BY <1>9, <2>2, <2>3, OneFollows DEF Leave
<1> QED BY <1>1, <1>2, <1>3, <1>4, <1>6, <1>7, <1>8, <1>9 DEF ServerStep

\* A client that connects is shown, unless it has another connection or there is
\* no place for it; nobody else is hidden.
LEMMA KnowConnectShows ==
  ASSUME RInv, NEW k \in Link, KnowConnect(k)
  PROVE  KnownOK(known') /\ UNCHANGED saved /\ ShownOK'
<1> DEFINE c == ctlLink[k].client
           m == MachineOf(c)
<1>0. ctlLink[k] \in LinkT /\ LinkOK(reg, ctlLink[k]) /\ ctlHist \in HistT BY LinkFacts DEF RInv
<1>1. c \in CtlClient /\ m \in Machine
  <2>1. c \in CtlClient BY <1>0 DEF KnowConnect, LinkOK
  <2> QED BY <2>1, OnMachine DEF RInv
<1>2. known' = known_clients_on_connect(known, m, c) /\ UNCHANGED <<ctlSet, saved>> BY DEF KnowConnect
<1>3. KnownOK(known') /\ \A x \in Machine : known.entry[x].sess \subseteq known'.entry[x].sess
  BY <1>1, <1>2, ConnectOK DEF RInv
<1>4. \A j \in Link : /\ ctlLink'[j].client = ctlLink[j].client
                      /\ Shown(j)' <=> j = k \/ Shown(j)
  <2>1. PICK l : l = [ctlLink[k] EXCEPT !.pc = "idle"] OBVIOUS
  <2>2. ctlLink' = [ctlLink EXCEPT ![k] = l] BY <2>1 DEF KnowConnect, SetPc
  <2>3. l.client = ctlLink[k].client /\ l.pc = "idle" BY <1>0, <2>1 DEF LinkT
  <2>4. \A j \in Link : ctlLink'[j] = IF j = k THEN l ELSE ctlLink[j] BY <2>2 DEF RInv, CInv, TypesOK
  <2> QED BY <2>3, <2>4 DEF Shown
<1>5. /\ \A d : d # c => (d \in ctlHist'.unshown <=> d \in ctlHist.unshown)
      /\ c \notin ctlHist'.unshown => Others(k) = {} /\ Session(known', m, c) # {}
  <2>1. ctlHist'.unshown = IF Others(k) # {} \/ Session(known', m, c) = {}
                           THEN ctlHist.unshown \cup {c} ELSE ctlHist.unshown \ {c}
    BY <1>0 DEF KnowConnect, HistT
  <2> QED BY <2>1
<1>6. ASSUME NEW j \in Link, Shown(j)', ctlLink'[j].client = c, c \notin ctlHist'.unshown PROVE j = k
  <2> SUFFICES ASSUME j # k PROVE FALSE OBVIOUS
  <2>1. Shown(j) /\ ctlLink[j].client = c BY <1>4, <1>6
  <2>2. j \in Others(k) BY <2>1 DEF Others, Shown
  <2> QED BY <1>5, <1>6, <2>2
<1>7. ASSUME NEW j \in Link, NEW d, d = ctlLink'[j].client, Shown(j)', d \notin ctlHist'.unshown
      PROVE  HasSession(d)' /\ \A i \in Link : Shown(i)' /\ ctlLink'[i].client = d => i = j
  <2>1. CASE d = c
    <3>1. Session(known', m, c) # {} BY <1>5, <1>7, <2>1
    <3>2. HasSession(d)' BY <1>2, <2>1, <3>1 DEF HasSession, MachineOf
    <3> QED BY <1>6, <1>7, <2>1, <3>2
  <2>2. CASE d # c
    <3>1. Shown(j) /\ ctlLink[j].client = d /\ d \notin ctlHist.unshown BY <1>4, <1>5, <1>7, <2>2
    <3>2. HasSession(d) /\ \A i \in Link : Shown(i) /\ ctlLink[i].client = d => i = j
      BY <3>1 DEF RInv, ShownOK, ShownAt
    <3>3. d \in CtlClient BY <3>1, LinkFacts DEF RInv, Shown, LinkOK
    <3>4. HasSession(d)'
      <4>1. MachineOf(d) \in Machine /\ MachineOf(d)' = MachineOf(d) BY <1>2, <3>3, OnMachine DEF RInv, MachineOf
      <4> QED BY <1>3, <3>2, <4>1 DEF HasSession, Session
    <3>5. ASSUME NEW i \in Link, Shown(i)', ctlLink'[i].client = d PROVE i = j
      <4>1. i # k BY <1>4, <2>2, <3>5
      <4> QED BY <1>4, <3>2, <3>5, <4>1
    <3> QED BY <3>4, <3>5
  <2> QED BY <2>1, <2>2
<1>8. ShownOK' BY <1>7 DEF ShownOK, ShownAt, HasSession, MachineOf, Session
<1> QED BY <1>2, <1>3, <1>8

\* The server's threads keep the register.
LEMMA ServerShows ==
  ASSUME RInv, NEW k \in Link, ServerStep(k)
  PROVE  KnownOK(known') /\ saved' \in Seq(RecordT) /\ ShownOK'
<1> DEFINE c == ctlLink[k].client
           m == MachineOf(c)
<1>0. ctlLink[k] \in LinkT /\ LinkOK(reg, ctlLink[k]) /\ ctlHist \in HistT BY LinkFacts DEF RInv
<1>1. CASE KnowConnect(k) BY <1>1, KnowConnectShows DEF RInv
<1>2. ASSUME ~ KnowConnect(k)
      PROVE  /\ LinksFollow /\ UNCHANGED <<ctlSet, saved>> /\ ctlHist'.unshown = ctlHist.unshown
             /\ ~ Reply(k) /\ ~ KnowDisconnect(k) => UNCHANGED known
  BY <1>2, ServerFollows DEF RInv
<1>3. \A j \in Link : Shown(j) => ctlLink[j].client \in CtlClient /\ MachineOf(ctlLink[j].client) \in Machine
  <2> SUFFICES ASSUME NEW j \in Link, Shown(j)
               PROVE ctlLink[j].client \in CtlClient /\ MachineOf(ctlLink[j].client) \in Machine
    OBVIOUS
  <2>1. ctlLink[j].client \in CtlClient BY LinkFacts DEF RInv, Shown, LinkOK
  <2> QED BY <2>1, OnMachine DEF RInv
<1>4. CASE ~ KnowConnect(k) /\ UNCHANGED known
  <2>1. \A d : HasSession(d) => HasSession(d)' BY <1>2, <1>4 DEF HasSession, MachineOf, Session
  <2>2. ShownOK' BY <1>2, <1>4, <2>1, ShownKeeps DEF RInv, LinksFollow
  <2> QED BY <1>2, <1>4, <2>2 DEF RInv
<1>5. CASE ~ KnowConnect(k) /\ Reply(k) /\ ~ UNCHANGED known
  <2>1. Shown(k) /\ c \in CtlClient /\ m \in Machine /\ ctlLink[k].wire.v \in Int
    BY <1>0, <1>3, <1>5 DEF Reply, Shown, LinkT, FrameT
  <2>2. known' = known_clients_on_stats(known, m, c, ctlLink[k].wire.v) BY <1>5 DEF Reply
  <2>3. /\ KnownOK(known')
        /\ \A x \in Machine : \A p \in known.entry[x].sess : \E q \in known'.entry[x].sess : q.client = p.client
    <3>1. KnownOK(known) /\ c \in CtlClient /\ m \in Machine BY <2>1 DEF RInv
    <3>2. PICK v \in Int : v = ctlLink[k].wire.v BY <2>1
    <3>3. known' = known_clients_on_stats(known, m, c, v) BY <2>2, <3>2
    <3> HIDE DEF c, m
    <3> QED BY <3>1, <3>3, StatsOK
  <2>4. ASSUME NEW d, MachineOf(d) \in Machine, HasSession(d) PROVE HasSession(d)'
    <3>1. PICK p \in known.entry[MachineOf(d)].sess : p.client = d BY <2>4 DEF HasSession, Session
    <3>2. PICK q \in known'.entry[MachineOf(d)].sess : q.client = d BY <2>3, <2>4, <3>1
    <3>3. MachineOf(d)' = MachineOf(d) BY <1>2, <1>5 DEF MachineOf
    <3> QED BY <3>2, <3>3 DEF HasSession, Session
  <2>5. ShownOK' BY <1>2, <1>3, <1>5, <2>4, ShownKeeps DEF RInv, LinksFollow
  <2> QED BY <1>2, <1>5, <2>3, <2>5 DEF RInv
<1>6. CASE ~ KnowConnect(k) /\ KnowDisconnect(k)
  <2>1. Shown(k) /\ c \in CtlClient /\ m \in Machine BY <1>3, <1>6 DEF KnowDisconnect, Shown
  <2>2. known' = known_clients_on_disconnect(known, m, c) BY <1>6 DEF KnowDisconnect
  <2>3. /\ KnownOK(known')
        /\ \A x \in Machine : \A p \in known.entry[x].sess : p.client # c => p \in known'.entry[x].sess
    BY <2>1, <2>2, DisconnectOK DEF RInv
  <2>4. ~ Shown(k)' BY <1>0, <1>6 DEF KnowDisconnect, SetPc, Shown, RInv, CInv, TypesOK, LinkT
  <2>5. ASSUME NEW j \in Link, NEW d, Shown(j)', d = ctlLink[j].client, d \notin ctlHist.unshown, HasSession(d)
        PROVE  HasSession(d)'
    <3>1. Shown(j) /\ j # k BY <1>2, <1>6, <2>4, <2>5 DEF LinksFollow
    <3>2. d # c BY <2>1, <2>5, <3>1 DEF RInv, ShownOK, ShownAt
    <3>3. MachineOf(d) \in Machine /\ MachineOf(d)' = MachineOf(d) BY <1>2, <1>3, <1>6, <2>5, <3>1 DEF MachineOf
    <3>4. PICK p \in known.entry[MachineOf(d)].sess : p.client = d BY <2>5 DEF HasSession, Session
    <3>5. p \in known'.entry[MachineOf(d)].sess BY <2>3, <3>2, <3>3, <3>4
    <3> QED BY <3>3, <3>4, <3>5 DEF HasSession, Session
  <2>6. ShownOK' BY <1>2, <1>6, <2>5, ShownKeeps DEF RInv, LinksFollow
  <2> QED BY <1>2, <1>6, <2>3, <2>6 DEF RInv
<1> QED BY <1>1, <1>2, <1>4, <1>5, <1>6

\* The file is a list of records, one for each machine.
LEMMA SaveOK ==
  ASSUME RInv, SaveKnown
  PROVE  saved' \in Seq(RecordT)
<1>1. PICK order \in SetToSeqs(Used(known)) : saved' = [j \in DOMAIN order |-> RecordOf(order[j])]
  BY DEF SaveKnown
<1>2. KnownOK(known) BY DEF RInv
<1>3. PICK n \in Nat : n = Cardinality(Used(known)) BY <1>2, FS_CardinalityType DEF KnownOK
<1>4. order \in [1 .. n -> Used(known)] BY <1>1, <1>3 DEF SetToSeqs
<1>5. ASSUME NEW j \in 1 .. n PROVE RecordOf(order[j]) \in RecordT
  <2>1. order[j] \in Machine BY <1>4 DEF Used
  <2>2. known.entry[order[j]] \in KEntryT BY <1>2, <2>1 DEF KnownOK, KnownT
  <2> QED BY <2>1, <2>2 DEF RecordOf, RecordT, KEntryT
<1>6. saved' = [j \in 1 .. n |-> RecordOf(order[j])] BY <1>1, <1>4
<1>7. saved' \in [1 .. n -> RecordT] BY <1>5, <1>6
<1>8. n \in Nat OBVIOUS
<1> QED BY <1>7, <1>8, SeqDef

\* A table without machines.
LEMMA EmptyKnown ==
  ASSUME NEW now \in Int
  PROVE  KnownOK(known_clients_init(now))
<1> DEFINE kn == known_clients_init(now)
<1>1. kn \in KnownT /\ \A m \in Machine : kn.entry[m] = NoEntry BY EmptyEntry DEF known_clients_init, KnownT
<1>2. Used(kn) = {} BY <1>1 DEF Used, NoEntry
<1> HIDE DEF kn
<1>3. KnownOK(kn) BY <1>1, <1>2, EmptyEntry, FS_EmptySet DEF KnownOK
<1> QED BY <1>3 DEF kn

\* The operator's orders, the file of machines and the restart of the server keep
\* the register.
LEMMA OperatorShows ==
  ASSUME RInv, OperatorStep
  PROVE  KnownOK(known') /\ saved' \in Seq(RecordT) /\ ShownOK'
<1>0. ctlHist \in HistT /\ KnownOK(known) /\ saved \in Seq(RecordT) /\ ShownOK
  BY DEF RInv, CInv, TypesOK
<1>1. ASSUME UNCHANGED <<ctlSet, ctlLink, known>>, ctlHist'.unshown = ctlHist.unshown PROVE ShownOK'
  <2>1. \A d : HasSession(d) => HasSession(d)' BY <1>1 DEF HasSession, MachineOf, Session
  <2>2. \A k \in Link : Shown(k)' => Shown(k) /\ ctlLink'[k].client = ctlLink[k].client BY <1>1 DEF Shown
  <2> QED BY <1>0, <1>1, <2>1, <2>2, ShownKeeps
<1>2. ASSUME ByOperator, ctlHist'.unshown = ctlHist.unshown
      PROVE  KnownOK(known') /\ saved' \in Seq(RecordT) /\ ShownOK'
  BY <1>0, <1>1, <1>2 DEF ByOperator
<1>3. ASSUME NEW cmd, ToAll(cmd) PROVE ByOperator /\ ctlHist'.unshown = ctlHist.unshown
  BY <1>0, <1>3 DEF ToAll, HistT
<1>4. ASSUME NEW t, NEW cmd, SendTo(t, cmd) PROVE ByOperator /\ ctlHist'.unshown = ctlHist.unshown
  BY <1>0, <1>4 DEF SendTo, HistT
<1>5. \A S : AmissAfter(S).unshown = ctlHist.unshown BY <1>0 DEF AmissAfter, HistT
<1>6. ASSUME NEW t, NEW n, Roles(t, n) PROVE ByOperator /\ ctlHist'.unshown = ctlHist.unshown
  BY <1>5, <1>6 DEF Roles
<1>7. ASSUME NEW need, AutoRoles(need) PROVE ByOperator /\ ctlHist'.unshown = ctlHist.unshown
  BY <1>5, <1>7 DEF AutoRoles
<1>8. CASE SaveKnown
  <2>1. UNCHANGED <<ctlSet, ctlLink, known, ctlHist>> BY <1>8 DEF SaveKnown
  <2> QED BY <1>0, <1>1, <1>8, <2>1, SaveOK
<1>9. CASE ServerRestart
  <2>1. \A k \in Link : ~ Shown(k)'
    <3> SUFFICES ASSUME NEW k \in Link PROVE ~ Shown(k)' OBVIOUS
    <3>1. ctlLink'[k] = IF ctlLink[k].pc = "none" THEN NoLink ELSE ServerEnds(ctlLink[k])
      BY <1>9 DEF ServerRestart
    <3>2. ctlLink[k] \in LinkT BY LinkFacts DEF RInv
    <3>3. ctlLink'[k].pc \in {"none", "gone"} BY <3>1, <3>2 DEF NoLink, ServerEnds, Over, LinkT
    <3> QED BY <3>3 DEF Shown
  <2>2. ShownOK' BY <2>1 DEF ShownOK, ShownAt
  <2>3. known' = known_clients_init(known.now) /\ known.now \in Int /\ UNCHANGED saved
    BY <1>0, <1>9 DEF ServerRestart, KnownOK, KnownT
  <2> QED BY <1>0, <2>2, <2>3, EmptyKnown
<1>10. CASE RestoreKnown
  <2>1. known' = FoldLeft(apply_persisted_record, known, saved) /\ UNCHANGED <<ctlSet, ctlLink, saved, ctlHist>>
    BY <1>10 DEF RestoreKnown
  <2>2. KnownOK(known') /\ \A m \in Machine : known'.entry[m].sess = known.entry[m].sess
    BY <1>0, <2>1, LoadOK DEF Restored
  <2>3. ASSUME NEW k \in Link, NEW d, Shown(k)', d = ctlLink[k].client, HasSession(d) PROVE HasSession(d)'
    <3>1. d \in CtlClient BY <2>1, <2>3, LinkFacts DEF RInv, Shown, LinkOK
    <3>2. MachineOf(d) \in Machine /\ MachineOf(d)' = MachineOf(d) BY <2>1, <3>1, OnMachine DEF RInv, MachineOf
    <3> QED BY <2>2, <2>3, <3>2 DEF HasSession, Session
  <2>4. \A k \in Link : Shown(k)' => Shown(k) /\ ctlLink'[k].client = ctlLink[k].client BY <2>1 DEF Shown
  <2>5. ShownOK' BY <1>0, <2>1, <2>3, <2>4, ShownKeeps
  <2> QED BY <1>0, <2>1, <2>2, <2>5
<1> QED BY <1>2, <1>3, <1>4, <1>6, <1>7, <1>8, <1>9, <1>10 DEF OperatorStep

\* The register of machines shows what is connected: the counts of each machine are
\* those of its sessions, and a client that is served, on one connection and with
\* room for it, is shown, whatever connects, ends, is evicted, saved or restored
\* (known_clients_registry_on_connect, _on_disconnect, _load).
THEOREM RegisterIsExact == CtlSpec => []RegisterExact
<1>1. CtlInit => RInv
  <2> SUFFICES ASSUME CtlInit PROVE RInv OBVIOUS
  <2>1. CInv BY InitOK
  <2>2. KnownOK(known) BY EmptyKnown DEF CtlInit
  <2>3. saved \in Seq(RecordT) BY DEF CtlInit
  <2>4. ShownOK BY DEF CtlInit, ShownOK, ShownAt, Shown, NoLink
  <2> QED BY <2>1, <2>2, <2>3, <2>4 DEF RInv
<1>2. ASSUME RInv, [CtlNext]_ctlVars, CInv' PROVE RInv'
  <2>1. CASE \E c \in CtlClient : CtlClientStep(c)
    <3>1. LinksFollow /\ UNCHANGED <<ctlSet, known, saved, ctlHist>> BY <1>2, <2>1, ClientFollows DEF RInv
    <3>2. \A d : HasSession(d) => HasSession(d)' BY <3>1 DEF HasSession, MachineOf, Session
    <3>3. ShownOK' BY <1>2, <3>1, <3>2, ShownKeeps DEF RInv, LinksFollow
    <3> QED BY <1>2, <3>1, <3>3 DEF RInv
  <2>2. CASE \E k \in Link : ServerStep(k)
    <3>1. KnownOK(known') /\ saved' \in Seq(RecordT) /\ ShownOK' BY <1>2, <2>2, ServerShows
    <3> QED BY <1>2, <3>1 DEF RInv
  <2>3. CASE OperatorStep
    <3>1. KnownOK(known') /\ saved' \in Seq(RecordT) /\ ShownOK' BY <1>2, <2>3, OperatorShows
    <3> QED BY <1>2, <3>1 DEF RInv
  <2>4. CASE UNCHANGED ctlVars
    <3>1. UNCHANGED <<ctlSet, ctlLink, known, saved, ctlHist>> BY <2>4 DEF ctlVars
    <3>2. \A d : HasSession(d) => HasSession(d)' BY <3>1 DEF HasSession, MachineOf, Session
    <3>3. \A k \in Link : Shown(k)' => Shown(k) /\ ctlLink'[k].client = ctlLink[k].client BY <3>1 DEF Shown
    <3>4. ShownOK' BY <1>2, <3>1, <3>2, <3>3, ShownKeeps DEF RInv
    <3> QED BY <1>2, <3>1, <3>4 DEF RInv
  <2> QED BY <1>2, <2>1, <2>2, <2>3, <2>4 DEF CtlNext
<1>3. RInv => KnownCountsExact /\ ConnectedShown
  <2> SUFFICES ASSUME RInv PROVE KnownCountsExact /\ ConnectedShown OBVIOUS
  <2>1. KnownCountsExact BY DEF RInv, KnownOK, EntryOK, Playing, KnownCountsExact
  <2>2. ConnectedShown BY DEF RInv, ShownOK, ShownAt, Shown, HasSession, ConnectedShown
  <2> QED BY <2>1, <2>2
<1>4. CtlSpec => []RInv BY <1>1, <1>2, ChannelInvariant, PTL DEF CtlSpec
<1> QED BY <1>3, <1>4, SlotsHaveOneOwner, PTL DEF RegisterExact

=============================================================================
