-------------------------- MODULE SortInputProofs --------------------------
(***************************************************************************)
(* The parallel reader of a compressed backup hands over the file in its    *)
(* order, for every file, every size of the ring and every set of workers,  *)
(* and no two threads use a slot at the same time without the mutex.        *)
(*                                                                         *)
(* The invariant speaks of sequence numbers, not of slots: item q + 1 of    *)
(* the file has the number q, and the numbers from consumed to produced,    *)
(* the one the dispatcher fills included, fall on different slots           *)
(* (SlotsApart).  For each number of the window it says what the state of   *)
(* its slot promises of the content.                                        *)
(*                                                                         *)
(* The last part is about the sort that reads this (BackupSort): for every  *)
(* input, every number of threads and every failure, the files it leaves.   *)
(***************************************************************************)
EXTENDS SortInput, BackupSort, FiniteSetTheorems, TLAPS

SlotType == [state : {PinFree, PinQueued, Busy, Ready, End, PinFailed}, src : Nat, out : Nat]
PinType == [ring : [0 .. (Ring - 1) -> SlotType], produced : Nat, consumed : Nat,
            pending : Nat, stop : BOOLEAN]
PinTypeOK ==
  /\ pinIn \in Seq(Item)
  /\ pin \in PinType
  /\ disp \in [pc : {"reserve", "space", "fill", "publish", "done"}, at : Nat, err : BOOLEAN]
  /\ unp \in [Unpacker -> [pc : {"scan", "wait", "unpack", "mark", "exit"}, seq : Nat]]
  /\ rdr \in [pc : {"check", "wait", "copy", "take", "eof", "error", "join", "freed"},
              out : Seq(Nat)]

At(p, q) == p.ring[SlotOf(q)]
Window == pin.consumed .. (pin.produced - 1)
Filling == disp.pc \in {"fill", "publish"}
Working(w) == unp[w].pc \in {"unpack", "mark"}

\* The window fits the ring; while the dispatcher fills a slot, with one slot less.
WindowOK ==
  /\ pin.consumed <= pin.produced /\ pin.produced - pin.consumed <= Ring
  /\ Filling => pin.produced - pin.consumed < Ring

\* The dispatcher is one item ahead of what it has published, and stops at the end of
\* the file or at the first item that is not a frame.
DispatcherOK ==
  /\ disp.at = pin.produced + 1
  /\ disp.pc # "done" => pin.produced <= Len(pinIn)
  /\ disp.pc \in {"reserve", "space"} => ~ disp.err
  /\ Filling => (disp.err <=> disp.at <= Len(pinIn) /\ pinIn[disp.at] = "broken")
  /\ disp.pc = "publish" /\ ~ AtEnd =>
       IF pinIn[disp.at] = "chunk" THEN At(pin, pin.produced).out = disp.at
       ELSE At(pin, pin.produced).src = disp.at

\* What the state of slot s says of item q + 1.
Promises(s, q) ==
  /\ s.state # PinFree
  /\ s.state \in {PinQueued, Busy} =>
       q < Len(pinIn) /\ pinIn[q + 1] \in {"frame", "badframe"} /\ s.src = q + 1
  /\ s.state = Ready => q < Len(pinIn) /\ pinIn[q + 1] \in {"frame", "chunk"} /\ s.out = q + 1
  /\ s.state = End => q = Len(pinIn)
  /\ s.state = PinFailed => q < Len(pinIn) /\ pinIn[q + 1] \in {"badframe", "broken"}
RingOK == \A q \in Window : Promises(At(pin, q), q)

\* A worker has a frame of its own, and has decompressed it when it marks the slot.
WorkersOK ==
  /\ \A w \in Unpacker : Working(w) => unp[w].seq \in Window /\ At(pin, unp[w].seq).state = Busy
  /\ \A v, w \in Unpacker : Working(v) /\ Working(w) /\ unp[v].seq = unp[w].seq => v = w
  /\ \A w \in Unpacker : unp[w].pc = "mark" /\ pinIn[unp[w].seq + 1] = "frame" =>
       At(pin, unp[w].seq).out = unp[w].seq + 1

\* The reader has handed over the items before the window, and the first one of it when
\* it is about to take its slot.
ReaderOK ==
  /\ Len(rdr.out) = IF rdr.pc = "take" THEN pin.consumed + 1 ELSE pin.consumed
  /\ \A i \in 1 .. Len(rdr.out) : rdr.out[i] = i /\ i <= Len(pinIn) /\ pinIn[i] \in {"frame", "chunk"}
  /\ rdr.pc \in {"copy", "take", "eof", "error"} => pin.consumed < pin.produced
  /\ rdr.pc \in {"copy", "take"} => At(pin, pin.consumed).state = Ready
  /\ rdr.pc = "eof" => At(pin, pin.consumed).state = End
  /\ rdr.pc = "error" => At(pin, pin.consumed).state = PinFailed

SInv == PinTypeOK /\ WindowOK /\ DispatcherOK /\ RingOK /\ WorkersOK /\ ReaderOK

-----------------------------------------------------------------------------
(* Slots, and the smallest number to claim.                                *)

\* Two numbers less than Ring apart fall on different slots.
LEMMA SlotsApart ==
  ASSUME NEW p \in Nat, NEW q \in Nat, p <= q, q - p < Ring, SlotOf(p) = SlotOf(q)
  PROVE  p = q
<1>1. Ring \in Nat \ {0}
  BY PinAssumption
<1>2. p = Ring * (p \div Ring) + (p % Ring) /\ q = Ring * (q \div Ring) + (q % Ring)
  BY <1>1
<1> DEFINE d == (q \div Ring) - (p \div Ring)
<1>3. q - p = Ring * d /\ d \in Int
  BY <1>1, <1>2 DEF SlotOf
<1> HIDE DEF d
<1>4. ~ (d >= 1)
  <2>1. ASSUME d >= 1 PROVE Ring * d >= Ring
    BY <1>1, <1>3, <2>1
  <2> QED
    BY <1>1, <1>3, <2>1
<1>5. ~ (d <= -1)
  <2>1. ASSUME d <= -1 PROVE Ring * d <= -Ring
    BY <1>1, <1>3, <2>1
  <2> QED
    BY <1>1, <1>3, <2>1
<1> QED
  BY <1>1, <1>3, <1>4, <1>5

LEMMA SlotInRing ==
  ASSUME NEW q \in Nat
  PROVE  SlotOf(q) \in 0 .. (Ring - 1)
BY PinAssumption DEF SlotOf

\* Two numbers of the window, or one and the number the dispatcher fills.
LEMMA WindowApart ==
  ASSUME SInv, NEW p \in Nat, NEW q \in Nat,
         pin.consumed <= p, pin.consumed <= q, p < pin.produced \/ (Filling /\ p = pin.produced),
         q < pin.produced \/ (Filling /\ q = pin.produced), SlotOf(p) = SlotOf(q)
  PROVE  p = q
<1>1. pin.produced \in Nat /\ pin.consumed \in Nat /\ Ring \in Nat
  BY PinAssumption DEF SInv, PinTypeOK, PinType
<1>2. (p <= q /\ q - p < Ring) \/ (q <= p /\ p - q < Ring)
  BY <1>1 DEF SInv, WindowOK
<1> QED
  BY <1>2, SlotsApart

LEMMA Shape ==
  ASSUME PinTypeOK
  PROVE  /\ Ring \in Nat /\ Ring > 0 /\ pin \in PinType
         /\ pin.produced \in Nat /\ pin.consumed \in Nat /\ pin.pending \in Nat
         /\ \A i \in 0 .. (Ring - 1) : pin.ring[i] \in SlotType
         /\ pinIn \in Seq(Item) /\ Len(pinIn) \in Nat /\ disp.at \in Nat /\ disp.err \in BOOLEAN
         /\ \A w \in Unpacker : unp[w].seq \in Nat
         /\ rdr.out \in Seq(Nat) /\ Len(rdr.out) \in Nat
BY PinAssumption DEF PinTypeOK, PinType

-----------------------------------------------------------------------------
(* The dispatcher.                                                         *)

LEMMA ReserveKeeps == ASSUME SInv, PinReserve PROVE SInv'
<1>0. /\ disp.pc = "reserve" /\ UNCHANGED <<pinIn, pin, unp, rdr>>
      /\ disp' = CASE pin.stop -> [disp EXCEPT !.pc = "done"]
                   [] ~ pin.stop /\ RingFull(pin) -> [disp EXCEPT !.pc = "space"]
                   [] OTHER -> [disp EXCEPT !.pc = "fill", !.err = @ \/ (disp.at <= Len(pinIn) /\ AtEnd)]
  BY DEF PinReserve
<1>1. /\ disp \in [pc : {"reserve", "space", "fill", "publish", "done"}, at : Nat, err : BOOLEAN]
      /\ disp.err = FALSE /\ pin.stop \in BOOLEAN
  BY <1>0 DEF SInv, PinTypeOK, PinType, DispatcherOK
<1>2. disp.at <= Len(pinIn) => (AtEnd <=> pinIn[disp.at] = "broken")
  BY <1>1, Shape DEF AtEnd, SInv
<1>3. /\ disp'.at = disp.at /\ disp' \in [pc : {"reserve", "space", "fill", "publish", "done"}, at : Nat, err : BOOLEAN]
      /\ \/ disp'.pc \in {"done", "space"} /\ disp'.err = FALSE
         \/ /\ disp'.pc = "fill" /\ ~ RingFull(pin)
            /\ disp'.err <=> disp.at <= Len(pinIn) /\ pinIn[disp.at] = "broken"
  <2>1. CASE pin.stop
    BY <1>0, <1>1, <2>1
  <2>2. CASE ~ pin.stop /\ RingFull(pin)
    BY <1>0, <1>1, <2>2
  <2>3. CASE ~ pin.stop /\ ~ RingFull(pin)
    <3>1. disp' = [disp EXCEPT !.pc = "fill", !.err = disp.err \/ (disp.at <= Len(pinIn) /\ AtEnd)]
      BY <1>0, <2>3
    <3>2. CASE disp.at <= Len(pinIn) /\ pinIn[disp.at] = "broken"
      BY <1>1, <1>2, <2>3, <3>1, <3>2
    <3>3. CASE ~ (disp.at <= Len(pinIn) /\ pinIn[disp.at] = "broken")
      BY <1>1, <1>2, <2>3, <3>1, <3>3
    <3> QED
      BY <3>2, <3>3
  <2> QED
    BY <1>1, <2>1, <2>2, <2>3
<1>4. PinTypeOK'
  BY <1>0, <1>3 DEF SInv, PinTypeOK
<1>5. WindowOK'
  BY <1>0, <1>3, Shape DEF SInv, WindowOK, Filling, RingFull
<1>6. DispatcherOK'
  BY <1>0, <1>1, <1>3 DEF SInv, DispatcherOK, Filling
<1>7. RingOK' /\ WorkersOK' /\ ReaderOK'
  BY <1>0 DEF SInv, RingOK, WorkersOK, ReaderOK, At, Window, Promises, Working
<1> QED
  BY <1>4, <1>5, <1>6, <1>7 DEF SInv

LEMMA FillKeeps == ASSUME SInv, Fill PROVE SInv'
<1> DEFINE i == SlotOf(pin.produced)
           item == pinIn[disp.at]
<1>0. /\ disp.pc = "fill" /\ disp' = [disp EXCEPT !.pc = "publish"]
      /\ UNCHANGED <<pinIn, unp, rdr>>
  BY DEF Fill
<1>1. /\ pin.produced \in Nat /\ pin.consumed \in Nat /\ i \in 0 .. (Ring - 1) /\ disp.at \in Nat
      /\ pin \in PinType /\ pin.ring[i] \in SlotType /\ Filling
  BY <1>0, SlotInRing DEF SInv, PinTypeOK, PinType, Filling
<1>2. /\ pin'.produced = pin.produced /\ pin'.consumed = pin.consumed /\ pin' \in PinType
      /\ \A j \in 0 .. (Ring - 1) : j # i => pin'.ring[j] = pin.ring[j]
      /\ ~ AtEnd /\ item = "chunk" => pin'.ring[i].out = disp.at
      /\ ~ AtEnd /\ item # "chunk" => pin'.ring[i].src = disp.at
  <2>1. CASE AtEnd
    BY <1>1, <2>1 DEF Fill
  <2>2. CASE ~ AtEnd /\ item = "chunk"
    BY <1>1, <2>2 DEF Fill, PinType, SlotType
  <2>3. CASE ~ AtEnd /\ item # "chunk"
    BY <1>1, <2>3 DEF Fill, PinType, SlotType
  <2> QED
    BY <2>1, <2>2, <2>3
<1>3. \A q \in Nat : pin.consumed <= q /\ q < pin.produced => At(pin', q) = At(pin, q)
  BY <1>1, <1>2, SlotInRing, WindowApart DEF At
<1>4. PinTypeOK' /\ WindowOK'
  BY <1>0, <1>2 DEF SInv, PinTypeOK, WindowOK, Filling
<1>5. DispatcherOK'
  <2>1. AtEnd' <=> AtEnd
    BY <1>0, <1>1 DEF SInv, PinTypeOK, AtEnd
  <2>2. At(pin', pin.produced) = pin'.ring[i] /\ disp'.at = disp.at /\ disp'.err = disp.err
    BY <1>0, <1>2 DEF SInv, PinTypeOK, At
  <2> QED
    BY <1>0, <1>2, <2>1, <2>2 DEF SInv, PinTypeOK, DispatcherOK, Filling, At
<1>6. RingOK'
  BY <1>0, <1>1, <1>2, <1>3 DEF SInv, RingOK, Window, Promises
<1>7. WorkersOK'
  <2>1. \A q \in Window : q \in Nat /\ q \in Window' /\ At(pin', q) = At(pin, q)
    BY <1>1, <1>2, <1>3 DEF Window
  <2>2. \A w \in Unpacker : At(pin', unp[w].seq) = pin'.ring[SlotOf(unp[w].seq)]
    BY <1>0 DEF At
  <2>3. \A w \in Unpacker : unp[w].seq \in Window => At(pin', unp[w].seq) = At(pin, unp[w].seq)
    BY <1>0, <2>1
  <2> QED
    BY <1>0, <2>1, <2>3 DEF SInv, WorkersOK, Working
<1>8. ReaderOK'
  BY <1>0, <1>1, <1>2, <1>3 DEF SInv, ReaderOK
<1> QED
  BY <1>4, <1>5, <1>6, <1>7, <1>8 DEF SInv

\* A signal wakes a waiting worker, if there is one.
LEMMA WorkSignalled ==
  ASSUME NEW u \in [Unpacker -> [pc : {"scan", "wait", "unpack", "mark", "exit"}, seq : Nat]],
         NEW v \in SignalWork(u), \A w \in Waiting : u[w].pc = "wait"
  PROVE  /\ v \in [Unpacker -> [pc : {"scan", "wait", "unpack", "mark", "exit"}, seq : Nat]]
         /\ \A w \in Unpacker : /\ v[w].seq = u[w].seq
                                /\ v[w].pc = u[w].pc \/ (u[w].pc = "wait" /\ v[w].pc = "scan")
<1>1. CASE Waiting = {}
  BY <1>1 DEF SignalWork
<1>2. CASE Waiting # {}
  <2>1. PICK x \in Waiting : v = [u EXCEPT ![x].pc = "scan"]
    BY <1>2 DEF SignalWork
  <2>2. x \in Unpacker /\ u[x].pc = "wait"
    BY <2>1 DEF Waiting
  <2> QED
    BY <2>1, <2>2
<1> QED
  BY <1>1, <1>2

LEMMA RingAndProduced ==
  ASSUME NEW p \in PinType, NEW r \in [0 .. (Ring - 1) -> SlotType], NEW n \in Nat
  PROVE  [p EXCEPT !.ring = r, !.produced = n] \in PinType
BY DEF PinType

LEMMA PublishKeeps == ASSUME SInv, Publish PROVE SInv'
<1> DEFINE i == SlotOf(pin.produced)
           item == pinIn[disp.at]
           state == IF AtEnd THEN IF disp.err THEN PinFailed ELSE End
                    ELSE IF pinIn[disp.at] = "chunk" THEN Ready ELSE PinQueued
<1>0. /\ disp.pc = "publish" /\ UNCHANGED pinIn
      /\ pin' = [pin EXCEPT !.ring[i].state = state, !.produced = @ + 1]
      /\ disp' = [disp EXCEPT !.pc = IF AtEnd THEN "done" ELSE "reserve", !.at = @ + 1]
      /\ IF state = PinQueued THEN unp' \in SignalWork(unp) /\ UNCHANGED rdr
         ELSE rdr' = SignalReady(rdr) /\ UNCHANGED unp
  BY DEF Publish
<1>1. /\ pin.produced \in Nat /\ pin.consumed \in Nat /\ i \in 0 .. (Ring - 1)
      /\ pin \in PinType /\ pin.ring[i] \in SlotType /\ Filling
      /\ state \in {PinFree, PinQueued, Busy, Ready, End, PinFailed}
      /\ disp.at = pin.produced + 1 /\ pinIn \in Seq(Item) /\ Len(pinIn) \in Nat
  <2>1. state \in {PinFree, PinQueued, Busy, Ready, End, PinFailed}
    OBVIOUS
  <2>2. disp.at = pin.produced + 1 /\ Filling
    BY <1>0 DEF SInv, DispatcherOK, Filling
  <2> QED
    BY <2>1, <2>2, SlotInRing, Shape DEF SInv
<1> HIDE DEF state
<1>2. /\ pin'.produced = pin.produced + 1 /\ pin'.consumed = pin.consumed /\ pin' \in PinType
      /\ \A j \in 0 .. (Ring - 1) : j # i => pin'.ring[j] = pin.ring[j]
      /\ pin'.ring[i].state = state
      /\ pin'.ring[i].src = pin.ring[i].src /\ pin'.ring[i].out = pin.ring[i].out
  <2> DEFINE ring == [pin.ring EXCEPT ![i] = [pin.ring[i] EXCEPT !.state = state]]
  <2>1. /\ ring \in [0 .. (Ring - 1) -> SlotType]
        /\ \A j \in 0 .. (Ring - 1) : j # i => ring[j] = pin.ring[j]
        /\ ring[i].state = state /\ ring[i].src = pin.ring[i].src /\ ring[i].out = pin.ring[i].out
    BY <1>1 DEF PinType, SlotType
  <2>2. pin' = [pin EXCEPT !.ring = ring, !.produced = pin.produced + 1]
    BY <1>0
  <2> HIDE DEF ring
  <2>3. pin'.ring = ring /\ pin'.produced = pin.produced + 1 /\ pin'.consumed = pin.consumed
    BY <1>1, <2>2 DEF PinType
  <2>4. pin' \in PinType
    <3>1. pin.produced + 1 \in Nat
      BY <1>1
    <3> QED
      BY <1>1, <2>1, <2>2, <3>1, RingAndProduced
  <2> QED
    BY <2>1, <2>3, <2>4
<1>3. \A q \in Nat : pin.consumed <= q /\ q < pin.produced => At(pin', q) = At(pin, q)
  <2> SUFFICES ASSUME NEW q \in Nat, pin.consumed <= q, q < pin.produced PROVE At(pin', q) = At(pin, q)
    OBVIOUS
  <2>1. SlotOf(q) \in 0 .. (Ring - 1)
    BY SlotInRing
  <2>2. pin.consumed <= pin.produced
    BY DEF SInv, WindowOK
  <2>3. SlotOf(q) # i
    BY <1>1, <2>2, WindowApart
  <2> QED
    BY <1>2, <2>1, <2>3 DEF At
<1>4. \A q \in Window' : q \in Nat /\ pin.consumed <= q /\ (q < pin.produced \/ q = pin.produced)
  BY <1>1, <1>2 DEF Window
<1>5. /\ disp'.at = disp.at + 1 /\ disp'.err = disp.err
      /\ disp'.pc = IF AtEnd THEN "done" ELSE "reserve"
      /\ disp' \in [pc : {"reserve", "space", "fill", "publish", "done"}, at : Nat, err : BOOLEAN]
  <2>1. disp \in [pc : {"reserve", "space", "fill", "publish", "done"}, at : Nat, err : BOOLEAN]
    BY DEF SInv, PinTypeOK
  <2>2. PICK c \in {"done", "reserve"} : c = IF AtEnd THEN "done" ELSE "reserve"
    OBVIOUS
  <2>3. PICK n \in Nat : n = disp.at + 1
    BY <1>1
  <2> QED
    BY <1>0, <2>1, <2>2, <2>3
<1>6. /\ unp' \in [Unpacker -> [pc : {"scan", "wait", "unpack", "mark", "exit"}, seq : Nat]]
      /\ \A w \in Unpacker : /\ unp'[w].seq = unp[w].seq
                             /\ Working(w)' <=> Working(w)
                             /\ unp'[w].pc = "mark" <=> unp[w].pc = "mark"
  <2>1. unp \in [Unpacker -> [pc : {"scan", "wait", "unpack", "mark", "exit"}, seq : Nat]]
        /\ \A w \in Waiting : unp[w].pc = "wait"
    BY DEF SInv, PinTypeOK, Waiting
  <2>2. CASE state = PinQueued
    BY <1>0, <2>1, <2>2, WorkSignalled DEF Working
  <2>3. CASE state # PinQueued
    BY <1>0, <2>1, <2>3 DEF Working
  <2> QED
    BY <2>2, <2>3
<1>7. /\ rdr'.out = rdr.out
      /\ rdr'.pc = rdr.pc \/ (rdr.pc = "wait" /\ rdr'.pc = "check")
      /\ rdr' \in [pc : {"check", "wait", "copy", "take", "eof", "error", "join", "freed"}, out : Seq(Nat)]
  BY <1>0 DEF SInv, PinTypeOK, SignalReady
<1>8. PinTypeOK'
  BY <1>0, <1>1, <1>2, <1>5, <1>6, <1>7 DEF PinTypeOK
<1>9. WindowOK'
  BY <1>1, <1>2, <1>5, Shape DEF SInv, WindowOK, Filling
<1>10. DispatcherOK'
  BY <1>0, <1>1, <1>2, <1>5 DEF SInv, DispatcherOK, Filling, AtEnd
<1>11. RingOK'
  <2>1. Promises(pin'.ring[i], pin.produced)
    <3>1. pin.produced <= Len(pinIn) /\ (disp.err <=> disp.at <= Len(pinIn) /\ pinIn[disp.at] = "broken")
      BY <1>0, <1>1 DEF SInv, DispatcherOK
    <3>2. ASSUME AtEnd PROVE Promises(pin'.ring[i], pin.produced)
      <4>1. state = IF disp.err THEN PinFailed ELSE End
        BY <3>2 DEF state
      <4>2. CASE disp.err
        BY <1>1, <1>2, <3>1, <4>1, <4>2 DEF Promises, PinFree, PinQueued, Busy, Ready, End, PinFailed
      <4>3. CASE ~ disp.err
        BY <1>1, <1>2, <3>1, <3>2, <4>1, <4>3
           DEF Promises, AtEnd, PinFree, PinQueued, Busy, Ready, End, PinFailed
      <4> QED
        BY <4>2, <4>3
    <3>3. ASSUME ~ AtEnd PROVE Promises(pin'.ring[i], pin.produced)
      <4>1. state = IF item = "chunk" THEN Ready ELSE PinQueued
        BY <3>3 DEF state
      <4>2. disp.at <= Len(pinIn) /\ item \in {"frame", "badframe", "chunk"}
        BY <1>1, <3>3 DEF AtEnd, Item
      <4>3. CASE item = "chunk"
        <5>1. pin.ring[i].out = disp.at
          BY <1>0, <3>3, <4>3 DEF SInv, DispatcherOK, At
        <5> QED
          BY <1>1, <1>2, <4>1, <4>2, <4>3, <5>1
             DEF Promises, PinFree, PinQueued, Busy, Ready, End, PinFailed
      <4>4. CASE item # "chunk"
        <5>1. pin.ring[i].src = disp.at
          BY <1>0, <3>3, <4>4 DEF SInv, DispatcherOK, At
        <5> QED
          BY <1>1, <1>2, <4>1, <4>2, <4>4, <5>1
             DEF Promises, PinFree, PinQueued, Busy, Ready, End, PinFailed
      <4> QED
        BY <4>3, <4>4
    <3> QED
      BY <3>2, <3>3
  <2>2. ASSUME NEW q \in Window' PROVE Promises(At(pin, q), q)'
    <3>1. CASE q < pin.produced
      <4>1. Promises(At(pin, q), q)
        BY <1>4, <3>1, <1>1 DEF SInv, RingOK, Window
      <4> QED
        BY <1>0, <1>3, <1>4, <3>1, <4>1 DEF Promises
    <3>2. CASE q = pin.produced
      <4>1. At(pin', q) = pin'.ring[i]
        BY <3>2 DEF At
      <4> QED
        BY <1>0, <2>1, <3>2, <4>1 DEF Promises
    <3> QED
      BY <1>4, <3>1, <3>2
  <2> QED
    BY <2>2 DEF RingOK
<1>12. WorkersOK'
  <2>1. \A q \in Window : q \in Nat /\ q \in Window' /\ At(pin', q) = At(pin, q)
    BY <1>1, <1>2, <1>3 DEF Window
  <2>2. \A w \in Unpacker : unp[w].seq \in Window =>
          unp[w].seq \in Window' /\ At(pin', unp[w].seq) = At(pin, unp[w].seq)
    <3> SUFFICES ASSUME NEW w \in Unpacker, unp[w].seq \in Window
                 PROVE unp[w].seq \in Window' /\ At(pin', unp[w].seq) = At(pin, unp[w].seq)
      OBVIOUS
    <3>1. At(pin', unp[w].seq) = pin'.ring[SlotOf(unp[w].seq)]
      BY <1>6 DEF At
    <3> QED
      BY <2>1, <3>1 DEF At
  <2>3. /\ \A w \in Unpacker : Working(w)' => unp'[w].seq \in Window' /\ At(pin', unp[w].seq).state = Busy
        /\ \A v, w \in Unpacker : Working(v)' /\ Working(w)' /\ unp'[v].seq = unp'[w].seq => v = w
    BY <1>6, <2>2 DEF SInv, WorkersOK
  <2>4. \A w \in Unpacker : unp'[w].pc = "mark" /\ pinIn[unp'[w].seq + 1] = "frame" =>
          At(pin', unp[w].seq).out = unp'[w].seq + 1
    <3>1. \A w \in Unpacker : unp[w].pc = "mark" => Working(w)
      BY DEF Working
    <3> QED
      BY <1>6, <2>2, <3>1 DEF SInv, WorkersOK
  <2> QED
    BY <1>0, <1>6, <2>3, <2>4 DEF WorkersOK
<1>13. ReaderOK'
  <2>1. /\ Len(rdr'.out) = IF rdr'.pc = "take" THEN pin'.consumed + 1 ELSE pin'.consumed
        /\ \A j \in 1 .. Len(rdr'.out) : rdr'.out[j] = j /\ j <= Len(pinIn') /\ pinIn'[j] \in {"frame", "chunk"}
    <3>1. rdr.out = rdr'.out /\ (rdr'.pc = "take" <=> rdr.pc = "take") /\ UNCHANGED pinIn
      BY <1>0, <1>7
    <3> QED
      BY <1>2, <3>1 DEF SInv, ReaderOK
  <2>2. rdr'.pc \in {"copy", "take", "eof", "error"} =>
          rdr'.pc = rdr.pc /\ pin.consumed < pin.produced /\ At(pin', pin.consumed) = At(pin, pin.consumed)
    <3>1. rdr'.pc \in {"copy", "take", "eof", "error"} => rdr'.pc = rdr.pc /\ pin.consumed < pin.produced
      BY <1>7 DEF SInv, ReaderOK
    <3>2. pin.consumed < pin.produced => At(pin', pin.consumed) = pin'.ring[SlotOf(pin.consumed)]
      BY <1>2 DEF At
    <3>3. pin.consumed < pin.produced => pin'.ring[SlotOf(pin.consumed)] = At(pin, pin.consumed)
      BY <1>1, <1>3, <1>2 DEF At
    <3> QED
      BY <3>1, <3>2, <3>3
  <2> QED
    BY <1>1, <1>2, <2>1, <2>2 DEF SInv, ReaderOK
<1> QED
  BY <1>8, <1>9, <1>10, <1>11, <1>12, <1>13 DEF SInv

-----------------------------------------------------------------------------
(* The workers.                                                            *)

LEMMA UnpackKeeps == ASSUME SInv, NEW w \in Unpacker, Unpack(w) PROVE SInv'
<1> DEFINE n == unp[w].seq
           i == SlotOf(n)
           item == pin.ring[i].src
<1>0. /\ unp[w].pc = "unpack" /\ unp' = [unp EXCEPT ![w].pc = "mark"]
      /\ UNCHANGED <<pinIn, disp, rdr>>
      /\ pin' = IF item # Nothing /\ pinIn[item] = "frame" THEN [pin EXCEPT !.ring[i].out = item] ELSE pin
  BY DEF Unpack
<1>20. pinIn' = pinIn /\ disp' = disp /\ rdr' = rdr
  BY <1>0
<1>1. /\ pin.produced \in Nat /\ pin.consumed \in Nat /\ pin \in PinType
      /\ n \in Window /\ n \in Nat /\ i \in 0 .. (Ring - 1) /\ At(pin, n).state = Busy
      /\ item = n + 1 /\ pin.ring[i] \in SlotType /\ item # Nothing
  <2>1. /\ pin.produced \in Nat /\ pin.consumed \in Nat /\ pin \in PinType
        /\ n \in Window /\ n \in Nat /\ At(pin, n).state = Busy
    BY <1>0 DEF SInv, PinTypeOK, PinType, WorkersOK, Working, Window
  <2>2. i \in 0 .. (Ring - 1)
    BY <2>1, SlotInRing
  <2>3. item = n + 1
    BY <2>1 DEF SInv, RingOK, Promises, At
  <2>4. pin.ring[i] \in SlotType
    BY <2>2, Shape DEF SInv
  <2> QED
    BY <2>1, <2>2, <2>3, <2>4 DEF Nothing
<1>2. /\ pin'.produced = pin.produced /\ pin'.consumed = pin.consumed /\ pin' \in PinType
      /\ \A j \in 0 .. (Ring - 1) : j # i => pin'.ring[j] = pin.ring[j]
      /\ pin'.ring[i].state = pin.ring[i].state /\ pin'.ring[i].src = pin.ring[i].src
      /\ pinIn[n + 1] = "frame" => pin'.ring[i].out = n + 1
  <2>1. CASE pinIn[item] = "frame"
    BY <1>0, <1>1, <2>1 DEF PinType, SlotType
  <2>2. CASE pinIn[item] # "frame"
    BY <1>0, <1>1, <2>2
  <2> QED
    BY <2>1, <2>2
<1>3. \A q \in Nat : pin.consumed <= q /\ (q < pin.produced \/ (Filling /\ q = pin.produced)) =>
        At(pin', q) = At(pin, q) \/ q = n
  BY <1>1, <1>2, SlotInRing, WindowApart DEF At, Window
<1>4. At(pin', n).state = Busy /\ At(pin', n).src = n + 1 /\ (pinIn[n + 1] = "frame" => At(pin', n).out = n + 1)
  <2>1. At(pin', n) = pin'.ring[i]
    <3>1. unp'[w].seq = n
      BY <1>0 DEF SInv, PinTypeOK
    <3> QED
      BY <3>1 DEF At
  <2> QED
    BY <1>1, <1>2, <2>1 DEF At
<1>5. /\ unp' \in [Unpacker -> [pc : {"scan", "wait", "unpack", "mark", "exit"}, seq : Nat]]
      /\ \A v \in Unpacker : unp'[v].seq = unp[v].seq /\ (v # w => unp'[v].pc = unp[v].pc)
      /\ unp'[w].pc = "mark"
  <2>1. unp \in [Unpacker -> [pc : {"scan", "wait", "unpack", "mark", "exit"}, seq : Nat]]
    BY DEF SInv, PinTypeOK
  <2>2. unp' = [unp EXCEPT ![w].pc = "mark"]
    BY <1>0
  <2> QED
    BY <2>1, <2>2
<1> HIDE DEF item
<1>6. PinTypeOK'
  BY <1>20, <1>2, <1>5 DEF SInv, PinTypeOK
<1>7. WindowOK'
  BY <1>20, <1>2 DEF SInv, WindowOK, Filling
<1>8. DispatcherOK'
  <2>1. AtEnd' <=> AtEnd
    BY <1>0 DEF AtEnd
  <2>2. disp.pc = "publish" => At(pin', pin.produced) = At(pin, pin.produced)
    <3>1. disp.pc = "publish" => Filling /\ pin.consumed <= pin.produced /\ pin.produced # n
      BY <1>1 DEF Filling, Window, SInv, WindowOK
    <3> QED
      BY <1>1, <1>2, <1>3, <3>1 DEF At
  <2> QED
    BY <1>20, <1>2, <2>1, <2>2 DEF SInv, DispatcherOK, Filling
<1>9. RingOK'
  <2> SUFFICES ASSUME NEW q \in Window' PROVE Promises(At(pin, q), q)'
    BY DEF RingOK
  <2>1. q \in Nat /\ q \in Window /\ Promises(At(pin, q), q)
    BY <1>1, <1>2 DEF Window, SInv, RingOK
  <2>2. CASE q # n
    <3>1. At(pin', q) = At(pin, q)
      BY <1>1, <1>3, <2>1, <2>2 DEF Window
    <3> QED
      BY <1>20, <2>1, <3>1 DEF Promises
  <2>3. CASE q = n
    <3>1. At(pin', q) = pin'.ring[i] /\ At(pin, q) = pin.ring[i]
      BY <2>3 DEF At
    <3> QED
      BY <1>20, <1>1, <1>2, <2>1, <2>3, <3>1
         DEF Promises, PinFree, PinQueued, Busy, Ready, End, PinFailed
  <2> QED
    BY <2>2, <2>3
<1>10. WorkersOK'
  <2>1. \A v \in Unpacker : Working(v)' <=> Working(v)
    BY <1>0, <1>5 DEF Working
  <2>2. \A v \in Unpacker : Working(v) =>
          /\ unp[v].seq \in Window' /\ At(pin', unp[v].seq).state = Busy
          /\ v # w => At(pin', unp[v].seq) = At(pin, unp[v].seq)
    <3> SUFFICES ASSUME NEW v \in Unpacker, Working(v)
                 PROVE /\ unp[v].seq \in Window' /\ At(pin', unp[v].seq).state = Busy
                       /\ v # w => At(pin', unp[v].seq) = At(pin, unp[v].seq)
      OBVIOUS
    <3>1. unp[v].seq \in Window /\ unp[v].seq \in Nat /\ At(pin, unp[v].seq).state = Busy
      BY <1>1 DEF SInv, PinTypeOK, WorkersOK, Window
    <3>2. v # w => unp[v].seq # n
      BY <1>0 DEF SInv, WorkersOK, Working
    <3>3. unp'[v].seq = unp[v].seq
      BY <1>5
    <3>4. unp[v].seq \in Window'
      BY <1>2, <3>1 DEF Window
    <3>5. v # w => At(pin', unp[v].seq) = At(pin, unp[v].seq)
      BY <1>1, <1>3, <3>1, <3>2, <3>3 DEF Window
    <3>6. v = w => At(pin', unp[v].seq).state = Busy
      BY <1>4
    <3> QED
      BY <3>1, <3>4, <3>5, <3>6
  <2>3. /\ \A v \in Unpacker : Working(v)' => unp'[v].seq \in Window' /\ At(pin', unp[v].seq).state = Busy
        /\ \A u, v \in Unpacker : Working(u)' /\ Working(v)' /\ unp'[u].seq = unp'[v].seq => u = v
    <3>1. \A v \in Unpacker : Working(v)' => unp'[v].seq \in Window' /\ At(pin', unp[v].seq).state = Busy
      BY <1>5, <2>1, <2>2 DEF Working
    <3>2. \A u, v \in Unpacker : Working(u) /\ Working(v) /\ unp[u].seq = unp[v].seq => u = v
      BY DEF SInv, WorkersOK
    <3> QED
      BY <1>5, <2>1, <3>1, <3>2
  <2>4. ASSUME NEW v \in Unpacker, unp'[v].pc = "mark", pinIn[unp'[v].seq + 1] = "frame"
        PROVE  At(pin', unp[v].seq).out = unp'[v].seq + 1
    <3>1. CASE v = w
      BY <1>4, <1>5, <2>4, <3>1
    <3>2. CASE v # w
      <4>1. Working(v) /\ unp[v].pc = "mark" /\ unp'[v].seq = unp[v].seq
        BY <1>5, <2>4, <3>2 DEF Working
      <4>2. At(pin, unp[v].seq).out = unp[v].seq + 1
        <5>1. pinIn[unp[v].seq + 1] = "frame"
          BY <1>20, <2>4, <4>1
        <5> QED
          BY <4>1, <5>1 DEF SInv, WorkersOK
      <4> QED
        BY <2>2, <3>2, <4>1, <4>2
    <3> QED
      BY <3>1, <3>2
  <2> QED
    BY <1>20, <1>5, <2>3, <2>4 DEF WorkersOK
<1>11. ReaderOK'
  <2>1. rdr.pc \in {"copy", "take", "eof", "error"} => At(pin', pin.consumed) = At(pin, pin.consumed)
    <3>1. rdr.pc \in {"copy", "take", "eof", "error"} => pin.consumed # n /\ pin.consumed < pin.produced
      BY <1>1 DEF SInv, ReaderOK, Busy, Ready, End, PinFailed
    <3>2. At(pin', pin.consumed) = pin'.ring[SlotOf(pin.consumed)]
      BY <1>2 DEF At
    <3> QED
      BY <1>1, <1>3, <1>2, <3>1, <3>2 DEF At
  <2> QED
    BY <1>20, <1>2, <2>1 DEF SInv, ReaderOK
<1> QED
  BY <1>6, <1>7, <1>8, <1>9, <1>10, <1>11 DEF SInv

LEMMA MaxOfTwo ==
  ASSUME NEW a \in Nat, NEW b \in Nat
  PROVE  Max({a, b}) \in Nat /\ Max({a, b}) >= a /\ Max({a, b}) >= b
<1>1. \E x \in {a, b} : \A y \in {a, b} : x >= y
  <2>1. CASE a >= b
    BY <2>1
  <2>2. CASE b >= a
    BY <2>2
  <2> QED
    BY <2>1, <2>2
<1>2. Max({a, b}) \in {a, b} /\ \A y \in {a, b} : Max({a, b}) >= y
  BY <1>1 DEF Max
<1> QED
  BY <1>2

\* What a scan does, from the state p of the ring, to the slots of the window, to worker
\* w and to the others: it claims at most one number, whose slot becomes its own.
Scanned(w, p, r) ==
  /\ pin' \in PinType /\ pin'.produced = p.produced /\ pin'.consumed = p.consumed
  /\ \A i \in 0 .. (Ring - 1) :
       \/ pin'.ring[i] = p.ring[i]
       \/ /\ unp'[w].pc = "unpack" /\ i = SlotOf(unp'[w].seq)
          /\ pin'.ring[i].src = p.ring[i].src /\ pin'.ring[i].out = p.ring[i].out
  /\ \/ unp'[w].pc \in {"exit", "wait"}
     \/ /\ unp'[w].pc = "unpack" /\ unp'[w].seq \in p.consumed .. (p.produced - 1)
        /\ At(p, unp'[w].seq).state = PinQueued /\ At(pin', unp'[w].seq).state = Busy
  /\ unp' \in [Unpacker -> [pc : {"scan", "wait", "unpack", "mark", "exit"}, seq : Nat]]
  /\ \A v \in Unpacker \ {w} :
       /\ unp'[v].seq = unp[v].seq
       /\ unp'[v].pc = unp[v].pc \/ (unp[v].pc = "wait" /\ unp'[v].pc = "scan")
  /\ rdr' = r

LEMMA ScanDoes ==
  ASSUME PinTypeOK, NEW w \in Unpacker, NEW p \in PinType, NEW r, Scan(w, p, r),
         unp[w].pc \in {"scan", "mark"}
  PROVE  Scanned(w, p, r)
<1>0. /\ unp \in [Unpacker -> [pc : {"scan", "wait", "unpack", "mark", "exit"}, seq : Nat]]
      /\ rdr' = r /\ p.stop \in BOOLEAN /\ p.produced \in Nat /\ p.consumed \in Nat /\ p.pending \in Nat
      /\ p.ring \in [0 .. (Ring - 1) -> SlotType]
  BY DEF PinTypeOK, PinType, Scan
<1>1. CASE p.stop
  <2>1. pin' = p /\ unp' = [unp EXCEPT ![w].pc = "exit"]
    BY <1>1 DEF Scan
  <2> QED
    BY <1>0, <2>1 DEF Scanned
<1>2. CASE ~ p.stop /\ Claimable(p) = {}
  <2>1. pin' = [p EXCEPT !.pending = Max({FromPending(p), p.produced})] /\ unp' = [unp EXCEPT ![w].pc = "wait"]
    BY <1>2 DEF Scan
  <2>2. PICK m \in Nat : m = Max({FromPending(p), p.produced})
    BY <1>0, MaxOfTwo DEF FromPending
  <2>3. pin' = [p EXCEPT !.pending = m]
    BY <2>1, <2>2
  <2>4. pin' \in PinType /\ pin'.produced = p.produced /\ pin'.consumed = p.consumed /\ pin'.ring = p.ring
    BY <2>3 DEF PinType
  <2> QED
    BY <1>0, <2>1, <2>4 DEF Scanned
<1>3. CASE ~ p.stop /\ Claimable(p) # {}
  <2>1. PICK q \in Claimable(p) :
          LET u == [unp EXCEPT ![w] = [pc |-> "unpack", seq |-> q]]
          IN  /\ pin' = [p EXCEPT !.ring[SlotOf(q)].state = Busy, !.pending = q + 1]
              /\ unp' \in (IF q + 1 < p.produced THEN SignalWork(u) ELSE {u})
    BY <1>3 DEF Scan
  <2> DEFINE u == [unp EXCEPT ![w] = [pc |-> "unpack", seq |-> q]]
             ring == [p.ring EXCEPT ![SlotOf(q)] = [p.ring[SlotOf(q)] EXCEPT !.state = Busy]]
  <2>2. FromPending(p) \in Nat /\ FromPending(p) >= p.consumed
    BY <1>0, MaxOfTwo DEF FromPending
  <2>3. q \in Nat /\ q \in p.consumed .. (p.produced - 1) /\ At(p, q).state = PinQueued /\ q + 1 \in Nat
    BY <1>0, <2>2 DEF Claimable, At
  <2>4. SlotOf(q) \in 0 .. (Ring - 1)
    BY <2>3, SlotInRing
  <2>5. /\ ring \in [0 .. (Ring - 1) -> SlotType]
        /\ \A i \in 0 .. (Ring - 1) : i # SlotOf(q) => ring[i] = p.ring[i]
        /\ ring[SlotOf(q)].src = p.ring[SlotOf(q)].src /\ ring[SlotOf(q)].out = p.ring[SlotOf(q)].out
        /\ ring[SlotOf(q)].state = Busy
    BY <1>0, <2>4 DEF SlotType
  <2>6. PICK m \in Nat : m = q + 1
    BY <2>3
  <2>7. pin' = [p EXCEPT !.ring = ring, !.pending = m]
    BY <2>1, <2>6
  <2> HIDE DEF ring
  <2>8. pin' \in PinType /\ pin'.produced = p.produced /\ pin'.consumed = p.consumed /\ pin'.ring = ring
    BY <2>5, <2>7 DEF PinType
  <2>9. /\ u \in [Unpacker -> [pc : {"scan", "wait", "unpack", "mark", "exit"}, seq : Nat]]
        /\ u[w].pc = "unpack" /\ u[w].seq = q /\ \A v \in Unpacker \ {w} : u[v] = unp[v]
        /\ \A x \in Waiting : u[x].pc = "wait"
    BY <1>0, <2>3 DEF Waiting
  <2>10. unp' \in SignalWork(u) \/ unp' = u
    BY <2>1
  <2> HIDE DEF u
  <2>11. /\ unp' \in [Unpacker -> [pc : {"scan", "wait", "unpack", "mark", "exit"}, seq : Nat]]
         /\ \A v \in Unpacker : /\ unp'[v].seq = u[v].seq
                                /\ unp'[v].pc = u[v].pc \/ (u[v].pc = "wait" /\ unp'[v].pc = "scan")
    BY <2>9, <2>10, WorkSignalled
  <2>12. unp'[w].pc = "unpack" /\ unp'[w].seq = q
    BY <2>9, <2>11
  <2>13. \A v \in Unpacker \ {w} :
           /\ unp'[v].seq = unp[v].seq
           /\ unp'[v].pc = unp[v].pc \/ (unp[v].pc = "wait" /\ unp'[v].pc = "scan")
    BY <2>9, <2>11
  <2>14. At(pin', q).state = Busy
    BY <2>5, <2>8 DEF At
  <2> QED
    BY <1>0, <2>3, <2>5, <2>8, <2>11, <2>12, <2>13, <2>14 DEF Scanned
<1> QED
  BY <1>0, <1>1, <1>2, <1>3

\* The state from which worker w scans: the ring is p, which differs from pin at most at
\* the slot w has just finished, and the reader is r, which the worker may have woken.
LEMMA ScanKeeps ==
  ASSUME SInv, NEW w \in Unpacker, NEW p \in PinType, NEW r, Scan(w, p, r),
         UNCHANGED <<pinIn, disp>>, unp[w].pc \in {"scan", "mark"},
         p.produced = pin.produced, p.consumed = pin.consumed,
         \A q \in Nat : pin.consumed <= q /\ (q < pin.produced \/ (Filling /\ q = pin.produced)) =>
           At(p, q) = At(pin, q) \/ (unp[w].pc = "mark" /\ q = unp[w].seq),
         \A q \in Window : Promises(At(p, q), q),
         r \in [pc : {"check", "wait", "copy", "take", "eof", "error", "join", "freed"}, out : Seq(Nat)],
         r.out = rdr.out, r.pc = rdr.pc \/ (rdr.pc = "wait" /\ r.pc = "check")
  PROVE  SInv'
<1>0. Scanned(w, p, r)
  BY ScanDoes DEF SInv
<1>1. /\ pin.produced \in Nat /\ pin.consumed \in Nat /\ pin.consumed <= pin.produced
      /\ pin'.produced = pin.produced /\ pin'.consumed = pin.consumed
      /\ \A v \in Unpacker : unp[v].seq \in Nat
  BY <1>0, Shape DEF SInv, WindowOK, Scanned
<1> DEFINE c == unp'[w].seq
           Claims == unp'[w].pc = "unpack"
           OfWindow(q) == pin.consumed <= q /\ (q < pin.produced \/ (Filling /\ q = pin.produced))
\* A claimed number is in the window, and was nobody's.
<1>2. Claims => c \in Window /\ c \in Nat /\ At(p, c).state = PinQueued /\ At(pin', c).state = Busy
  BY <1>0, <1>1 DEF Scanned, Window
<1>3. \A q \in Nat : OfWindow(q) /\ ~ (Claims /\ q = c) => At(pin', q) = At(p, q)
  <2> SUFFICES ASSUME NEW q \in Nat, OfWindow(q), ~ (Claims /\ q = c) PROVE At(pin', q) = At(p, q)
    OBVIOUS
  <2>1. SlotOf(q) \in 0 .. (Ring - 1)
    BY SlotInRing
  <2>2. Claims => SlotOf(q) # SlotOf(c)
    BY <1>1, <1>2, WindowApart DEF Window
  <2> QED
    BY <1>0, <2>1, <2>2 DEF Scanned, At
<1>4. Claims => At(pin', c).src = At(p, c).src /\ At(pin', c).out = At(p, c).out
  <2>1. Claims => SlotOf(c) \in 0 .. (Ring - 1)
    BY <1>2, SlotInRing
  <2> QED
    BY <1>0, <2>1 DEF Scanned, At
\* The other workers keep their frames, and worker w may have a new one.
<1>5. ASSUME NEW v \in Unpacker \ {w}, Working(v)
      PROVE  /\ unp[v].seq \in Window /\ At(p, unp[v].seq) = At(pin, unp[v].seq)
             /\ At(pin', unp[v].seq) = At(pin, unp[v].seq) /\ (Claims => unp[v].seq # c)
  <2>1. unp[v].seq \in Window /\ unp[v].seq \in Nat /\ At(pin, unp[v].seq).state = Busy
    BY <1>1, <1>5 DEF SInv, WorkersOK
  <2>2. unp[w].pc = "mark" => unp[v].seq # unp[w].seq
    BY <1>5 DEF SInv, WorkersOK, Working
  <2>3. At(p, unp[v].seq) = At(pin, unp[v].seq)
    BY <1>1, <2>1, <2>2 DEF Window
  <2>4. Claims => unp[v].seq # c
    BY <1>2, <2>1, <2>3 DEF PinQueued, Busy
  <2> QED
    BY <1>1, <1>3, <2>1, <2>3, <2>4 DEF Window
<1>6. PinTypeOK'
  BY <1>0 DEF SInv, PinTypeOK, Scanned
<1>7. WindowOK'
  BY <1>1 DEF SInv, WindowOK, Filling
<1>8. DispatcherOK'
  <2>1. disp.pc = "publish" => At(pin', pin.produced) = At(pin, pin.produced)
    <3>1. disp.pc = "publish" => OfWindow(pin.produced) /\ ~ (Claims /\ pin.produced = c)
      BY <1>1, <1>2 DEF Filling, Window
    <3>2. unp[w].pc = "mark" => unp[w].seq # pin.produced
      BY <1>1 DEF SInv, WorkersOK, Working, Window
    <3> QED
      BY <1>1, <1>3, <3>1, <3>2
  <2>2. AtEnd' <=> AtEnd
    BY DEF AtEnd
  <2> QED
    BY <1>1, <2>1, <2>2 DEF SInv, DispatcherOK, Filling
<1>9. RingOK'
  <2> SUFFICES ASSUME NEW q \in Window' PROVE Promises(At(pin, q), q)'
    BY DEF RingOK
  <2>1. q \in Nat /\ q \in Window /\ Promises(At(p, q), q) /\ OfWindow(q)
    BY <1>1 DEF Window
  <2>2. CASE ~ (Claims /\ q = c)
    BY <1>3, <2>1, <2>2 DEF Promises
  <2>3. CASE Claims /\ q = c
    BY <1>2, <1>4, <2>1, <2>3 DEF Promises, PinFree, PinQueued, Busy, Ready, End, PinFailed
  <2> QED
    BY <2>2, <2>3
<1>10. WorkersOK'
  <2>1. unp'[w].pc \in {"exit", "wait"} \/ Claims
    BY <1>0 DEF Scanned
  <2>2. \A v \in Unpacker \ {w} :
          /\ unp'[v].seq = unp[v].seq
          /\ unp'[v].pc \in {"unpack", "mark"} <=> Working(v)
          /\ unp'[v].pc = "mark" <=> unp[v].pc = "mark"
    BY <1>0 DEF Scanned, Working
  <2>3. \A v \in Unpacker : unp'[v].pc \in {"unpack", "mark"} =>
          unp'[v].seq \in Window' /\ At(pin', unp'[v].seq).state = Busy
    <3> SUFFICES ASSUME NEW v \in Unpacker, unp'[v].pc \in {"unpack", "mark"}
                 PROVE unp'[v].seq \in Window' /\ At(pin', unp'[v].seq).state = Busy
      OBVIOUS
    <3>1. CASE v = w
      BY <1>1, <1>2, <2>1, <3>1 DEF Window
    <3>2. CASE v # w
      <4>1. Working(v) /\ unp'[v].seq = unp[v].seq
        BY <2>2, <3>2
      <4>2. At(pin, unp[v].seq).state = Busy
        BY <4>1 DEF SInv, WorkersOK
      <4> QED
        BY <1>1, <1>5, <3>2, <4>1, <4>2 DEF Window
    <3> QED
      BY <3>1, <3>2
  <2>4. \A u, v \in Unpacker : unp'[u].pc \in {"unpack", "mark"} /\ unp'[v].pc \in {"unpack", "mark"}
          /\ unp'[u].seq = unp'[v].seq => u = v
    <3> SUFFICES ASSUME NEW u \in Unpacker, NEW v \in Unpacker, unp'[u].pc \in {"unpack", "mark"},
                        unp'[v].pc \in {"unpack", "mark"}, unp'[u].seq = unp'[v].seq, u # v
                 PROVE FALSE
      OBVIOUS
    <3>1. CASE u # w /\ v # w
      BY <2>2, <3>1 DEF SInv, WorkersOK
    <3>2. CASE u = w
      BY <1>5, <2>1, <2>2, <3>2
    <3>3. CASE v = w
      BY <1>5, <2>1, <2>2, <3>3
    <3> QED
      BY <3>1, <3>2, <3>3
  <2>5. \A v \in Unpacker : unp'[v].pc = "mark" /\ pinIn[unp'[v].seq + 1] = "frame" =>
          At(pin', unp'[v].seq).out = unp'[v].seq + 1
    <3> SUFFICES ASSUME NEW v \in Unpacker, unp'[v].pc = "mark", pinIn[unp'[v].seq + 1] = "frame"
                 PROVE At(pin', unp'[v].seq).out = unp'[v].seq + 1
      OBVIOUS
    <3>1. v # w /\ v \in Unpacker \ {w}
      BY <2>1
    <3>2. Working(v) /\ unp[v].pc = "mark" /\ unp'[v].seq = unp[v].seq
      BY <2>2, <3>1
    <3>3. At(pin, unp[v].seq).out = unp[v].seq + 1
      BY <3>2 DEF SInv, WorkersOK
    <3> QED
      BY <1>5, <3>1, <3>2, <3>3
  <2> QED
    BY <2>3, <2>4, <2>5 DEF WorkersOK, Working
<1>11. ReaderOK'
  <2>1. rdr'.out = rdr.out /\ (rdr'.pc = "take" <=> rdr.pc = "take")
        /\ (rdr'.pc \in {"copy", "take", "eof", "error"} => rdr'.pc = rdr.pc)
    BY <1>0 DEF Scanned
  <2>2. rdr.pc \in {"copy", "take", "eof", "error"} =>
          pin.consumed < pin.produced /\ At(pin', pin.consumed) = At(pin, pin.consumed)
    <3> SUFFICES ASSUME rdr.pc \in {"copy", "take", "eof", "error"}
                 PROVE pin.consumed < pin.produced /\ At(pin', pin.consumed) = At(pin, pin.consumed)
      OBVIOUS
    <3>1. pin.consumed < pin.produced /\ At(pin, pin.consumed).state \in {Ready, End, PinFailed}
      BY DEF SInv, ReaderOK
    <3>2. unp[w].pc = "mark" => unp[w].seq # pin.consumed
      BY <3>1 DEF SInv, WorkersOK, Working, Busy, Ready, End, PinFailed
    <3>3. At(p, pin.consumed) = At(pin, pin.consumed)
      BY <1>1, <3>1, <3>2
    <3>4. ~ (Claims /\ pin.consumed = c)
      BY <1>2, <3>1, <3>3 DEF PinQueued, Ready, End, PinFailed
    <3> QED
      BY <1>1, <1>3, <3>1, <3>3, <3>4
  <2> QED
    BY <1>1, <2>1, <2>2 DEF SInv, ReaderOK
<1> QED
  BY <1>6, <1>7, <1>8, <1>9, <1>10, <1>11 DEF SInv

LEMMA StartScanKeeps == ASSUME SInv, NEW w \in Unpacker, StartScan(w) PROVE SInv'
<1>1. unp[w].pc = "scan" /\ Scan(w, pin, rdr) /\ UNCHANGED <<pinIn, disp>>
  BY DEF StartScan
<1>2. pin \in PinType /\ \A q \in Window : Promises(At(pin, q), q)
  BY DEF SInv, PinTypeOK, RingOK
<1>3. rdr \in [pc : {"check", "wait", "copy", "take", "eof", "error", "join", "freed"}, out : Seq(Nat)]
  BY DEF SInv, PinTypeOK
<1> QED
  BY <1>1, <1>2, <1>3, ScanKeeps

LEMMA MarkKeeps == ASSUME SInv, NEW w \in Unpacker, Mark(w) PROVE SInv'
<1> DEFINE n == unp[w].seq
           i == SlotOf(n)
           mark == IF UnpackedWell(pin.ring[i]) THEN Ready ELSE PinFailed
           p == [pin EXCEPT !.ring[i].state = mark]
           r == IF n = pin.consumed THEN SignalReady(rdr) ELSE rdr
<1>0. unp[w].pc = "mark" /\ Scan(w, p, r) /\ UNCHANGED <<pinIn, disp>>
  BY DEF Mark
<1>1. /\ n \in Window /\ n \in Nat /\ At(pin, n).state = Busy /\ i \in 0 .. (Ring - 1)
      /\ pin \in PinType /\ pin.ring[i] \in SlotType
      /\ pin.produced \in Nat /\ pin.consumed \in Nat
  <2>1. n \in Window /\ n \in Nat /\ At(pin, n).state = Busy
    BY <1>0, Shape DEF SInv, WorkersOK, Working
  <2> QED
    BY <2>1, SlotInRing, Shape DEF SInv
<1>2. /\ pin.ring[i].src = n + 1 /\ n < Len(pinIn) /\ pinIn[n + 1] \in {"frame", "badframe"}
      /\ (pinIn[n + 1] = "frame" => pin.ring[i].out = n + 1)
  BY <1>0, <1>1 DEF SInv, RingOK, Promises, At, WorkersOK
<1>3. mark = IF pinIn[n + 1] = "frame" THEN Ready ELSE PinFailed
  BY <1>1, <1>2 DEF UnpackedWell, Nothing
<1>4. mark \in {PinFree, PinQueued, Busy, Ready, End, PinFailed}
  BY <1>3
<1> HIDE DEF mark
<1> DEFINE ring == [pin.ring EXCEPT ![i] = [pin.ring[i] EXCEPT !.state = mark]]
<1>5. /\ ring \in [0 .. (Ring - 1) -> SlotType]
      /\ \A j \in 0 .. (Ring - 1) : j # i => ring[j] = pin.ring[j]
      /\ ring[i].state = mark /\ ring[i].src = pin.ring[i].src /\ ring[i].out = pin.ring[i].out
  BY <1>1, <1>4 DEF PinType, SlotType
<1>6. p = [pin EXCEPT !.ring = ring]
  OBVIOUS
<1> HIDE DEF ring, p
<1>7. p \in PinType /\ p.produced = pin.produced /\ p.consumed = pin.consumed /\ p.ring = ring
  BY <1>1, <1>5, <1>6 DEF PinType
<1>8. \A q \in Nat : pin.consumed <= q /\ (q < pin.produced \/ (Filling /\ q = pin.produced)) =>
        At(p, q) = At(pin, q) \/ (unp[w].pc = "mark" /\ q = unp[w].seq)
  <2> SUFFICES ASSUME NEW q \in Nat, pin.consumed <= q, q < pin.produced \/ (Filling /\ q = pin.produced), q # n
               PROVE At(p, q) = At(pin, q)
    BY <1>0
  <2>1. SlotOf(q) \in 0 .. (Ring - 1)
    BY SlotInRing
  <2>2. SlotOf(q) # i
    BY <1>1, WindowApart DEF Window
  <2> QED
    BY <1>5, <1>7, <2>1, <2>2 DEF At
<1>9. \A q \in Window : Promises(At(p, q), q)
  <2> SUFFICES ASSUME NEW q \in Window PROVE Promises(At(p, q), q)
    OBVIOUS
  <2>1. q \in Nat /\ Promises(At(pin, q), q)
    BY <1>1 DEF SInv, RingOK, Window
  <2>2. CASE q # n
    BY <1>1, <1>8, <2>1, <2>2 DEF Window
  <2>3. CASE q = n
    <3>1. At(p, q) = ring[i]
      BY <1>7, <2>3 DEF At
    <3> QED
      BY <1>1, <1>2, <1>3, <1>5, <2>3, <3>1 DEF Promises, PinFree, PinQueued, Busy, Ready, End, PinFailed
  <2> QED
    BY <2>2, <2>3
<1>10. /\ r \in [pc : {"check", "wait", "copy", "take", "eof", "error", "join", "freed"}, out : Seq(Nat)]
       /\ r.out = rdr.out
       /\ r.pc = rdr.pc \/ (rdr.pc = "wait" /\ r.pc = "check")
  BY DEF SInv, PinTypeOK, SignalReady
<1> HIDE DEF r
<1> QED
  BY <1>0, <1>7, <1>8, <1>9, <1>10, ScanKeeps

-----------------------------------------------------------------------------
(* The reader.                                                             *)

LEMMA CheckSlotKeeps == ASSUME SInv, CheckSlot PROVE SInv'
<1>0. /\ rdr.pc = "check" /\ UNCHANGED <<pinIn, pin, disp, unp>>
      /\ rdr' = [rdr EXCEPT !.pc =
           IF pin.consumed = pin.produced \/ ~ Takeable(At(pin, pin.consumed)) THEN "wait"
           ELSE CASE At(pin, pin.consumed).state = PinFailed -> "error"
                  [] At(pin, pin.consumed).state = End -> "eof"
                  [] At(pin, pin.consumed).state = Ready -> "copy"]
  BY DEF CheckSlot, At
<1>1. /\ rdr \in [pc : {"check", "wait", "copy", "take", "eof", "error", "join", "freed"}, out : Seq(Nat)]
      /\ pin.consumed <= pin.produced /\ pin.produced \in Nat /\ pin.consumed \in Nat
  BY Shape DEF SInv, PinTypeOK, WindowOK
<1>2. /\ rdr'.out = rdr.out
      /\ \/ rdr'.pc = "wait"
         \/ pin.consumed < pin.produced /\ rdr'.pc = "error" /\ At(pin, pin.consumed).state = PinFailed
         \/ pin.consumed < pin.produced /\ rdr'.pc = "eof" /\ At(pin, pin.consumed).state = End
         \/ pin.consumed < pin.produced /\ rdr'.pc = "copy" /\ At(pin, pin.consumed).state = Ready
  <2>1. CASE pin.consumed = pin.produced \/ ~ Takeable(At(pin, pin.consumed))
    <3>1. rdr' = [rdr EXCEPT !.pc = "wait"]
      BY <1>0, <2>1
    <3> QED
      BY <1>1, <3>1
  <2>2. CASE pin.consumed < pin.produced /\ Takeable(At(pin, pin.consumed))
    BY <1>0, <1>1, <2>2 DEF Takeable, Ready, End, PinFailed
  <2> QED
    BY <1>1, <2>1, <2>2
<1>3. PinTypeOK'
  <2>1. /\ rdr'.pc \in {"wait", "error", "eof", "copy"} /\ rdr'.out \in Seq(Nat)
        /\ \E c : rdr' = [rdr EXCEPT !.pc = c]
    BY <1>0, <1>1, <1>2
  <2>2. rdr' \in [pc : {"check", "wait", "copy", "take", "eof", "error", "join", "freed"}, out : Seq(Nat)]
    BY <1>1, <2>1
  <2> QED
    BY <1>0, <2>2 DEF SInv, PinTypeOK
<1>4. WindowOK' /\ DispatcherOK' /\ RingOK' /\ WorkersOK'
  BY <1>0 DEF SInv, WindowOK, DispatcherOK, RingOK, WorkersOK, At, Window, Promises, Working, Filling, AtEnd
<1>5. ReaderOK'
  BY <1>0, <1>2 DEF SInv, ReaderOK, Ready, End, PinFailed
<1> QED
  BY <1>3, <1>4, <1>5 DEF SInv

LEMMA CopyKeeps == ASSUME SInv, Copy PROVE SInv'
<1>0. /\ rdr.pc = "copy" /\ UNCHANGED <<pinIn, pin, disp, unp>>
      /\ rdr' = [pc |-> "take", out |-> Append(rdr.out, At(pin, pin.consumed).out)]
  BY DEF Copy, At
<1>1. /\ pin.consumed \in Nat /\ pin.produced \in Nat /\ pin.consumed < pin.produced
      /\ At(pin, pin.consumed).state = Ready
      /\ rdr.out \in Seq(Nat) /\ Len(rdr.out) = pin.consumed
  BY <1>0, Shape DEF SInv, ReaderOK
<1>2. /\ At(pin, pin.consumed).out = pin.consumed + 1 /\ pin.consumed + 1 <= Len(pinIn)
      /\ pinIn[pin.consumed + 1] \in {"frame", "chunk"} /\ Len(pinIn) \in Nat
  <2>1. pin.consumed \in Window /\ Len(pinIn) \in Nat
    BY <1>1, Shape DEF SInv, Window
  <2>2. Promises(At(pin, pin.consumed), pin.consumed)
    BY <2>1 DEF SInv, RingOK
  <2> QED
    BY <1>1, <2>1, <2>2 DEF Promises
<1>3. /\ rdr'.out \in Seq(Nat) /\ Len(rdr'.out) = pin.consumed + 1 /\ rdr'.pc = "take"
      /\ \A i \in 1 .. Len(rdr'.out) : rdr'.out[i] = IF i <= pin.consumed THEN rdr.out[i] ELSE pin.consumed + 1
  <2>1. PICK n \in Nat : n = pin.consumed + 1
    BY <1>1
  <2>2. rdr'.out = Append(rdr.out, n) /\ rdr'.pc = "take"
    BY <1>0, <1>2, <2>1
  <2> QED
    BY <1>1, <2>1, <2>2
<1>4. PinTypeOK'
  <2>1. rdr' \in [pc : {"check", "wait", "copy", "take", "eof", "error", "join", "freed"}, out : Seq(Nat)]
    BY <1>0, <1>3
  <2> QED
    BY <1>0, <2>1 DEF SInv, PinTypeOK
<1>5. WindowOK' /\ DispatcherOK' /\ RingOK' /\ WorkersOK'
  BY <1>0 DEF SInv, WindowOK, DispatcherOK, RingOK, WorkersOK, At, Window, Promises, Working, Filling, AtEnd
<1>6. ReaderOK'
  <2>1. \A i \in 1 .. Len(rdr'.out) : rdr'.out[i] = i /\ i <= Len(pinIn) /\ pinIn[i] \in {"frame", "chunk"}
    <3> SUFFICES ASSUME NEW i \in 1 .. Len(rdr'.out)
                 PROVE rdr'.out[i] = i /\ i <= Len(pinIn) /\ pinIn[i] \in {"frame", "chunk"}
      OBVIOUS
    <3>1. CASE i <= pin.consumed
      <4>1. i \in 1 .. Len(rdr.out) /\ rdr'.out[i] = rdr.out[i]
        BY <1>1, <1>3, <3>1
      <4> QED
        BY <4>1 DEF SInv, ReaderOK
    <3>2. CASE i = pin.consumed + 1
      BY <1>1, <1>2, <1>3, <3>2
    <3> QED
      BY <1>1, <1>3, <3>1, <3>2
  <2> QED
    BY <1>0, <1>1, <1>3, <2>1 DEF ReaderOK
<1> QED
  BY <1>4, <1>5, <1>6 DEF SInv

LEMMA TakeKeeps == ASSUME SInv, Take PROVE SInv'
<1> DEFINE i == SlotOf(pin.consumed)
<1>0. /\ rdr.pc = "take" /\ UNCHANGED <<pinIn, unp>>
      /\ pin' = [pin EXCEPT !.ring[i].state = PinFree, !.consumed = @ + 1]
      /\ disp' = SignalSpace(disp) /\ rdr' = [rdr EXCEPT !.pc = "check"]
  BY DEF Take
<1>1. /\ pin.consumed \in Nat /\ pin.produced \in Nat /\ pin.consumed < pin.produced
      /\ At(pin, pin.consumed).state = Ready /\ i \in 0 .. (Ring - 1)
      /\ pin \in PinType /\ pin.ring[i] \in SlotType /\ Ring \in Nat
  BY <1>0, Shape, SlotInRing DEF SInv, ReaderOK
<1> DEFINE ring == [pin.ring EXCEPT ![i] = [pin.ring[i] EXCEPT !.state = PinFree]]
<1>2. /\ ring \in [0 .. (Ring - 1) -> SlotType]
      /\ \A j \in 0 .. (Ring - 1) : j # i => ring[j] = pin.ring[j]
  BY <1>1 DEF PinType, SlotType
<1>3. PICK n \in Nat : n = pin.consumed + 1
  BY <1>1
<1>4. pin' = [pin EXCEPT !.ring = ring, !.consumed = n]
  BY <1>0, <1>3
<1> HIDE DEF ring
<1>5. pin' \in PinType /\ pin'.produced = pin.produced /\ pin'.consumed = pin.consumed + 1 /\ pin'.ring = ring
  BY <1>1, <1>2, <1>3, <1>4 DEF PinType
<1>6. \A q \in Nat : pin.consumed < q /\ (q < pin.produced \/ (Filling /\ q = pin.produced)) =>
        At(pin', q) = At(pin, q)
  <2> SUFFICES ASSUME NEW q \in Nat, pin.consumed < q, q < pin.produced \/ (Filling /\ q = pin.produced)
               PROVE At(pin', q) = At(pin, q)
    OBVIOUS
  <2>1. SlotOf(q) \in 0 .. (Ring - 1)
    BY SlotInRing
  <2>2. SlotOf(q) # i
    BY <1>1, WindowApart
  <2> QED
    BY <1>2, <1>5, <2>1, <2>2 DEF At
<1>7. /\ disp'.at = disp.at /\ disp'.err = disp.err
      /\ disp'.pc = disp.pc \/ (disp.pc = "space" /\ disp'.pc = "reserve")
      /\ disp' \in [pc : {"reserve", "space", "fill", "publish", "done"}, at : Nat, err : BOOLEAN]
  BY <1>0 DEF SInv, PinTypeOK, SignalSpace
<1>8. rdr'.pc = "check" /\ rdr'.out = rdr.out
      /\ rdr' \in [pc : {"check", "wait", "copy", "take", "eof", "error", "join", "freed"}, out : Seq(Nat)]
  BY <1>0 DEF SInv, PinTypeOK
<1>9. PinTypeOK'
  BY <1>0, <1>5, <1>7, <1>8 DEF SInv, PinTypeOK
<1>10. WindowOK'
  BY <1>1, <1>5, <1>7 DEF SInv, WindowOK, Filling
<1>11. DispatcherOK'
  <2>1. disp.pc = "publish" => At(pin', pin.produced) = At(pin, pin.produced)
    BY <1>1, <1>6 DEF Filling
  <2>2. AtEnd' <=> AtEnd
    BY <1>0, <1>7 DEF AtEnd
  <2> QED
    BY <1>0, <1>5, <1>7, <2>1, <2>2 DEF SInv, DispatcherOK, Filling
<1>12. RingOK'
  <2> SUFFICES ASSUME NEW q \in Window' PROVE Promises(At(pin, q), q)'
    BY DEF RingOK
  <2>1. q \in Nat /\ pin.consumed < q /\ q < pin.produced /\ q \in Window
    BY <1>1, <1>5 DEF Window
  <2>2. At(pin', q) = At(pin, q) /\ Promises(At(pin, q), q)
    BY <1>6, <2>1 DEF SInv, RingOK
  <2> QED
    BY <1>0, <2>2 DEF Promises
<1>13. WorkersOK'
  <2>1. ASSUME NEW v \in Unpacker, Working(v)
        PROVE  unp[v].seq \in Window' /\ At(pin', unp[v].seq) = At(pin, unp[v].seq)
    <3>1. unp[v].seq \in Window /\ unp[v].seq \in Nat /\ At(pin, unp[v].seq).state = Busy
      BY <2>1, Shape DEF SInv, WorkersOK
    <3>2. unp[v].seq # pin.consumed
      BY <1>1, <3>1 DEF Busy, Ready
    <3> QED
      BY <1>1, <1>5, <1>6, <3>1, <3>2 DEF Window
  <2>2. \A v \in Unpacker : Working(v) => unp[v].seq \in Window' /\ At(pin', unp[v].seq).state = Busy
    BY <2>1 DEF SInv, WorkersOK
  <2>3. \A v \in Unpacker : unp[v].pc = "mark" /\ pinIn[unp[v].seq + 1] = "frame" =>
          At(pin', unp[v].seq).out = unp[v].seq + 1
    BY <2>1 DEF SInv, WorkersOK, Working
  <2>4. \A u, v \in Unpacker : Working(u) /\ Working(v) /\ unp[u].seq = unp[v].seq => u = v
    BY DEF SInv, WorkersOK
  <2> QED
    BY <1>0, <2>2, <2>3, <2>4 DEF WorkersOK, Working
<1>14. ReaderOK'
  BY <1>0, <1>5, <1>8 DEF SInv, ReaderOK
<1> QED
  BY <1>9, <1>10, <1>11, <1>12, <1>13, <1>14 DEF SInv

LEMMA StopKeeps == ASSUME SInv, Stop PROVE SInv'
<1>0. /\ UNCHANGED pinIn /\ pin' = [pin EXCEPT !.stop = TRUE] /\ rdr' = [rdr EXCEPT !.pc = "join"]
      /\ disp' = SignalSpace(disp) /\ rdr.pc # "take"
      /\ unp' = [w \in Unpacker |-> IF unp[w].pc = "wait" THEN [unp[w] EXCEPT !.pc = "scan"] ELSE unp[w]]
  BY DEF Stop
<1>1. /\ pin' \in PinType /\ pin'.produced = pin.produced /\ pin'.consumed = pin.consumed
      /\ pin'.ring = pin.ring
  BY <1>0 DEF SInv, PinTypeOK, PinType
<1>2. /\ disp'.at = disp.at /\ disp'.err = disp.err
      /\ disp'.pc = disp.pc \/ (disp.pc = "space" /\ disp'.pc = "reserve")
      /\ disp' \in [pc : {"reserve", "space", "fill", "publish", "done"}, at : Nat, err : BOOLEAN]
  BY <1>0 DEF SInv, PinTypeOK, SignalSpace
<1>3. /\ rdr'.pc = "join" /\ rdr'.out = rdr.out
      /\ rdr' \in [pc : {"check", "wait", "copy", "take", "eof", "error", "join", "freed"}, out : Seq(Nat)]
  BY <1>0 DEF SInv, PinTypeOK
<1>4. /\ unp' \in [Unpacker -> [pc : {"scan", "wait", "unpack", "mark", "exit"}, seq : Nat]]
      /\ \A w \in Unpacker : /\ unp'[w].seq = unp[w].seq
                             /\ unp'[w].pc \in {"unpack", "mark"} <=> unp[w].pc \in {"unpack", "mark"}
                             /\ unp'[w].pc = "mark" <=> unp[w].pc = "mark"
  BY <1>0 DEF SInv, PinTypeOK
<1>5. PinTypeOK'
  BY <1>0, <1>1, <1>2, <1>3, <1>4 DEF SInv, PinTypeOK
<1>6. WindowOK'
  BY <1>1, <1>2 DEF SInv, WindowOK, Filling
<1>7. DispatcherOK'
  BY <1>0, <1>1, <1>2 DEF SInv, DispatcherOK, Filling, AtEnd, At
<1>8. RingOK'
  BY <1>0, <1>1 DEF SInv, RingOK, Window, Promises, At
<1>9. WorkersOK'
  BY <1>0, <1>1, <1>4 DEF SInv, WorkersOK, Working, Window, At
<1>10. ReaderOK'
  BY <1>0, <1>1, <1>3 DEF SInv, ReaderOK
<1> QED
  BY <1>5, <1>6, <1>7, <1>8, <1>9, <1>10 DEF SInv

LEMMA PinJoinKeeps == ASSUME SInv, PinJoin PROVE SInv'
<1>0. rdr.pc = "join" /\ rdr' = [rdr EXCEPT !.pc = "freed"] /\ UNCHANGED <<pinIn, pin, disp, unp>>
  BY DEF PinJoin
<1>1. /\ rdr'.pc = "freed" /\ rdr'.out = rdr.out
      /\ rdr' \in [pc : {"check", "wait", "copy", "take", "eof", "error", "join", "freed"}, out : Seq(Nat)]
  BY <1>0 DEF SInv, PinTypeOK
<1>2. PinTypeOK'
  BY <1>0, <1>1 DEF SInv, PinTypeOK
<1>3. WindowOK' /\ DispatcherOK' /\ RingOK' /\ WorkersOK'
  BY <1>0 DEF SInv, WindowOK, DispatcherOK, RingOK, WorkersOK, At, Window, Promises, Working, Filling, AtEnd
<1>4. ReaderOK'
  BY <1>0, <1>1 DEF SInv, ReaderOK
<1> QED
  BY <1>2, <1>3, <1>4 DEF SInv

-----------------------------------------------------------------------------
(* The invariant, and what follows from it.                                *)

LEMMA StartsRight == ASSUME PinInit PROVE SInv
<1>0. /\ pinIn \in Seq(Item) /\ Ring \in Nat /\ Ring > 0
      /\ pin = [ring |-> [i \in 0 .. (Ring - 1) |-> [state |-> PinFree, src |-> Nothing, out |-> Nothing]],
                produced |-> 0, consumed |-> 0, pending |-> 0, stop |-> FALSE]
      /\ disp = [pc |-> "reserve", at |-> 1, err |-> FALSE]
      /\ unp = [w \in Unpacker |-> [pc |-> "scan", seq |-> 0]]
      /\ rdr = [pc |-> "check", out |-> <<>>]
  BY PinAssumption DEF PinInit, pin_start
<1>1. PinTypeOK
  BY <1>0 DEF PinTypeOK, PinType, SlotType, PinFree, Nothing
<1>2. WindowOK /\ DispatcherOK
  BY <1>0 DEF WindowOK, DispatcherOK, Filling
<1>3. RingOK /\ WorkersOK /\ ReaderOK
  BY <1>0 DEF RingOK, WorkersOK, ReaderOK, Window, Working
<1> QED
  BY <1>1, <1>2, <1>3 DEF SInv

LEMMA StepKeeps == ASSUME SInv, [PinNext]_pinVars PROVE SInv'
<1>1. CASE Dispatcher
  BY <1>1, ReserveKeeps, FillKeeps, PublishKeeps DEF Dispatcher
<1>2. ASSUME NEW w \in Unpacker, UnpackerStep(w) PROVE SInv'
  BY <1>2, StartScanKeeps, UnpackKeeps, MarkKeeps DEF UnpackerStep
<1>3. CASE Reader
  BY <1>3, CheckSlotKeeps, CopyKeeps, TakeKeeps, StopKeeps, PinJoinKeeps DEF Reader
<1>4. CASE UNCHANGED pinVars
  BY <1>4 DEF pinVars, SInv, PinTypeOK, WindowOK, DispatcherOK, RingOK, WorkersOK, ReaderOK,
              At, Window, Promises, Working, Filling, AtEnd
<1> QED
  BY <1>1, <1>2, <1>3, <1>4 DEF PinNext

\* What is handed over is the beginning of the file, because item q + 1 is taken when the
\* window begins at q and the slot of q promises it.
LEMMA InOrder == ASSUME SInv PROVE InputInOrder
<1>0. /\ rdr.out \in Seq(Nat) /\ pin.consumed \in Nat /\ pin.produced \in Nat /\ Len(pinIn) \in Nat
      /\ Len(rdr.out) = IF rdr.pc = "take" THEN pin.consumed + 1 ELSE pin.consumed
      /\ \A i \in 1 .. Len(rdr.out) : rdr.out[i] = i /\ i <= Len(pinIn) /\ pinIn[i] \in {"frame", "chunk"}
  BY Shape DEF SInv, ReaderOK
<1>1. rdr.out = [i \in DOMAIN rdr.out |-> i]
  BY <1>0
<1>2. \A i \in DOMAIN rdr.out : pinIn[i] \in {"frame", "chunk"}
  BY <1>0
<1>3. rdr.pc \in {"eof", "error"} => Len(rdr.out) = pin.consumed /\ Promises(At(pin, pin.consumed), pin.consumed)
  BY <1>0 DEF SInv, ReaderOK, RingOK, Window
<1>4. rdr.pc = "eof" => Len(rdr.out) = Len(pinIn)
  BY <1>3 DEF SInv, ReaderOK, Promises
<1>5. rdr.pc = "error" => pinIn[Len(rdr.out) + 1] \in {"badframe", "broken"}
  BY <1>3 DEF SInv, ReaderOK, Promises
<1> QED
  BY <1>1, <1>2, <1>4, <1>5 DEF InputInOrder

\* Each thread uses the slot of a number of its own: the dispatcher the one after the
\* window, a worker one whose slot is being decompressed, the reader one that is ready.
LEMMA Exclusive == ASSUME SInv PROVE SlotExclusive
<1> SUFFICES ASSUME NEW i \in 0 .. (Ring - 1) PROVE Cardinality(Users(i)) <= 1
  BY DEF SlotExclusive
<1>0. pin.consumed \in Nat /\ pin.produced \in Nat /\ pin.consumed <= pin.produced
  BY Shape DEF SInv, WindowOK
<1> DEFINE Fills == disp.pc = "fill" /\ SlotOf(pin.produced) = i
           Unpacks(w) == unp[w].pc = "unpack" /\ SlotOf(unp[w].seq) = i
           Reads == rdr.pc = "copy" /\ SlotOf(pin.consumed) = i
<1>1. Fills => Filling
  BY DEF Filling
<1>2. \A w \in Unpacker : Unpacks(w) =>
        /\ unp[w].seq \in Nat /\ pin.consumed <= unp[w].seq /\ unp[w].seq < pin.produced
        /\ At(pin, unp[w].seq).state = Busy
  BY <1>0, Shape DEF SInv, WorkersOK, Working, Window
<1>3. Reads => pin.consumed < pin.produced /\ At(pin, pin.consumed).state = Ready
  BY DEF SInv, ReaderOK
<1>4. \A w \in Unpacker : ~ (Fills /\ Unpacks(w))
  BY <1>0, <1>1, <1>2, WindowApart
<1>5. ~ (Fills /\ Reads)
  BY <1>0, <1>1, <1>3, WindowApart
<1>6. \A w \in Unpacker : ~ (Unpacks(w) /\ Reads)
  <2> SUFFICES ASSUME NEW w \in Unpacker, Unpacks(w), Reads PROVE FALSE
    OBVIOUS
  <2>1. unp[w].seq = pin.consumed
    BY <1>0, <1>2, <1>3, WindowApart
  <2> QED
    BY <1>2, <1>3, <2>1 DEF Busy, Ready
<1>7. \A v, w \in Unpacker : Unpacks(v) /\ Unpacks(w) => v = w
  <2> SUFFICES ASSUME NEW v \in Unpacker, NEW w \in Unpacker, Unpacks(v), Unpacks(w) PROVE v = w
    OBVIOUS
  <2>1. unp[v].seq = unp[w].seq
    BY <1>0, <1>2, WindowApart
  <2> QED
    BY <2>1 DEF SInv, WorkersOK, Working
<1>8. \E x : Users(i) \subseteq {x}
  <2>1. Users(i) = (IF Fills THEN {"dispatcher"} ELSE {}) \cup {w \in Unpacker : Unpacks(w)}
                   \cup (IF Reads THEN {"reader"} ELSE {})
    BY DEF Users
  <2> HIDE DEF Fills, Unpacks, Reads
  <2>2. CASE Fills
    BY <1>4, <1>5, <2>1, <2>2
  <2>3. CASE Reads
    BY <1>5, <1>6, <2>1, <2>3
  <2>4. CASE ~ Fills /\ ~ Reads
    BY <1>7, <2>1, <2>4
  <2> QED
    BY <2>2, <2>3, <2>4
<1>9. CASE Users(i) = {}
  BY <1>9, FS_EmptySet
<1>10. CASE Users(i) # {}
  <2>1. PICK x : Users(i) = {x}
    BY <1>8, <1>10
  <2>2. Cardinality({x}) = 1
    BY FS_Singleton
  <2> QED
    BY <2>1, <2>2
<1> QED
  BY <1>9, <1>10

\* The reader of a compressed backup (pin_read) hands over the items in the order of the
\* file whatever the order in which the workers decompress them, says the end of the file
\* only at its end and an error only at the first item that does not decompress, and no
\* slot is written by one thread while another uses it.
THEOREM ReaderIsRight == PinSpec => []InputRight
<1>1. PinInit => SInv
  BY StartsRight
<1>2. SInv /\ [PinNext]_pinVars => SInv'
  BY StepKeeps
<1>3. SInv => InputRight
  BY InOrder, Exclusive DEF InputRight
<1> QED
  BY <1>1, <1>2, <1>3, PTL DEF PinSpec

-----------------------------------------------------------------------------
(* The main thread of the sort, and the files it leaves (BackupSort). *)

MthT == [pc : {"off", "claim", "range", "end"}, r : Nat, ok : BOOLEAN]
PartNames == {<<"part", r>> : r \in Ranges}
WorkNames == RunNames \cup {TmpName} \cup (IF sm.pc = "merge" THEN PartNames ELSE {})

\* The records have their fields.
FieldsOK ==
  /\ sortJob.start \subseteq {OutName, SidecarName}
  /\ DOMAIN sm = {"pc", "pos", "cur", "more", "rc", "runs"} /\ sm.runs \in Nat
  /\ DOMAIN sortDisk = {"files", "run", "tmp", "out"}
  /\ DOMAIN mrg = {"bounds", "next", "failed", "records", "part"} /\ mrg.next \in Nat
  /\ mth \in [1 .. SortThreads -> MthT]
\* A merging thread works on a range of the merge, while the merge is under way.
ThreadsOK ==
  \A t \in 1 .. SortThreads :
    /\ sm.pc # "merge" => mth[t].pc \in {"off", "end"}
    /\ mth[t].pc = "range" => mth[t].r \in Ranges
\* Before the end there is nothing but the runs, the temporary file and the parts.
FilesOK ==
  /\ sm.pc = "open" => sortDisk.files = sortJob.start
  /\ sm.pc \notin {"open", "done"} => sortJob.start = {} /\ sortDisk.files \subseteq WorkNames
TraceInv == FieldsOK /\ ThreadsOK /\ FilesOK /\ SortLeavesNoTrace

LEMMA SortStarts == SortInit => TraceInv
<1> SUFFICES ASSUME SortInit PROVE TraceInv
  OBVIOUS
<1>1. sm = [pc |-> "open", pos |-> 0, cur |-> 0, more |-> TRUE, rc |-> "ok", runs |-> 0]
      /\ sortDisk = [files |-> sortJob.start, run |-> <<>>, tmp |-> <<>>, out |-> <<>>]
      /\ mth = [t \in 1 .. SortThreads |-> [pc |-> "off", r |-> 0, ok |-> TRUE]]
      /\ mrg.next = 1 /\ DOMAIN mrg = {"bounds", "next", "failed", "records", "part"}
  BY DEF SortInit
<1>2. sortJob.start \subseteq {OutName, SidecarName}
  BY SortAssumption DEF SortInit
<1>3. FieldsOK
  BY <1>1, <1>2 DEF FieldsOK, MthT
<1>4. ThreadsOK
  BY <1>1 DEF ThreadsOK
<1>5. FilesOK /\ SortLeavesNoTrace
  BY <1>1 DEF FilesOK, SortLeavesNoTrace
<1> QED
  BY <1>3, <1>4, <1>5 DEF TraceInv

\* A step of the main thread before the merge: the merging threads are not started.
LEMMA BeforeMerge ==
  ASSUME TraceInv, UNCHANGED <<sortJob, mrg, mth>>, sm.pc \notin {"open", "merge", "done"},
         DOMAIN sm' = DOMAIN sm, DOMAIN sortDisk' = DOMAIN sortDisk,
         sm'.runs \in Nat, sm'.runs >= sm.runs,
         sm'.pc \notin {"open", "merge", "done"},
         sortDisk'.files \subseteq sortDisk.files \cup {TmpName} \cup {<<"run", i>> : i \in 1 .. sm'.runs}
  PROVE  TraceInv'
<1>1. FieldsOK'
  BY DEF TraceInv, FieldsOK
<1>2. ThreadsOK'
  BY DEF TraceInv, ThreadsOK
<1>3. RunNames \subseteq RunNames' /\ RunNames' = {<<"run", i>> : i \in 1 .. sm'.runs}
  <2>1. \A i \in 1 .. sm.runs : i \in 1 .. sm'.runs
    BY DEF TraceInv, FieldsOK
  <2> QED
    BY <2>1 DEF RunNames
<1>4. sortJob'.start = {} /\ sortDisk.files \subseteq RunNames \cup {TmpName}
  BY DEF TraceInv, FilesOK, WorkNames
<1>5. FilesOK'
  BY <1>3, <1>4 DEF FilesOK, WorkNames
<1> QED
  BY <1>1, <1>2, <1>5 DEF TraceInv, SortLeavesNoTrace

\* The fields of the main thread and of the files after an assignment.
LEMMA FieldsAfter ==
  ASSUME FieldsOK, NEW p, NEW q
  PROVE  /\ LET s == [sm EXCEPT !.pc = p]
            IN  DOMAIN s = DOMAIN sm /\ s.pc = p /\ s.runs = sm.runs /\ s.rc = sm.rc
         /\ LET s == [sm EXCEPT !.pc = p, !.rc = q]
            IN  DOMAIN s = DOMAIN sm /\ s.pc = p /\ s.runs = sm.runs /\ s.rc = q
         /\ LET f == [sortDisk EXCEPT !.files = p]
            IN  DOMAIN f = DOMAIN sortDisk /\ f.files = p
         /\ LET f == [sortDisk EXCEPT !.files = p, !.tmp = q]
            IN  DOMAIN f = DOMAIN sortDisk /\ f.files = p
         /\ LET f == [sortDisk EXCEPT !.files = p, !.run = q]
            IN  DOMAIN f = DOMAIN sortDisk /\ f.files = p
         /\ LET f == [sortDisk EXCEPT !.files = p, !.out = q]
            IN  DOMAIN f = DOMAIN sortDisk /\ f.files = p
BY DEF FieldsOK

LEMMA OpenInputKeeps == TraceInv /\ OpenInput => TraceInv'
<1> SUFFICES ASSUME TraceInv, OpenInput PROVE TraceInv'
  OBVIOUS
<1>1. sm.pc = "open" /\ UNCHANGED <<sortJob, mrg, mth, sortDisk>> /\ FieldsOK /\ sortDisk.files = sortJob.start
  BY DEF OpenInput, TraceInv, FilesOK
<1>2. DOMAIN sm' = DOMAIN sm /\ sm'.runs = sm.runs
      /\ \/ sm'.pc = "done" /\ sm'.rc \in {"exists", "incomplete"}
         \/ sm'.pc = "fill" /\ OutName \notin sortDisk.files /\ SidecarName \notin sortDisk.files
  <2>1. CASE OutName \in sortDisk.files
    BY <1>1, <2>1, FieldsAfter DEF OpenInput
  <2>2. CASE OutName \notin sortDisk.files /\ SidecarName \in sortDisk.files
    BY <1>1, <2>2, FieldsAfter DEF OpenInput
  <2>3. CASE OutName \notin sortDisk.files /\ SidecarName \notin sortDisk.files
    BY <1>1, <2>3, FieldsAfter DEF OpenInput
  <2> QED
    BY <2>1, <2>2, <2>3
<1>3. FieldsOK'
  BY <1>1, <1>2 DEF FieldsOK
<1>4. ThreadsOK'
  BY <1>1, <1>2 DEF TraceInv, ThreadsOK, Ranges
<1>5. sm'.pc = "fill" => sortJob.start = {}
  BY <1>1, <1>2 DEF FieldsOK
<1>6. FilesOK'
  BY <1>1, <1>2, <1>5 DEF FilesOK
<1>7. SortLeavesNoTrace'
  BY <1>1, <1>2 DEF SortLeavesNoTrace
<1> QED
  BY <1>3, <1>4, <1>6, <1>7 DEF TraceInv

LEMMA BatchFillKeeps == TraceInv /\ BatchFill => TraceInv'
<1> SUFFICES ASSUME TraceInv, BatchFill PROVE TraceInv'
  OBVIOUS
<1>1. sm.pc = "fill" /\ UNCHANGED <<sortJob, mrg, mth, sortDisk>> /\ FieldsOK
  BY DEF BatchFill, TraceInv
<1> DEFINE last == Min({sm.pos + RefCap, Len(sortJob.input)})
           more == last - sm.pos = RefCap
           p == IF ~ more /\ sm.runs = 0 /\ rjob.pc = "none" THEN "direct" ELSE "join"
<1>2. \/ sm' = [sm EXCEPT !.pc = "close", !.rc = "input"]
      \/ sm' = [sm EXCEPT !.pos = last, !.more = more, !.pc = p]
  BY DEF BatchFill, EndWith
<1>4. p \in {"direct", "join"}
  OBVIOUS
<1> HIDE DEF last, more, p
<1>3. DOMAIN sm' = DOMAIN sm /\ sm'.runs = sm.runs /\ sm'.pc \in {"close", "direct", "join"}
  <2>1. CASE sm' = [sm EXCEPT !.pc = "close", !.rc = "input"]
    BY <1>1, <2>1, FieldsAfter
  <2>2. CASE sm' = [sm EXCEPT !.pos = last, !.more = more, !.pc = p]
    BY <1>1, <1>4, <2>2, Zenon DEF FieldsOK
  <2> QED
    BY <1>2, <2>1, <2>2
<1> QED
  BY <1>1, <1>3, BeforeMerge DEF FieldsOK

LEMMA DirectKeeps == TraceInv /\ Direct => TraceInv'
<1> SUFFICES ASSUME TraceInv, Direct PROVE TraceInv'
  OBVIOUS
<1>1. sm.pc = "direct" /\ UNCHANGED <<sortJob, mrg, mth>> /\ FieldsOK
  BY DEF Direct, TraceInv
<1>2. PICK rc : sm' = [sm EXCEPT !.pc = "close", !.rc = rc]
  BY DEF Direct, EndWith
<1>3. DOMAIN sm' = DOMAIN sm /\ sm'.runs = sm.runs /\ sm'.pc = "close"
  BY <1>1, <1>2, FieldsAfter
<1>4. DOMAIN sortDisk' = DOMAIN sortDisk /\ sortDisk'.files \subseteq sortDisk.files \cup {TmpName}
  <2>1. \/ UNCHANGED sortDisk
        \/ sortDisk' = [sortDisk EXCEPT !.files = sortDisk.files \cup {TmpName}]
        \/ sortDisk' = [sortDisk EXCEPT !.files = sortDisk.files \cup {TmpName}, !.tmp = batch_sort(buf[sm.cur])]
    BY DEF Direct, AddRecord
  <2>2. CASE sortDisk' = [sortDisk EXCEPT !.files = sortDisk.files \cup {TmpName}]
    BY <1>1, <2>2, FieldsAfter
  <2>3. CASE sortDisk' = [sortDisk EXCEPT !.files = sortDisk.files \cup {TmpName}, !.tmp = batch_sort(buf[sm.cur])]
    <3>1. PICK q : q = batch_sort(buf[sm.cur])
      OBVIOUS
    <3> QED
      BY <1>1, <2>3, <3>1, FieldsAfter
  <2> QED
    BY <2>1, <2>2, <2>3
<1> QED
  BY <1>1, <1>3, <1>4, BeforeMerge DEF FieldsOK

LEMMA JoinRunKeeps == TraceInv /\ JoinRun => TraceInv'
<1> SUFFICES ASSUME TraceInv, JoinRun PROVE TraceInv'
  OBVIOUS
<1>1. sm.pc = "join" /\ UNCHANGED <<sortJob, mrg, mth, sortDisk>> /\ FieldsOK
  BY DEF JoinRun, TraceInv
<1>2. sm' = [sm EXCEPT !.pc = "close", !.rc = rjob.rc] \/ sm' = [sm EXCEPT !.pc = "spawn"]
  BY DEF JoinRun, EndWith, GoTo
<1>3. DOMAIN sm' = DOMAIN sm /\ sm'.runs = sm.runs /\ sm'.pc \in {"close", "spawn"}
  <2>1. CASE sm' = [sm EXCEPT !.pc = "close", !.rc = rjob.rc]
    BY <1>1, <2>1, FieldsAfter
  <2>2. CASE sm' = [sm EXCEPT !.pc = "spawn"]
    BY <1>1, <2>2, FieldsAfter
  <2> QED
    BY <1>2, <2>1, <2>2
<1> QED
  BY <1>1, <1>3, BeforeMerge DEF FieldsOK

\* A run that is begun has its name among those that the cleaning removes.
LEMMA SpawnRunKeeps == TraceInv /\ SpawnRun => TraceInv'
<1> SUFFICES ASSUME TraceInv, SpawnRun PROVE TraceInv'
  OBVIOUS
<1>1. sm.pc = "spawn" /\ UNCHANGED <<sortJob, mrg, mth>> /\ FieldsOK /\ sm.runs \in Nat
  BY DEF SpawnRun, TraceInv, FieldsOK
<1> DEFINE n == sm.runs + 1
           Begun == sortDisk.files \cup {<<"run", n>>}
<1>2. CASE sm' = [sm EXCEPT !.pc = AfterSpawn] /\ UNCHANGED sortDisk
  <2>1. DOMAIN sm' = DOMAIN sm /\ sm'.runs = sm.runs /\ sm'.pc \in {"fill", "close"}
    BY <1>1, <1>2, FieldsAfter DEF AfterSpawn
  <2> QED
    BY <1>1, <1>2, <2>1, BeforeMerge DEF FieldsOK
<1>3. ASSUME sm'.runs = n, DOMAIN sm' = DOMAIN sm, sm'.pc \in {"fill", "close"},
             DOMAIN sortDisk' = DOMAIN sortDisk, sortDisk'.files = Begun
      PROVE  TraceInv'
  <2>1. n \in Nat /\ n >= sm.runs /\ n \in 1 .. n
    BY <1>1
  <2> HIDE DEF n
  <2>2. <<"run", n>> \in {<<"run", i>> : i \in 1 .. sm'.runs}
    BY <1>3, <2>1
  <2> QED
    BY <1>1, <1>3, <2>1, <2>2, BeforeMerge
<1>5. \/ sm' = [sm EXCEPT !.pc = AfterSpawn] /\ UNCHANGED sortDisk
      \/ /\ \/ sm' = [sm EXCEPT !.pc = AfterSpawn, !.runs = n, !.cur = 1 - @]
            \/ sm' = [sm EXCEPT !.pc = "close", !.rc = "io", !.runs = n]
         /\ \E q : sortDisk' = [sortDisk EXCEPT !.files = Begun, !.run = q]
  BY DEF SpawnRun, NewRun, GoTo, AddRecord
<1>6. CASE /\ \/ sm' = [sm EXCEPT !.pc = AfterSpawn, !.runs = n, !.cur = 1 - @]
              \/ sm' = [sm EXCEPT !.pc = "close", !.rc = "io", !.runs = n]
           /\ \E q : sortDisk' = [sortDisk EXCEPT !.files = Begun, !.run = q]
  <2>1. DOMAIN sm' = DOMAIN sm /\ sm'.runs = n /\ sm'.pc \in {"fill", "close"}
    BY <1>1, <1>6 DEF FieldsOK, AfterSpawn
  <2>2. DOMAIN sortDisk' = DOMAIN sortDisk /\ sortDisk'.files = Begun
    BY <1>1, <1>6, FieldsAfter
  <2> QED
    BY <1>3, <2>1, <2>2
<1> QED
  BY <1>2, <1>5, <1>6

\* A step that leaves the main thread, the merge and the names of the files alone.
LEMMA ContentsKeep ==
  ASSUME TraceInv, UNCHANGED <<sortJob, sm, mrg, mth>>,
         DOMAIN sortDisk' = DOMAIN sortDisk, sortDisk'.files = sortDisk.files
  PROVE  TraceInv'
<1>1. FieldsOK'
  BY DEF TraceInv, FieldsOK
<1>2. ThreadsOK'
  BY DEF TraceInv, ThreadsOK, Ranges
<1>3. WorkNames' = WorkNames
  BY DEF WorkNames, RunNames, PartNames, Ranges
<1>4. FilesOK'
  BY <1>3 DEF TraceInv, FilesOK
<1>5. SortLeavesNoTrace'
  BY DEF TraceInv, SortLeavesNoTrace
<1> QED
  BY <1>1, <1>2, <1>4, <1>5 DEF TraceInv

LEMMA RunKeeps == TraceInv /\ (RunSorts \/ RunWritten) => TraceInv'
<1> SUFFICES ASSUME TraceInv, RunSorts \/ RunWritten PROVE TraceInv'
  OBVIOUS
<1>1. UNCHANGED <<sortJob, sm, mrg, mth>>
  BY DEF RunSorts, RunWritten
<1>2. \/ UNCHANGED sortDisk
      \/ \E q : sortDisk' = [sortDisk EXCEPT !.run[rjob.run] = q]
  BY DEF RunSorts, RunWritten
<1>3. DOMAIN sortDisk' = DOMAIN sortDisk /\ sortDisk'.files = sortDisk.files
  BY <1>2 DEF TraceInv, FieldsOK
<1> QED
  BY <1>1, <1>3, ContentsKeep

\* The input is closed: either nothing is merged, or every merging thread starts.
LEMMA CloseInputKeeps == TraceInv /\ CloseInput => TraceInv'
<1> SUFFICES ASSUME TraceInv, CloseInput PROVE TraceInv'
  OBVIOUS
<1>1. sm.pc = "close" /\ UNCHANGED <<sortJob, sortDisk>> /\ FieldsOK
  BY DEF CloseInput, TraceInv
<1>2. PICK rc : /\ sm' = [sm EXCEPT !.rc = rc, !.pc = IF rc = "ok" THEN "merge" ELSE "clean"]
                /\ mrg' = IF rc # "ok" THEN mrg
                     ELSE [mrg EXCEPT !.bounds = choose_bounds(sortDisk.run, SortThreads * RangesPer)]
                /\ mth' = IF rc # "ok" THEN mth ELSE [t \in DOMAIN mth |-> [mth[t] EXCEPT !.pc = "claim"]]
  BY DEF CloseInput
<1>3. DOMAIN sm' = DOMAIN sm /\ sm'.runs = sm.runs /\ sm'.pc = (IF rc = "ok" THEN "merge" ELSE "clean")
  BY <1>1, <1>2 DEF FieldsOK
<1>4. CASE rc # "ok"
  <2>1. UNCHANGED <<mrg, mth>> /\ sm'.pc = "clean"
    BY <1>2, <1>3, <1>4
  <2> QED
    BY <1>1, <1>3, <2>1, BeforeMerge DEF FieldsOK
<1>5. CASE rc = "ok"
  <2>1. sm'.pc = "merge"
    BY <1>3, <1>5
  <2>2. PICK b : mrg' = [mrg EXCEPT !.bounds = b]
    BY <1>2, <1>5
  <2>3. DOMAIN mrg' = DOMAIN mrg /\ mrg'.next = mrg.next
    BY <1>1, <2>2 DEF FieldsOK
  <2>4. mth' = [t \in 1 .. SortThreads |-> [mth[t] EXCEPT !.pc = "claim"]]
    BY <1>1, <1>2, <1>5 DEF FieldsOK
  <2>5. mth' \in [1 .. SortThreads -> MthT] /\ \A t \in 1 .. SortThreads : mth'[t].pc = "claim"
    BY <1>1, <2>4 DEF FieldsOK, MthT
  <2>6. FieldsOK'
    BY <1>1, <1>3, <2>3, <2>5 DEF FieldsOK
  <2>7. ThreadsOK'
    BY <2>1, <2>5 DEF ThreadsOK
  <2>8. sortJob.start = {} /\ sortDisk.files \subseteq RunNames \cup {TmpName}
    BY <1>1 DEF TraceInv, FilesOK, WorkNames
  <2>9. FilesOK'
    BY <1>1, <1>3, <2>1, <2>8 DEF FilesOK, WorkNames, RunNames
  <2> QED
    BY <2>1, <2>6, <2>7, <2>9 DEF TraceInv, SortLeavesNoTrace
<1> QED
  BY <1>4, <1>5

\* The merge is under way: a thread changes its own state, and may write the part of
\* the range it works on.
LEMMA MergeGoesOn ==
  ASSUME TraceInv, sm.pc = "merge", UNCHANGED <<sortJob, sm>>,
         DOMAIN mrg' = DOMAIN mrg, mrg'.bounds = mrg.bounds, mrg'.next \in Nat,
         DOMAIN sortDisk' = DOMAIN sortDisk, sortDisk'.files \subseteq sortDisk.files \cup PartNames,
         NEW t \in 1 .. SortThreads, NEW m \in MthT, m.pc = "range" => m.r \in Ranges,
         mth' = [mth EXCEPT ![t] = m]
  PROVE  TraceInv'
<1>1. FieldsOK'
  BY DEF TraceInv, FieldsOK
<1>2. Ranges' = Ranges
  BY DEF Ranges
<1>3. \A x \in 1 .. SortThreads : mth'[x] = IF x = t THEN m ELSE mth[x]
  BY DEF TraceInv, FieldsOK
<1>4. ThreadsOK'
  BY <1>2, <1>3 DEF TraceInv, ThreadsOK
<1>5. WorkNames' = WorkNames /\ PartNames \subseteq WorkNames
  BY <1>2 DEF WorkNames, RunNames, PartNames
<1>6. FilesOK'
  BY <1>5 DEF TraceInv, FilesOK
<1> QED
  BY <1>1, <1>4, <1>6 DEF TraceInv, SortLeavesNoTrace

LEMMA ClaimKeeps == ASSUME TraceInv, NEW t \in 1 .. SortThreads, Claim(t) PROVE TraceInv'
<1>1. FieldsOK /\ ThreadsOK /\ mth[t] \in MthT /\ mrg.next \in Nat
  BY DEF TraceInv, FieldsOK
<1>2. sm.pc = "merge"
  BY <1>1 DEF Claim, ThreadsOK
<1> DEFINE failed == mrg.failed \/ ~ mth[t].ok
           p == IF failed \/ mrg.next \notin Ranges THEN "end" ELSE "range"
           m == [mth[t] EXCEPT !.pc = p, !.r = mrg.next]
<1>3. mrg' = [mrg EXCEPT !.failed = failed, !.next = @ + 1] /\ UNCHANGED <<sortJob, sm, sortDisk>>
      /\ mth' = [mth EXCEPT ![t] = m]
  BY DEF Claim
<1>4. p \in {"end", "range"} /\ (p = "range" => mrg.next \in Ranges)
  OBVIOUS
<1> HIDE DEF failed, p
<1>5. m \in MthT /\ m.pc = p /\ m.r = mrg.next
  BY <1>1, <1>4 DEF MthT
<1> HIDE DEF m
<1>6. DOMAIN mrg' = DOMAIN mrg /\ mrg'.bounds = mrg.bounds /\ mrg'.next = mrg.next + 1
  BY <1>1, <1>3 DEF FieldsOK
<1>7. mrg'.next \in Nat
  BY <1>1, <1>6
<1>8. m.pc = "range" => m.r \in Ranges
  BY <1>4, <1>5
<1>9. UNCHANGED <<sortJob, sm>> /\ mth' = [mth EXCEPT ![t] = m]
      /\ DOMAIN sortDisk' = DOMAIN sortDisk /\ sortDisk'.files \subseteq sortDisk.files \cup PartNames
  BY <1>3
<1> QED
  BY <1>2, <1>5, <1>6, <1>7, <1>8, <1>9, MergeGoesOn

LEMMA MergeRangeKeeps == ASSUME TraceInv, NEW t \in 1 .. SortThreads, MergeRange(t) PROVE TraceInv'
<1>1. FieldsOK /\ ThreadsOK /\ mth[t] \in MthT /\ mth[t].pc = "range"
  BY DEF TraceInv, FieldsOK, MergeRange
<1>2. sm.pc = "merge" /\ mth[t].r \in Ranges
  BY <1>1 DEF ThreadsOK
<1>3. PICK r, part, n : r = mth[t].r /\ mrg' = [mrg EXCEPT !.part[r] = part, !.records = n]
      /\ sortDisk' = [sortDisk EXCEPT !.files = sortDisk.files \cup {<<"part", r>>}]
  BY DEF MergeRange, AddRecord
<1>4. UNCHANGED <<sortJob, sm>>
  BY DEF MergeRange
<1>5. PICK ok \in BOOLEAN : mth' = [mth EXCEPT ![t] = [mth[t] EXCEPT !.pc = "claim", !.ok = ok]]
  BY DEF MergeRange
<1>6. DOMAIN mrg' = DOMAIN mrg /\ mrg'.bounds = mrg.bounds /\ mrg'.next = mrg.next
  BY <1>1, <1>3 DEF FieldsOK
<1>7. DOMAIN sortDisk' = DOMAIN sortDisk /\ sortDisk'.files = sortDisk.files \cup {<<"part", r>>}
  BY <1>1, <1>3, FieldsAfter
<1>8. sortDisk'.files \subseteq sortDisk.files \cup PartNames
  BY <1>2, <1>3, <1>7 DEF PartNames
<1> DEFINE m == [mth[t] EXCEPT !.pc = "claim", !.ok = ok]
<1>9. m \in MthT /\ m.pc = "claim"
  BY <1>1 DEF MthT
<1> HIDE DEF m
<1>10. mth' = [mth EXCEPT ![t] = m]
  BY <1>5 DEF m
<1> QED
  BY <1>1, <1>2, <1>4, <1>6, <1>7, <1>8, <1>9, <1>10, MergeGoesOn DEF FieldsOK

\* The threads have ended: their parts are removed whether the merge succeeded or not.
LEMMA JoinPartsKeeps == TraceInv /\ JoinParts => TraceInv'
<1> SUFFICES ASSUME TraceInv, JoinParts PROVE TraceInv'
  OBVIOUS
<1>1. sm.pc = "merge" /\ FieldsOK /\ UNCHANGED <<sortJob, mrg, mth>>
      /\ \A t \in DOMAIN mth : mth[t].pc = "end"
  BY DEF TraceInv, JoinParts
<1>2. PICK f, q, code :
        /\ sortDisk' = [sortDisk EXCEPT !.files = f, !.tmp = q]
        /\ sm' = [sm EXCEPT !.pc = "clean", !.rc = code]
        /\ f \subseteq ((sortDisk.files \ RunNames) \ PartNames) \cup {TmpName}
  <2>1. PICK wrote \in BOOLEAN :
          LET counted == ~ mrg.failed /\ mrg.records = sm.pos
              ok == counted /\ wrote
              whole == FlattenSeq([r \in Ranges |-> mrg.part[r]])
          IN  /\ sortDisk' = [sortDisk EXCEPT
                   !.files = ((@ \ RunNames) \ PartsRemoved(ok)) \cup (IF counted THEN {TmpName} ELSE {}),
                   !.tmp = IF ok THEN whole ELSE <<>>]
              /\ sm' = [sm EXCEPT !.pc = "clean", !.rc = IF ok THEN "ok" ELSE "io"]
    BY DEF JoinParts
  <2> DEFINE counted == ~ mrg.failed /\ mrg.records = sm.pos
             ok == counted /\ wrote
             f == ((sortDisk.files \ RunNames) \ PartsRemoved(ok)) \cup (IF counted THEN {TmpName} ELSE {})
             q == IF ok THEN FlattenSeq([r \in Ranges |-> mrg.part[r]]) ELSE <<>>
             code == IF ok THEN "ok" ELSE "io"
  <2>2. sortDisk' = [sortDisk EXCEPT !.files = f, !.tmp = q] /\ sm' = [sm EXCEPT !.pc = "clean", !.rc = code]
    BY <2>1
  <2>3. f \subseteq ((sortDisk.files \ RunNames) \ PartNames) \cup {TmpName}
    BY DEF PartsRemoved, PartNames
  <2> HIDE DEF f, q, code
  <2> QED
    BY <2>2, <2>3
<1>3. DOMAIN sortDisk' = DOMAIN sortDisk /\ sortDisk'.files = f
      /\ DOMAIN sm' = DOMAIN sm /\ sm'.pc = "clean" /\ sm'.runs = sm.runs
  BY <1>1, <1>2, FieldsAfter
<1>4. FieldsOK'
  BY <1>1, <1>3 DEF FieldsOK
<1>5. ThreadsOK'
  BY <1>1, <1>3 DEF ThreadsOK, FieldsOK
<1>6. sortJob.start = {} /\ sortDisk.files \subseteq RunNames \cup {TmpName} \cup PartNames
  BY <1>1 DEF TraceInv, FilesOK, WorkNames
<1>7. FilesOK'
  BY <1>1, <1>2, <1>3, <1>6 DEF FilesOK, WorkNames
<1> QED
  BY <1>3, <1>4, <1>5, <1>7 DEF TraceInv, SortLeavesNoTrace

\* What is left is the runs and the temporary file: they go, and the output stays alone.
LEMMA SortFinishKeeps == TraceInv /\ SortFinish => TraceInv'
<1> SUFFICES ASSUME TraceInv, SortFinish PROVE TraceInv'
  OBVIOUS
<1>1. sm.pc = "clean" /\ FieldsOK /\ UNCHANGED <<sortJob, mrg, mth>>
  BY DEF TraceInv, SortFinish
<1>2. sortJob.start = {} /\ sortDisk.files \subseteq RunNames \cup {TmpName}
  BY <1>1 DEF TraceInv, FilesOK, WorkNames
<1>3. PICK moved \in BOOLEAN :
        LET good == sm.rc \in {"ok", "direct"} /\ moved
        IN  /\ sortDisk' = [sortDisk EXCEPT
                 !.files = ((@ \ RunNames) \ {TmpName}) \cup (IF good THEN {OutName} ELSE {}),
                 !.out = IF good THEN sortDisk.tmp ELSE @]
            /\ sm' = [sm EXCEPT !.pc = "done", !.rc = IF good THEN "ok" ELSE IF @ \in {"ok", "direct"} THEN "io" ELSE @]
  BY DEF SortFinish
<1> DEFINE good == sm.rc \in {"ok", "direct"} /\ moved
           f == ((sortDisk.files \ RunNames) \ {TmpName}) \cup (IF good THEN {OutName} ELSE {})
           q == IF good THEN sortDisk.tmp ELSE sortDisk.out
           code == IF good THEN "ok" ELSE IF sm.rc \in {"ok", "direct"} THEN "io" ELSE sm.rc
<1>4. sortDisk' = [sortDisk EXCEPT !.files = f, !.out = q] /\ sm' = [sm EXCEPT !.pc = "done", !.rc = code]
  BY <1>3
<1>5. f = (IF good THEN {OutName} ELSE {}) /\ (code = "ok" <=> good)
  BY <1>2
<1> HIDE DEF f, q, code, good
<1>6. DOMAIN sortDisk' = DOMAIN sortDisk /\ sortDisk'.files = f
      /\ DOMAIN sm' = DOMAIN sm /\ sm'.pc = "done" /\ sm'.runs = sm.runs /\ sm'.rc = code
  BY <1>1, <1>4, FieldsAfter
<1>7. FieldsOK'
  BY <1>1, <1>6 DEF FieldsOK
<1>8. ThreadsOK'
  BY <1>1, <1>6 DEF TraceInv, ThreadsOK
<1>9. FilesOK' /\ SortLeavesNoTrace'
  BY <1>1, <1>2, <1>5, <1>6 DEF FilesOK, SortLeavesNoTrace
<1> QED
  BY <1>7, <1>8, <1>9 DEF TraceInv

LEMMA SortStepKeeps == TraceInv /\ [SortNext]_sortVars => TraceInv'
<1> SUFFICES ASSUME TraceInv, [SortNext]_sortVars PROVE TraceInv'
  OBVIOUS
<1>1. CASE SortMain
  BY <1>1, OpenInputKeeps, BatchFillKeeps, DirectKeeps, JoinRunKeeps, SpawnRunKeeps, CloseInputKeeps,
     JoinPartsKeeps, SortFinishKeeps DEF SortMain
<1>2. CASE RunSorts \/ RunWritten
  BY <1>2, RunKeeps
<1>3. CASE \E t \in 1 .. SortThreads : Claim(t) \/ MergeRange(t)
  BY <1>3, ClaimKeeps, MergeRangeKeeps
<1>4. CASE UNCHANGED sortVars
  BY <1>4, ContentsKeep DEF sortVars
<1> QED
  BY <1>1, <1>2, <1>3, <1>4 DEF SortNext

\* A sort of a backup that ends well leaves its output and nothing else; one that is
\* refused or fails at any step, in the thread of the run or in a merging thread, leaves
\* the files there were: no partial output, no run, no part, no temporary file
\* (backup_sort: runs_unlink, the parts removed by merge_runs, the rename at the end).
THEOREM SortCleansUp == SortSpec => []SortLeavesNoTrace
<1>1. SortInit => TraceInv
  BY SortStarts
<1>2. TraceInv /\ [SortNext]_sortVars => TraceInv'
  BY SortStepKeeps
<1>3. TraceInv => SortLeavesNoTrace
  BY DEF TraceInv
<1> QED
  BY <1>1, <1>2, <1>3, PTL DEF SortSpec
=============================================================================
