----------------------------- MODULE SortInput -----------------------------
(***************************************************************************)
(* The parallel reader of a compressed backup (backup_sort.c, pin_t): a    *)
(* dispatcher cuts the file into frames and puts them in a ring, workers   *)
(* decompress them in any order, and the reader takes the slots in the     *)
(* order of the file.  One mutex; three condition variables, "space" for   *)
(* the dispatcher, "work" for the workers, "ready" for the reader.  A      *)
(* section under the mutex is one step; what is done on a slot without the *)
(* mutex is a step of its own.                                             *)
(***************************************************************************)
EXTENDS Integers, SequencesExt, FiniteSetsExt

CONSTANTS
  Ring,       \* ring_n
  Unpacker,   \* the worker threads
  Inputs      \* the files: sequences of items, see Item

\* What the dispatcher finds: a frame whose size is known (a worker's job), one
\* that does not decompress, a chunk of a frame it decompresses itself, and
\* something that is not a frame.
Item == {"frame", "badframe", "chunk", "broken"}
ASSUME PinAssumption == Ring \in Nat \ {0} /\ Unpacker # {} /\ Inputs \subseteq Seq(Item)

VARIABLES
  pinIn,   \* the file
  pin,     \* [ring, produced, consumed, pending, stop]
  disp,    \* [pc, at, err]: the dispatcher
  unp,     \* unp[w] = [pc, seq]
  rdr      \* [pc, out]: the thread that reads
pinVars == <<pinIn, pin, disp, unp, rdr>>

PinFree == 0
PinQueued == 1
Busy == 2
Ready == 3
End == 4
PinFailed == -1
Nothing == 0   \* no content; otherwise the index of the item

SlotOf(seq) == seq % Ring
pin_start == [ring |-> [i \in 0 .. (Ring - 1) |-> [state |-> PinFree, src |-> Nothing, out |-> Nothing]],
              produced |-> 0, consumed |-> 0, pending |-> 0, stop |-> FALSE]

RingFullLate(p) == p.produced - p.consumed > Ring   \* mutant: one slot too many
RingFull(p) == p.produced - p.consumed >= Ring
Takeable(s) == s.state \in {Ready, End, PinFailed}

\* pthread_cond_signal(&work): one of the waiting workers, if any.
Waiting == {w \in Unpacker : unp[w].pc = "wait"}
SignalWork(u) == IF Waiting = {} THEN {u} ELSE {[u EXCEPT ![w].pc = "scan"] : w \in Waiting}
SignalReady(r) == IF r.pc = "wait" THEN [r EXCEPT !.pc = "check"] ELSE r
SignalSpace(d) == IF d.pc = "space" THEN [d EXCEPT !.pc = "reserve"] ELSE d

-----------------------------------------------------------------------------
(* The dispatcher: pin_dispatch_main, pin_reserve, pin_publish. *)
AtEnd == disp.err \/ disp.at > Len(pinIn) \/ pinIn[disp.at] = "broken"

PinReserve ==
  /\ disp.pc = "reserve"
  /\ disp' = CASE pin.stop -> [disp EXCEPT !.pc = "done"]
               [] ~ pin.stop /\ RingFull(pin) -> [disp EXCEPT !.pc = "space"]
               [] OTHER -> [disp EXCEPT !.pc = "fill", !.err = @ \/ (disp.at <= Len(pinIn) /\ AtEnd)]
  /\ UNCHANGED <<pinIn, pin, unp, rdr>>

\* The slot is written without the mutex.
Fill ==
  LET i == SlotOf(pin.produced)
  IN  /\ disp.pc = "fill"
      /\ pin' = IF AtEnd THEN pin
                ELSE IF pinIn[disp.at] = "chunk" THEN [pin EXCEPT !.ring[i].out = disp.at]
                ELSE [pin EXCEPT !.ring[i].src = disp.at]
      /\ disp' = [disp EXCEPT !.pc = "publish"]
      /\ UNCHANGED <<pinIn, unp, rdr>>

Publish ==
  LET i == SlotOf(pin.produced)
      state == IF AtEnd THEN IF disp.err THEN PinFailed ELSE End
               ELSE IF pinIn[disp.at] = "chunk" THEN Ready ELSE PinQueued
  IN  /\ disp.pc = "publish"
      /\ pin' = [pin EXCEPT !.ring[i].state = state, !.produced = @ + 1]
      /\ disp' = [disp EXCEPT !.pc = IF AtEnd THEN "done" ELSE "reserve", !.at = @ + 1]
      /\ IF state = PinQueued THEN unp' \in SignalWork(unp) /\ UNCHANGED rdr
         ELSE rdr' = SignalReady(rdr) /\ UNCHANGED unp
      /\ UNCHANGED pinIn

-----------------------------------------------------------------------------
(* A worker: pin_worker_main. *)
FromPending(p) == Max({p.pending, p.consumed})
Claimable(p) == {q \in FromPending(p) .. (p.produced - 1) : p.ring[SlotOf(q)].state = PinQueued}

\* The scan of the ring, from the state p of the ring: the next frame to
\* decompress, or a wait.
Scan(w, p, r) ==
  /\ rdr' = r
  /\ CASE p.stop -> pin' = p /\ unp' = [unp EXCEPT ![w].pc = "exit"]
       [] ~ p.stop /\ Claimable(p) = {} ->
            /\ pin' = [p EXCEPT !.pending = Max({FromPending(p), p.produced})]
            /\ unp' = [unp EXCEPT ![w].pc = "wait"]
       [] OTHER ->
            \E q \in Claimable(p) :
              LET u == [unp EXCEPT ![w] = [pc |-> "unpack", seq |-> q]]
              IN  /\ \A x \in Claimable(p) : q <= x
                  /\ pin' = [p EXCEPT !.ring[SlotOf(q)].state = Busy, !.pending = q + 1]
                  /\ unp' \in (IF q + 1 < p.produced THEN SignalWork(u) ELSE {u})

StartScan(w) == unp[w].pc = "scan" /\ Scan(w, pin, rdr) /\ UNCHANGED <<pinIn, disp>>

\* Without the mutex: the frame is decompressed into its slot.
Unpack(w) ==
  LET i == SlotOf(unp[w].seq)
      item == pin.ring[i].src
  IN  /\ unp[w].pc = "unpack"
      /\ pin' = IF item # Nothing /\ pinIn[item] = "frame" THEN [pin EXCEPT !.ring[i].out = item] ELSE pin
      /\ unp' = [unp EXCEPT ![w].pc = "mark"]
      /\ UNCHANGED <<pinIn, disp, rdr>>

UnpackedWell(s) == s.src # Nothing /\ pinIn[s.src] = "frame"
\* The state of the slot, the reader woken if it waits for this one, and the
\* next scan without leaving the mutex.
Mark(w) ==
  LET i == SlotOf(unp[w].seq)
      p == [pin EXCEPT !.ring[i].state = IF UnpackedWell(pin.ring[i]) THEN Ready ELSE PinFailed]
  IN  /\ unp[w].pc = "mark"
      /\ Scan(w, p, IF unp[w].seq = pin.consumed THEN SignalReady(rdr) ELSE rdr)
      /\ UNCHANGED <<pinIn, disp>>

-----------------------------------------------------------------------------
(* The reader: pin_read, pin_stop. *)
CheckSlot ==
  LET s == pin.ring[SlotOf(pin.consumed)]
  IN  /\ rdr.pc = "check"
      /\ rdr' = [rdr EXCEPT !.pc =
           IF pin.consumed = pin.produced \/ ~ Takeable(s) THEN "wait"
           ELSE CASE s.state = PinFailed -> "error"
                  [] s.state = End -> "eof"
                  [] s.state = Ready -> "copy"]
      /\ UNCHANGED <<pinIn, pin, disp, unp>>

\* A slot is copied without the mutex, in one or several calls.
Copy ==
  /\ rdr.pc = "copy"
  /\ rdr' = [pc |-> "take", out |-> Append(rdr.out, pin.ring[SlotOf(pin.consumed)].out)]
  /\ UNCHANGED <<pinIn, pin, disp, unp>>

Take ==
  /\ rdr.pc = "take"
  /\ pin' = [pin EXCEPT !.ring[SlotOf(pin.consumed)].state = PinFree, !.consumed = @ + 1]
  /\ disp' = SignalSpace(disp)
  /\ rdr' = [rdr EXCEPT !.pc = "check"]
  /\ UNCHANGED <<pinIn, unp>>

\* pin_stop, at the end of the file, after an error, or when the sort gives up
\* before the end; then the threads are joined and the ring is freed.
Stop ==
  /\ rdr.pc \in {"check", "eof", "error"} /\ ~ pin.stop
  /\ pin' = [pin EXCEPT !.stop = TRUE]
  /\ rdr' = [rdr EXCEPT !.pc = "join"]
  /\ disp' = SignalSpace(disp)
  /\ unp' = [w \in Unpacker |-> IF unp[w].pc = "wait" THEN [unp[w] EXCEPT !.pc = "scan"] ELSE unp[w]]
  /\ UNCHANGED pinIn
PinJoin ==
  /\ rdr.pc = "join" /\ disp.pc = "done" /\ \A w \in Unpacker : unp[w].pc = "exit"
  /\ rdr' = [rdr EXCEPT !.pc = "freed"]
  /\ UNCHANGED <<pinIn, pin, disp, unp>>

PinInit ==
  /\ pinIn \in Inputs /\ pin = pin_start
  /\ disp = [pc |-> "reserve", at |-> 1, err |-> FALSE]
  /\ unp = [w \in Unpacker |-> [pc |-> "scan", seq |-> 0]]
  /\ rdr = [pc |-> "check", out |-> <<>>]
Dispatcher == PinReserve \/ Fill \/ Publish
UnpackerStep(w) == StartScan(w) \/ Unpack(w) \/ Mark(w)
Reader == CheckSlot \/ Copy \/ Take \/ Stop \/ PinJoin
PinNext == Dispatcher \/ (\E w \in Unpacker : UnpackerStep(w)) \/ Reader
PinSpec == PinInit /\ [][PinNext]_pinVars

-----------------------------------------------------------------------------
(* Properties *)

\* What the reader hands to the sort is the beginning of the file, in its order
\* and without a hole, whoever decompressed what first; all of it when it says
\* that the file ends, and nothing after a frame that does not decompress.
InputInOrder ==
  /\ rdr.out = [i \in DOMAIN rdr.out |-> i]
  /\ \A i \in DOMAIN rdr.out : pinIn[i] \in {"frame", "chunk"}
  /\ rdr.pc = "eof" => Len(rdr.out) = Len(pinIn)
  /\ rdr.pc = "error" => pinIn[Len(rdr.out) + 1] \in {"badframe", "broken"}

\* No two threads are on one slot when they use it without the mutex.
Users(i) ==
  (IF disp.pc = "fill" /\ SlotOf(pin.produced) = i THEN {"dispatcher"} ELSE {})
  \cup {w \in Unpacker : unp[w].pc = "unpack" /\ SlotOf(unp[w].seq) = i}
  \cup (IF rdr.pc = "copy" /\ SlotOf(pin.consumed) = i THEN {"reader"} ELSE {})
SlotExclusive == \A i \in 0 .. (Ring - 1) : Cardinality(Users(i)) <= 1

\* What the sort reads is right, and nobody else writes it meanwhile.
InputRight == InputInOrder /\ SlotExclusive

\* The reading ends and the ring is freed: no signal is lost between the
\* threads, a stop reaches those that wait.
InputEnds == <>(rdr.pc = "freed")
=============================================================================
