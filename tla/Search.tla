------------------------------- MODULE Search -------------------------------
(***************************************************************************)
(* One depth-first exploration of a root board by the MRV engine           *)
(* (search_packet_backtracking_mrv): the incremental state it keeps beside *)
(* the board, the backtracking loop, the delegation of pending brothers,   *)
(* the flush when the worker stops or abandons a shallow root, and the     *)
(* short proof of the server's expansion (no delegation, a node budget).   *)
(***************************************************************************)
EXTENDS Puzzle

CONSTANTS
  Roots,           \* the boards an exploration may start from
  Options,         \* settings: delegate, singleton, stopOnSolution, abandonDepth, budget
  MaxStock,        \* max_stock_by_thread
  Hungers,         \* values of server_hunger
  WeightMax,       \* MRV_WEIGHT_MAX
  WdegShift,       \* MRV_WDEG_SHIFT
  MaxChecks,       \* delegation checks of one exploration (bound)
  ChunkOf(_)       \* the number of the chunk a packet is in, in a batch: the order
                   \* of the array and ADD_BATCH_MAX give it

ASSUME SearchAssumption ==
  /\ Roots \subseteq [Cells -> Rotated \cup {Empty}]
  /\ \A b \in Roots : check_possibility(b) /\ possibility_placed_count(b) < Parts
  \* every piece came from a compartment: it shows no grey to the inside
  /\ \A b \in Roots : \A c \in Cells \ EmptyCells(b) : \A k \in NeighbourSides(c) : Side(b[c], k) # 0
  /\ Options \subseteq [delegate : BOOLEAN, singleton : BOOLEAN, stopOnSolution : BOOLEAN,
                        abandonDepth : Nat, budget : Nat]
  \* only the proof of a closure, which has a budget, runs without delegation
  /\ \A o \in Options : o.delegate \/ o.budget > 0
  /\ MaxStock \in Nat \ {0} /\ Hungers \subseteq Nat
  /\ WeightMax \in Nat \ {0} /\ WdegShift \in Nat /\ MaxChecks \in Nat

VARIABLES
  root, opt,
  board, constraints, used, cell_mask,
  front,       \* [empty, constrained, nconstr, weight]
  stack,       \* levels: [cell, search, next_s, placed]
  engPc,          \* "node", "backtrack" or a result: "exhausted", "stopped", "budget", "exit"
  nodes, checks,
  engRequest,     \* "continue", "pause" or "stop"
  found,
  sent,        \* packets the server has taken
  kept,        \* packets put back in the stock of the process (put_to_local)
  doubled,     \* packets of a broken exchange that may be in two places (history)
  lost

engine == <<board, constraints, used, cell_mask, front, stack, nodes>>
outcome == <<found, sent, kept, doubled, lost>>
engineVars == <<root, opt, engine, engPc, checks, engRequest, outcome>>

Solves(s, b) == \A c \in Cells : b[c] \in {Empty, s[c]}

\* The reference: every complete board, filled cell by cell in a fixed order.
AllSolutions ==
  LET fits(b, c, p) == /\ p[1] \notin Used(b)
                       /\ \A k \in Sides :
                            LET want == what_search_in_grid_to_key(b, c)[k]
                            IN  IF want = AllFace THEN Side(p, k) # 0 ELSE Side(p, k) = want
      fill[n \in 0 .. Parts] ==
        IF n = 0 THEN {[c \in Cells |-> Empty]}
        ELSE UNION {{[b EXCEPT ![CellAt(n - 1)] = p] : p \in {q \in Rotated : fits(b, CellAt(n - 1), q)}}
                      : b \in fill[n - 1]}
  IN  fill[Parts]
SolutionsBelow(b) == {s \in AllSolutions : Solves(s, b)}

-----------------------------------------------------------------------------
(* The state kept beside the board. *)
bt_init_constraints(b) == [c \in Cells |-> what_search_in_grid_to_key(b, c)]
bt_mask_init(keys) == [c \in Cells |-> build_bucket_id_mask[keys[c]]]
NConstr(b, c) ==
  4 - Cardinality({k \in NeighbourSides(c) : b[Neighbour(c, k)] = Empty})
bt_frontier_init(b) ==
  [empty       |-> EmptyCells(b),
   nconstr     |-> [c \in Cells |-> NConstr(b, c)],
   constrained |-> {c \in Cells : NConstr(b, c) > 0},
   weight      |-> [c \in Cells |-> 0]]

Neighbours(c) == {Neighbour(c, k) : k \in NeighbourSides(c)}
Toward(d, c) == CHOOSE k \in NeighbourSides(d) : Neighbour(d, k) = c

bt_propagate_place(keys, c, p) ==
  [d \in Cells |-> IF d \in Neighbours(c)
                   THEN [keys[d] EXCEPT ![Toward(d, c)] = Side(p, Toward(c, d))]
                   ELSE keys[d]]
bt_propagate_undo(keys, c) ==
  [d \in Cells |-> IF d \in Neighbours(c)
                   THEN [keys[d] EXCEPT ![Toward(d, c)] = AllFace] ELSE keys[d]]
bt_mask_refresh(mask, keys, c) ==
  [d \in Cells |-> IF d \in Neighbours(c) THEN build_bucket_id_mask[keys[d]] ELSE mask[d]]
bt_frontier_place(f, c) ==
  [f EXCEPT !.empty = @ \ {c},
            !.constrained = @ \cup Neighbours(c),
            !.nconstr = [d \in Cells |-> IF d \in Neighbours(c) THEN @[d] + 1 ELSE @[d]]]
\* Mutant: a cell is released by the first neighbour that is lifted.
FrontierUndoReleases(f, c) ==
  [f EXCEPT !.empty = @ \cup {c},
            !.constrained = @ \ Neighbours(c),
            !.nconstr = [d \in Cells |-> IF d \in Neighbours(c) THEN @[d] - 1 ELSE @[d]]]
bt_frontier_undo(f, c) ==
  LET n == [d \in Cells |-> IF d \in Neighbours(c) THEN f.nconstr[d] - 1 ELSE f.nconstr[d]]
  IN  [f EXCEPT !.empty = @ \cup {c},
                !.constrained = @ \ {d \in Neighbours(c) : n[d] = 0},
                !.nconstr = n]

\* The learned weight of a cell saturates: all weights are halved together.
bt_frontier_fail(w, c) ==
  IF w[c] + 1 < WeightMax THEN [w EXCEPT ![c] = @ + 1]
  ELSE [d \in Cells |-> (IF d = c THEN w[d] + 1 ELSE w[d]) \div 2]

\* Both cells of a failure learn: the dead one and the one just placed.
bt_fc_failed(w, dead, c) == bt_frontier_fail(bt_frontier_fail(w, dead), c)

-----------------------------------------------------------------------------
(* The choice of the next cell. *)
Log2(n) == Cardinality({k \in 1 .. n : 2 ^ k <= n})
mrv_wdeg_shl(w) == IF Log2(w + 1) >= WdegShift THEN 0 ELSE WdegShift - Log2(w + 1)
mrv_free_candidates(c) == Cardinality(cell_mask[c] \ used)
MrvScore(c) == mrv_free_candidates(c) * 2 ^ mrv_wdeg_shl(front.weight[c])

Frontier == front.empty \cap front.constrained
mrv_finish_choice == LET rest == front.empty \ front.constrained
                     IN  IF rest = {} THEN NoCell ELSE FirstCell(rest)
mrv_choose_cell ==
  LET key(c) == MrvScore(c) * 8 + (7 - front.nconstr[c])
  IN  CASE \E c \in Frontier : mrv_free_candidates(c) = 0 -> NoCell
        [] Frontier = {} -> mrv_finish_choice
        [] OTHER -> FirstCell({c \in Frontier : \A d \in Frontier : key(c) <= key(d)})

\* The same choice in one comparison: score, constraints and position packed in
\* one integer, a dead cell recognised by an empty score field.
bt_nc_key(c) == ((7 - front.nconstr[c]) * 256 + Pos(c)) % 2 ^ 16
mrv_choose_cell_fast ==
  LET best == CHOOSE c \in Frontier :
                \A d \in Frontier : MrvScore(c) * 2 ^ 11 + bt_nc_key(c)
                                      <= MrvScore(d) * 2 ^ 11 + bt_nc_key(d)
  IN  IF Frontier = {} THEN mrv_finish_choice
      ELSE IF MrvScore(best) = 0 THEN NoCell
      ELSE CellAt(bt_nc_key(best) % 256)

\* The first side of c, in their order, whose empty neighbour is dead.
FirstDead(dead, c) ==
  IF dead = {} THEN NoCell ELSE Neighbour(c, CHOOSE k \in dead : \A j \in dead : k <= j)
EmptySides(b, c) == {k \in NeighbourSides(c) : b[Neighbour(c, k)] = Empty}

\* The empty neighbours of a piece just placed keep a candidate.
bt_forward_check_fast(b, mask, us, c) ==
  FirstDead({k \in EmptySides(b, c) : mask[Neighbour(c, k)] \subseteq us}, c)

\* Mutant: two neighbours that could take the same piece count as a conflict.
ForwardCheckFirstOnly(b, keys, us, c) ==
  LET free(k) == FreePieces(keys[Neighbour(c, k)], us)
      dead(k) == \/ free(k) = {}
                 \/ \E j \in EmptySides(b, c) :
                      j < k /\ \E p \in free(k), q \in free(j) : p[1] = q[1]
  IN  FirstDead({k \in EmptySides(b, c) : dead(k)}, c)

\* They do, and no two of them need the same last one.
bt_forward_check(b, keys, us, c) ==
  LET free(k) == FreePieces(keys[Neighbour(c, k)], us)
      dead(k) == \/ free(k) = {}
                 \/ \E j \in EmptySides(b, c) :
                      /\ j < k
                      /\ \E p \in free(k), q \in free(j) :
                           free(k) = {p} /\ free(j) = {q} /\ p[1] = q[1]
  IN  FirstDead({k \in EmptySides(b, c) : dead(k)}, c)

-----------------------------------------------------------------------------
(* Pending brothers and delegation. *)
Top == Len(stack)
\* The board as level i saw it: its piece and the pieces above it lifted.
Lifted(i) == [c \in Cells |-> IF \E j \in i .. Top : stack[j].placed # Empty /\ stack[j].cell = c
                              THEN Empty ELSE board[c]]
PendingAt(i) ==
  {s \in stack[i].next_s .. Len(stack[i].search) :
     stack[i].search[s][1] \notin Used(Lifted(i))}
bt_count_pending ==
  FoldLeft(LAMBDA n, i : n + Cardinality(PendingAt(i)), 0, [i \in 1 .. Top |-> i])

bt_delegation_quota(pending, h) ==
  IF pending > MaxStock THEN MaxStock
  ELSE IF h <= 0 \/ pending < 2 THEN 0
  ELSE IF h < pending \div 2 THEN h ELSE pending \div 2

bt_should_abandon_shallow_root ==
  /\ opt.abandonDepth > 0
  /\ possibility_placed_count(root) < opt.abandonDepth
  /\ possibility_placed_count(board) >= opt.abandonDepth

\* Mutant: the level keeps the candidate it has just given away.
EmitKeeps(max, i, r, s) ==
  LET b == [Lifted(i) EXCEPT ![stack[i].cell] = stack[i].search[s]]
  IN  IF Cardinality(r.out) >= max \/ s \notin PendingAt(i) THEN r
      ELSE IF possibility_placed_count(b) >= Parts THEN [r EXCEPT !.solved = @ \cup {b}]
      ELSE [r EXCEPT !.next[i] = s, !.out = @ \cup {b}]
\* One candidate of level i: a packet, a complete board (reported, not counted)
\* or a board the forward check drops. r.out is full at max: nothing moves.
EmitOne(max, i, r, s) ==
  LET b == [Lifted(i) EXCEPT ![stack[i].cell] = stack[i].search[s]]
  IN  IF Cardinality(r.out) >= max THEN r
      ELSE IF s \notin PendingAt(i) THEN [r EXCEPT !.next[i] = s + 1]
      ELSE IF possibility_placed_count(b) >= Parts
           THEN [r EXCEPT !.next[i] = s + 1, !.solved = @ \cup {b}]
      ELSE IF forward_check_next_k(b) THEN [r EXCEPT !.next[i] = s + 1, !.out = @ \cup {b}]
      ELSE [r EXCEPT !.next[i] = s + 1]
EmitLevel(max, r, i) ==
  FoldLeft(LAMBDA q, s : EmitOne(max, i, q, s), r,
           [n \in 1 .. Len(stack[i].search) + 1 - stack[i].next_s |-> stack[i].next_s + n - 1])
bt_materialize_pending(max) ==
  FoldLeft(LAMBDA r, i : EmitLevel(max, r, Top + 1 - i),
           [out |-> {}, solved |-> {}, next |-> [i \in 1 .. Top |-> stack[i].next_s]],
           [i \in 1 .. Top |-> i])

-----------------------------------------------------------------------------
\* Mutant: a short proof is tried at any depth.
ShortProofAlways(b, budget) == Parts - possibility_placed_count(b) > 0
\* etii_expand_short_proof starts only when the budget cannot reach a solution.
ShortProofAllowed(b, budget) == Parts - possibility_placed_count(b) > budget

SearchInit ==
  /\ root \in Roots /\ opt \in Options
  /\ opt.budget > 0 => ShortProofAllowed(root, opt.budget)
  /\ board = root
  /\ constraints = bt_init_constraints(board)
  /\ used = Used(board)
  /\ cell_mask = bt_mask_init(constraints)
  /\ front = bt_frontier_init(board)
  /\ stack = <<>> /\ nodes = 1 /\ checks \in 0 .. MaxChecks
  /\ engPc = "node"
  /\ engRequest = "continue"
  /\ found = {} /\ sent = {} /\ kept = {} /\ doubled = {} /\ lost = {}

Complete == possibility_placed_count(board) >= Parts

\* record_solution: with stop_on_solution the process exits at the first one.
record_solution(boards, next) ==
  IF opt.stopOnSolution /\ boards # {}
  THEN \E b \in boards : found' = found \cup {b} /\ engPc' = "exit"
  ELSE found' = found \cup boards /\ engPc' = next

SolutionReached ==
  /\ engPc = "node" /\ Complete
  /\ record_solution({board}, "backtrack")
  /\ UNCHANGED <<root, opt, engine, checks, engRequest, sent, kept, doubled, lost>>

Chunks(packets) == {ChunkOf(b) : b \in packets}
\* A batch leaves chunk by chunk. A chunk the server refuses goes to the stock of
\* the process, and the call still succeeds.
put_to_server(packets) ==
  \E accepted \in SUBSET Chunks(packets) :
    /\ sent' = sent \cup {b \in packets : ChunkOf(b) \in accepted}
    /\ kept' = kept \cup {b \in packets : ChunkOf(b) \notin accepted}
\* The connection is lost on chunk k, which the server has taken or not; it goes
\* to the stock of the process with the chunks after it, and the call fails.
put_to_server_broken(packets) ==
  \E k \in Chunks(packets) : \E accepted \in SUBSET {j \in Chunks(packets) : j <= k} :
    /\ sent' = sent \cup {b \in packets : ChunkOf(b) \in accepted}
    /\ kept' = kept \cup {b \in packets : ChunkOf(b) \notin accepted \ {k}}

\* Every pending brother and the current board go back to the server; a
\* failure of add_possibility is only logged.
bt_flush_pending(next) ==
  \E r \in {bt_materialize_pending(bt_count_pending)} :
  \E packets \in {r.out \cup {board}} :
      /\ record_solution(r.solved, next)
      /\ IF engPc' = "exit" THEN UNCHANGED <<sent, kept, doubled, lost>>
         ELSE \/ put_to_server(packets) /\ UNCHANGED <<doubled, lost>>
              \/ /\ put_to_server_broken(packets) /\ lost' = lost
                 /\ doubled' = doubled \cup (packets \cap sent' \cap kept')
              \/ lost' = lost \cup packets    \* no connection
                 /\ UNCHANGED <<sent, kept, doubled>>
      /\ stack' = IF engPc' = "exit" THEN stack ELSE <<>>
      /\ UNCHANGED <<root, opt, board, constraints, used, cell_mask, front, nodes, engRequest>>

StopRequested ==
  /\ engPc = "node" /\ ~Complete /\ engRequest = "stop"
  /\ IF opt.delegate THEN bt_flush_pending("stopped")
     ELSE /\ engPc' = "stopped"
          /\ UNCHANGED <<root, opt, engine, engRequest, outcome>>
  /\ UNCHANGED checks

\* The delegation check of a worker, due every so many nodes and milliseconds.
CheckDue ==
  /\ engPc = "node" /\ ~Complete /\ engRequest = "continue"
  /\ opt.delegate /\ checks < MaxChecks
  /\ checks' = checks + 1
bt_abandon_shallow_root ==
  /\ CheckDue /\ bt_should_abandon_shallow_root
  /\ bt_flush_pending("exhausted")
\* server_hunger is announced by the server and spent by every thread: a read
\* of it may give any value. When the exchange breaks the stack is left as it was,
\* whatever has become of the packets.
bt_delegate_if_needed ==
  /\ CheckDue /\ ~bt_should_abandon_shallow_root
  /\ \E quota \in {bt_delegation_quota(bt_count_pending, hunger) : hunger \in Hungers} :
     \E r \in {bt_materialize_pending(quota)} :
       /\ record_solution(IF quota > 0 THEN r.solved ELSE {}, "choose")
       /\ \/ /\ quota > 0 /\ r.out # {} /\ engPc' # "exit"
             /\ \/ /\ put_to_server(r.out) /\ doubled' = doubled
                   /\ stack' = [i \in 1 .. Top |-> [stack[i] EXCEPT !.next_s = r.next[i]]]
                \/ /\ put_to_server_broken(r.out) /\ doubled' = doubled \cup r.out
                   /\ stack' = stack
          \/ UNCHANGED <<sent, kept, doubled, stack>>    \* nothing to send, or no connection
  /\ UNCHANGED <<root, opt, board, constraints, used, cell_mask, front, nodes, engRequest, lost>>

\* A new level: the chosen cell with its compartment, or no candidate at all.
Descend ==
  LET c == mrv_choose_cell_fast
  IN  /\ \/ engPc = "choose"
         \/ engPc = "node" /\ ~Complete /\ engRequest = "continue"
      /\ stack' = Append(stack, [cell   |-> IF c = NoCell THEN <<0, 0>> ELSE c,
                                 search |-> IF c = NoCell THEN <<>> ELSE buildBigArray[constraints[c]],
                                 next_s |-> 1,
                                 placed |-> Empty])
      /\ engPc' = "backtrack"
      /\ UNCHANGED <<root, opt, board, constraints, used, cell_mask, front, nodes,
                     checks, engRequest, outcome>>

\* The piece of the top level is lifted.
Undo ==
  /\ engPc = "backtrack" /\ Top > 0 /\ stack[Top].placed # Empty
  /\ LET c == stack[Top].cell
         keys == bt_propagate_undo(constraints, c)
     IN  /\ board' = [board EXCEPT ![c] = Empty]
         /\ used' = used \ {stack[Top].placed[1]}
         /\ constraints' = keys
         /\ front' = bt_frontier_undo(front, c)
         /\ cell_mask' = bt_mask_refresh(cell_mask, keys, c)
         /\ stack' = [stack EXCEPT ![Top].placed = Empty]
  /\ UNCHANGED <<root, opt, engPc, nodes, checks, engRequest, outcome>>

\* The next free candidate of the top level is placed; when the forward check
\* finds a neighbour dead it is lifted again and both cells learn. next_s is
\* here also the loop variable s of the trials.
TryCandidate ==
  LET lvl  == stack[Top]
      free == {s \in lvl.next_s .. Len(lvl.search) : lvl.search[s][1] \notin used}
      s    == CHOOSE x \in free : \A y \in free : x <= y
      p    == lvl.search[s]
      b    == [board EXCEPT ![lvl.cell] = p]
      keys == bt_propagate_place(constraints, lvl.cell, p)
      mask == bt_mask_refresh(cell_mask, keys, lvl.cell)
      dead == IF possibility_placed_count(b) >= Parts THEN NoCell
              ELSE IF opt.singleton THEN bt_forward_check(b, keys, used \cup {p[1]}, lvl.cell)
              ELSE bt_forward_check_fast(b, mask, used \cup {p[1]}, lvl.cell)
  IN  /\ engPc = "backtrack" /\ Top > 0 /\ lvl.placed = Empty /\ free # {}
      /\ IF dead # NoCell
         THEN /\ front' = [front EXCEPT !.weight = bt_fc_failed(@, dead, lvl.cell)]
              /\ stack' = [stack EXCEPT ![Top].next_s = s + 1]
              /\ UNCHANGED <<board, constraints, used, cell_mask, nodes, engPc>>
         ELSE /\ board' = b /\ constraints' = keys /\ cell_mask' = mask
              /\ used' = used \cup {p[1]}
              /\ front' = bt_frontier_place(front, lvl.cell)
              /\ stack' = [stack EXCEPT ![Top].next_s = s + 1, ![Top].placed = p]
              /\ nodes' = IF opt.budget > 0 THEN nodes + 1 ELSE nodes
              /\ engPc' = IF opt.budget > 0 /\ nodes' >= opt.budget THEN "budget" ELSE "node"
      /\ UNCHANGED <<root, opt, checks, engRequest, outcome>>

\* Mutant: the exhausted level stays.
PopLevelKeeps ==
  /\ engPc = "backtrack" /\ Top > 0 /\ stack[Top].placed = Empty
  /\ \A s \in stack[Top].next_s .. Len(stack[Top].search) : stack[Top].search[s][1] \in used
  /\ UNCHANGED engineVars
\* No candidate left at the top level.
PopLevel ==
  /\ engPc = "backtrack" /\ Top > 0 /\ stack[Top].placed = Empty
  /\ \A s \in stack[Top].next_s .. Len(stack[Top].search) : stack[Top].search[s][1] \in used
  /\ stack' = SubSeq(stack, 1, Top - 1)
  /\ UNCHANGED <<root, opt, board, constraints, used, cell_mask, front, nodes, engPc,
                 checks, engRequest, outcome>>

Exhaust ==
  /\ engPc = "backtrack" /\ Top = 0
  /\ engPc' = "exhausted"
  /\ UNCHANGED <<root, opt, engine, checks, engRequest, outcome>>

\* The other threads change the request flag.
Results == {"exhausted", "stopped", "budget", "exit"}
RequestChanges ==
  /\ engPc \notin Results /\ engRequest # "stop"
  /\ engRequest' \in {"continue", "pause", "stop"} \ {engRequest}
  /\ UNCHANGED <<root, opt, engine, engPc, checks, outcome>>

EngineStep ==
  \/ Descend \/ Undo \/ TryCandidate \/ PopLevel \/ Exhaust
  \/ SolutionReached \/ StopRequested
  \/ bt_abandon_shallow_root \/ bt_delegate_if_needed
SearchNext == EngineStep \/ RequestChanges
SearchSpec == SearchInit /\ [][SearchNext]_engineVars

\* The thread of the search is scheduled; what the others do is not assumed.
SearchFairSpec == SearchSpec /\ WF_engineVars(EngineStep)

-----------------------------------------------------------------------------
(* Properties *)

\* The solutions the rest of the exploration will meet: under the current
\* board while it is not expanded, and under the candidates left at each level.
OpenSolutions ==
  {x \in SolutionsBelow(root) :
     \/ engPc \in {"node", "choose", "budget", "exit"} /\ Solves(x, board)
     \/ engPc = "stopped" /\ ~opt.delegate /\ Solves(x, board)
     \/ \E i \in 1 .. Top :
          /\ Solves(x, Lifted(i))
          /\ \E s \in stack[i].next_s .. Len(stack[i].search) : stack[i].search[s] = x[stack[i].cell]}

Abstract == INSTANCE Exploration WITH
  Solutions <- AllSolutions,
  open      <- OpenSolutions,
  found     <- found,
  sent      <- UNION {SolutionsBelow(b) : b \in sent},
  kept      <- UNION {SolutionsBelow(b) : b \in kept},
  lost      <- UNION {SolutionsBelow(b) : b \in lost},
  verdict   <- CASE engPc \in {"node", "choose", "backtrack"} -> "running"
                 [] engPc = "budget" -> "unknown"
                 [] OTHER -> engPc

\* The MRV engine implements Exploration: no pruning, no delegation, no flush
\* and no short proof closes a solution that was not reported or sent, and a
\* root is exhausted only when nothing is open under it.
ImplementsExploration == Abstract!ExplorationSpec

\* Type correctness of the engine's state.
SearchTypeOK ==
  /\ root \in Roots /\ opt \in Options
  /\ board \in [Cells -> Rotated \cup {Empty}]
  /\ constraints \in [Cells -> Keys]
  /\ used \subseteq 1 .. Parts
  /\ cell_mask \in [Cells -> SUBSET (1 .. Parts)]
  /\ front.empty \subseteq Cells /\ front.constrained \subseteq Cells
  /\ front.nconstr \in [Cells -> 0 .. 4]
  /\ front.weight \in [Cells -> 0 .. WeightMax - 1]
  /\ Len(stack) <= Parts
  /\ engPc \in Results \cup {"node", "choose", "backtrack"}
  /\ engRequest \in {"continue", "pause", "stop"}

\* What the engine maintains piece by piece is what it would compute from the
\* board (the assertion of DEBUG_CHECK_POSSIBILITY): keys, used pieces, masks,
\* frontier. A piece lifted in another order than it was placed would break it.
IncrementalStateExact ==
  /\ constraints = bt_init_constraints(board)
  /\ used = Used(board)
  /\ cell_mask = bt_mask_init(constraints)
  /\ [front EXCEPT !.weight = 0] = [bt_frontier_init(board) EXCEPT !.weight = 0]

\* The packed comparison of the fast path chooses the cell of the plain one.
FastChoiceAgrees == mrv_choose_cell_fast = mrv_choose_cell

\* What the engine keeps up to date piece by piece is what the board implies
\* (SearchTypeOK, IncrementalStateExact), and the packed comparison of its fast
\* path chooses the cell of the plain one (FastChoiceAgrees).
EngineStateExact == SearchTypeOK /\ IncrementalStateExact /\ FastChoiceAgrees

\* Work is in one place: no solution is under two packets handed out (taken by the
\* server, or put in the stock of the process by a refusal), nor under one of them
\* and still open here, but for the packets of an exchange that broke; and every
\* packet is a sane board below the root.
SharedWorkIsDisjoint ==
  LET handed == sent \cup kept
      open == OpenSolutions
      holders(x) == {b \in handed \ doubled : Solves(x, b)}
  IN  /\ \A x \in AllSolutions :
           /\ \A b, d \in holders(x) : b = d
           /\ holders(x) \cap sent \cap kept = {}
           /\ holders(x) # {} => x \notin open
      /\ \A b \in handed : check_possibility(b) /\ (is_origin_of(root, b) \/ b = root)

\* bt_delegate_if_needed: when the send fails the stack is not marked, "le travail
\* reste local"; so what the server has taken is never still open here.
FailedSendStaysHere == \A b \in sent : SolutionsBelow(b) \cap OpenSolutions = {}

\* A short proof never holds a complete board: it has no connection to report
\* it on, and the expansion would drop the child.
ShortProofNeverSolves == ~opt.delegate => found = {}

\* The judgements of the pruner and of the expansion on every board met: the
\* pieces possibility_all_has_a_next forces lose no solution, a board it or
\* forward_check_next_k condemns has none, and the pruned children of the light
\* search share out the solutions of their parent.
JudgementsSound ==
  LET sols == SolutionsBelow(board)
      r    == possibility_all_has_a_next(board)
      kids == search_possiblity_light(board, TRUE)
  IN  engPc = "node" =>
      /\ r.alive => SolutionsBelow(r.b) = sols
      /\ (~r.alive \/ ~forward_check_next_k(board)) => sols = {}
      /\ Complete \/ UNION {SolutionsBelow(d) : d \in kids} = sols

\* What the pruner and the expansion judge of a board is true of its solutions
\* (JudgementsSound), and a short proof meets none (ShortProofNeverSolves).
PruningSound == JudgementsSound /\ ShortProofNeverSolves

\* The exploration ends once it is no longer paused: no level is ever resumed
\* at a candidate it has already tried.
SearchEnds == <>[](engRequest # "pause") => <>(engPc \in Results)

=============================================================================
