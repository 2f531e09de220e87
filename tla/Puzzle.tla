------------------------------- MODULE Puzzle -------------------------------
(***************************************************************************)
(* The data of the search: pieces and their rotations, the table of the    *)
(* compartments (the pieces that suit a cell given the four sides around   *)
(* it), and the pure algorithms of possibility.c that judge a board.       *)
(* Sides are numbered 1 top, 2 right, 3 bottom, 4 left, as the four fields *)
(* of key_part; 0 is the grey face of the border and AllFace the wildcard  *)
(* (sizearrayM) of a side whose neighbour is not placed yet.               *)
(***************************************************************************)
EXTENDS Integers, FiniteSets, Sequences, SequencesExt

CONSTANTS
  Size,       \* ETERN_SIZE
  MaxFace,    \* search_max_face of the data file
  Faces,      \* Faces[id][side]: the pieces of the data file
  ForwardK    \* FORWARD_CHECK_K

ASSUME PuzzleAssumption ==
  /\ Size \in Nat \ {0}
  /\ Size * Size <= 256        \* mrv_pos_fits_check, at compile time
  /\ MaxFace \in Nat
  /\ Faces \in [1 .. Size * Size -> [1 .. 4 -> 0 .. MaxFace]]
  /\ ForwardK \in Nat

Parts == Size * Size
Sides == 1 .. 4
Cells == (0 .. Size - 1) \X (0 .. Size - 1)
Pos(c) == c[1] * Size + c[2]
CellAt(pos) == <<pos \div Size, pos % Size>>

Empty == <<0, 0>>                    \* grid[x][y] == -2
Rotated == (1 .. Parts) \X (0 .. 3)  \* a piece and its number of turns
AllFace == MaxFace + 1

\* One turn moves left to top, top to right, right to bottom, bottom to left.
rotatePart(faces, turns) == [k \in Sides |-> faces[((k - 1 - turns) % 4) + 1]]
rotate_all_parts == [p \in Rotated |-> rotatePart(Faces[p[1]], p[2])]
Side(p, k) == rotate_all_parts[p][k]

\* A known side must be equal; an unknown one faces an inner neighbour, so it
\* may be anything but the grey of the border.
search_face(set, face, k) ==
  {p \in set : IF face = AllFace THEN Side(p, k) # 0 ELSE Side(p, k) = face}

compute_face_frequency ==
  [f \in 0 .. MaxFace |-> Cardinality({q \in Rotated \X Sides : Side(q[1], q[2]) = f})]

\* How common the faces are that the piece would show to empty neighbours.
arena_exposed_score(p, key) ==
  LET exposed(k) == IF key[k] = AllFace THEN compute_face_frequency[Side(p, k)] ELSE 0
  IN  exposed(1) + exposed(2) + exposed(3) + exposed(4)

\* The rarest first; the stable sort keeps the order of the table otherwise.
RarerFirst(key, p, q) ==
  LET sp == arena_exposed_score(p, key)
      sq == arena_exposed_score(q, key)
      at(r) == r[1] + Parts * r[2]
  IN  sp < sq \/ (sp = sq /\ at(p) < at(q))
sort_compartment_by_exposed_rarity(set, key) ==
  [i \in 1 .. Cardinality(set) |->
     CHOOSE p \in set : Cardinality({q \in set : RarerFirst(key, q, p)}) = i - 1]

Keys == [Sides -> 0 .. AllFace]
Compartment(key) ==
  search_face(search_face(search_face(search_face(Rotated, key[1], 1), key[2], 2), key[3], 3), key[4], 4)
buildBigArray ==
  [key \in Keys |-> sort_compartment_by_exposed_rarity(Compartment(key), key)]
build_bucket_id_mask ==
  [key \in Keys |-> {p[1] : p \in Compartment(key)}]

-----------------------------------------------------------------------------
(* The neighbour of cell c on side k, and the side it shows to c. *)
Neighbour(c, k) ==
  CASE k = 1 -> <<c[1], c[2] - 1>> [] k = 2 -> <<c[1] + 1, c[2]>>
    [] k = 3 -> <<c[1], c[2] + 1>> [] k = 4 -> <<c[1] - 1, c[2]>>
Opposite(k) == ((k + 1) % 4) + 1
NeighbourSides(c) == {k \in Sides : Neighbour(c, k) \in Cells}

what_search_in_grid_to_key(b, c) ==
  [k \in Sides |->
     IF k \notin NeighbourSides(c) THEN 0
     ELSE IF b[Neighbour(c, k)] = Empty THEN AllFace
     ELSE Side(b[Neighbour(c, k)], Opposite(k))]

EmptyCells(b) == {c \in Cells : b[c] = Empty}
Used(b) == {b[c][1] : c \in Cells \ EmptyCells(b)}
possibility_placed_count(b) == Parts - Cardinality(EmptyCells(b))
FreePieces(key, used) == {p \in Range(buildBigArray[key]) : p[1] \notin used}
Unconstrained == [k \in Sides |-> AllFace]
FirstCell(set) == CHOOSE c \in set : \A d \in set : Pos(c) <= Pos(d)

\* The first ForwardK empty cells, in the order of dirx/diry (the order of the
\* positions here), keep a free candidate.
forward_check_next_k(b) ==
  \A c \in EmptyCells(b) :
    Cardinality({d \in EmptyCells(b) : Pos(d) < Pos(c)}) < ForwardK
      => FreePieces(what_search_in_grid_to_key(b, c), Used(b)) # {}

\* One visit of cell c by a pass of possibility_all_has_a_next_counted: a
\* compartment of one piece forces it.
ForceAt(r, c) ==
  LET key    == what_search_in_grid_to_key(r.b, c)
      bucket == buildBigArray[key]
  IN  IF ~r.alive \/ r.b[c] # Empty \/ key = Unconstrained THEN r
      ELSE IF FreePieces(key, Used(r.b)) = {} THEN [r EXCEPT !.alive = FALSE]
      ELSE IF Len(bucket) = 1 THEN [r EXCEPT !.b[c] = bucket[1], !.forced = TRUE]
      ELSE r
ForcePass(b) ==
  FoldLeft(ForceAt, [b |-> b, alive |-> TRUE, forced |-> FALSE],
           [i \in 1 .. Parts |-> CellAt(i - 1)])
\* Each pass that forces a piece fills a cell: Parts + 1 passes reach the end.
possibility_all_has_a_next(b) ==
  FoldLeft(LAMBDA r, i : IF r.alive /\ r.forced THEN ForcePass(r.b) ELSE r,
           [b |-> b, alive |-> TRUE, forced |-> TRUE], [i \in 1 .. Parts + 1 |-> i])

NoCell == <<-1, -1>>
\* Free entries in a row of one piece count once; the sort may separate them.
CountedEntries(bucket, used) ==
  LET free == {i \in DOMAIN bucket : bucket[i][1] \notin used}
  IN  {i \in free : ~ \E j \in free : /\ j < i /\ bucket[j][1] = bucket[i][1]
                                     /\ ~ \E m \in free : j < m /\ m < i}
light_free_count(key, used) == Cardinality(CountedEntries(buildBigArray[key], used))
light_choose_cell(b) ==
  LET key(c)  == what_search_in_grid_to_key(b, c)
      bound   == {c \in EmptyCells(b) : key(c) # Unconstrained}
      count(c) == light_free_count(key(c), Used(b))
      fewest  == {c \in bound : \A d \in bound : count(c) <= count(d)}
  IN  CASE \E c \in bound : count(c) = 0 -> NoCell
        [] bound = {} -> IF EmptyCells(b) = {} THEN NoCell ELSE FirstCell(EmptyCells(b))
        [] OTHER -> FirstCell(fewest)

\* singles: the cells that one piece only can fill, with that piece.
LightSingles(b) ==
  {s \in EmptyCells(b) \X (1 .. Parts) :
     LET key == what_search_in_grid_to_key(b, s[1])
     IN  /\ key # Unconstrained /\ light_free_count(key, Used(b)) = 1
         /\ \E p \in FreePieces(key, Used(b)) : p[1] = s[2]}
light_child_is_dead(child, c, id, singles) ==
  \/ \E s \in singles : s[2] = id /\ s[1] # c
  \/ \E k \in NeighbourSides(c) :
       LET d == Neighbour(c, k)
       IN  /\ child[d] = Empty
           /\ light_free_count(what_search_in_grid_to_key(child, d), Used(child)) = 0

\* The children of a board on the chosen cell; prune says whether the dead
\* ones are dropped (search_possiblity_light_pruned).
ChildrenAt(b, c, prune) ==
  {[b EXCEPT ![c] = p] :
     p \in {q \in FreePieces(what_search_in_grid_to_key(b, c), Used(b)) :
             prune => ~light_child_is_dead([b EXCEPT ![c] = q], c, q[1], LightSingles(b))}}
search_possiblity_light(b, prune) ==
  LET c == light_choose_cell(b) IN IF c = NoCell THEN {} ELSE ChildrenAt(b, c, prune)

\* The placed pieces agree with each other and with the border, once each.
check_possibility(b) ==
  /\ Cardinality(Used(b)) >= possibility_placed_count(b)
  /\ \A c \in Cells \ EmptyCells(b) : \A k \in Sides :
       what_search_in_grid_to_key(b, c)[k] \in {AllFace, Side(b[c], k)}

\* b is a strict prefix of d.
is_origin_of(b, d) ==
  /\ possibility_placed_count(b) < possibility_placed_count(d)
  /\ \A c \in Cells : b[c] \in {Empty, d[c]}
=============================================================================
