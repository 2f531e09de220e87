---------------------------- MODULE SearchProofs ----------------------------
(***************************************************************************)
(* What the MRV engine of the search guarantees, for every puzzle, root    *)
(* board and settings. The inductive invariant is EngineInv: the board is  *)
(* a good one that keeps the pieces of its root, what is kept beside it is *)
(* what it implies, and each level of the stack holds the candidates of    *)
(* its cell as the board without the pieces above it asked for them.       *)
(*   EngineExact         the incremental state is exact                    *)
(*   SearchIsExploration the engine implements Exploration                 *)
(*   JudgementsHold      no judgement on a board costs a solution          *)
(*   WorkIsInOnePlace    the packets share no work                         *)
(***************************************************************************)
EXTENDS Search, FiniteSetTheorems, FunctionTheorems, SequenceTheorems,
        WellFoundedInduction, TLAPS

-----------------------------------------------------------------------------
(* Numbers. *)

\* Every non-empty set of numbers has a least one.
LEMMA Least ==
  ASSUME NEW S \in SUBSET Nat, S # {}
  PROVE  \E x \in S : \A y \in S : x <= y
<1> DEFINE R == OpToRel(<, Nat)
<1>1. \A x, y \in Nat : x < y => <<x, y>> \in R BY DEF OpToRel
<1>2. IsWellFoundedOn(R, Nat) BY NatLessThanWellFounded
<1> HIDE DEF R
<1>3. PICK x \in S : \A y \in S : ~ (<<y, x>> \in R) BY <1>2, WFMin
<1>4. \A y \in S : ~ (y < x) BY <1>1, <1>3, Zenon
<1> QED BY <1>4

\* A power of two is a positive number: it counts the subsets of a set.
LEMMA PowerOfTwo ==
  ASSUME NEW n \in Nat
  PROVE  2 ^ n \in Nat \ {0}
<1>1. IsFiniteSet(1 .. n) /\ Cardinality(1 .. n) = n BY FS_Interval
<1>2. IsFiniteSet(SUBSET (1 .. n)) /\ Cardinality(SUBSET (1 .. n)) = 2 ^ n BY <1>1, FS_SUBSET
<1>3. 2 ^ n \in Nat BY <1>2, FS_CardinalityType
<1>4. SUBSET (1 .. n) # {} OBVIOUS
<1>5. 2 ^ n # 0 BY <1>2, <1>4, FS_EmptySet
<1> QED BY <1>3, <1>5

\* A number in base n is known by its two figures.
LEMMA DivMod ==
  ASSUME NEW n \in Nat \ {0}, NEW x \in Nat, NEW y \in 0 .. n - 1
  PROVE  (x * n + y) \div n = x /\ (x * n + y) % n = y
OBVIOUS

-----------------------------------------------------------------------------
(* The board and its geometry. *)

\* The board has as many cells as there are pieces, at least one.
LEMMA CellsFinite == IsFiniteSet(Cells) /\ Cardinality(Cells) = Parts /\ Parts \in Nat \ {0}
<1>1. IsFiniteSet(0 .. Size - 1) /\ Cardinality(0 .. Size - 1) = Size
  BY PuzzleAssumption, FS_Interval
<1>2. Parts \in Nat \ {0} BY PuzzleAssumption DEF Parts
<1> DEFINE I == 0 .. Size - 1
<1>3. IsFiniteSet(I \X I) /\ Cardinality(I \X I) = Cardinality(I) * Cardinality(I)
  <2>1. IsFiniteSet(I) BY <1>1
  <2> HIDE DEF I
  <2> QED BY <2>1, FS_Product
<1> QED BY <1>1, <1>2, <1>3 DEF Cells, Parts

\* The neighbours of a cell, side by side.
LEMMA NeighbourOf ==
  ASSUME NEW x \in Int, NEW y \in Int
  PROVE  /\ Neighbour(<<x, y>>, 1) = <<x, y - 1>> /\ Neighbour(<<x, y>>, 2) = <<x + 1, y>>
         /\ Neighbour(<<x, y>>, 3) = <<x, y + 1>> /\ Neighbour(<<x, y>>, 4) = <<x - 1, y>>
BY DEF Neighbour

\* The neighbour across a side is another cell, whose opposite side leads back.
LEMMA NeighbourBack ==
  ASSUME NEW c \in Cells, NEW k \in NeighbourSides(c)
  PROVE  /\ Neighbour(c, k) \in Cells /\ Neighbour(c, k) # c
         /\ Opposite(k) \in NeighbourSides(Neighbour(c, k))
         /\ Neighbour(Neighbour(c, k), Opposite(k)) = c
         /\ Opposite(Opposite(k)) = k
<1>1. k \in Sides /\ Neighbour(c, k) \in Cells BY DEF NeighbourSides
<1>2. PICK x \in 0 .. Size - 1, y \in 0 .. Size - 1 : c = <<x, y>> BY DEF Cells
<1>3. Opposite(1) = 3 /\ Opposite(2) = 4 /\ Opposite(3) = 1 /\ Opposite(4) = 2 BY DEF Opposite
<1>8. x \in Int /\ y \in Int BY PuzzleAssumption
<1>4. CASE k = 1
  <2>1. Neighbour(c, k) = <<x, y - 1>> BY <1>2, <1>8, <1>4, NeighbourOf
  <2>2. Neighbour(<<x, y - 1>>, 3) = <<x, y>>
    <3>1. x \in Int /\ y - 1 \in Int BY <1>8
    <3>2. y - 1 + 1 = y BY <1>8
    <3> QED BY <3>1, <3>2, NeighbourOf
  <2>3. <<x, y - 1>> # <<x, y>> BY <1>8
  <2> QED BY <1>1, <1>2, <1>3, <1>4, <2>1, <2>2, <2>3 DEF NeighbourSides, Sides
<1>5. CASE k = 2
  <2>1. Neighbour(c, k) = <<x + 1, y>> BY <1>2, <1>8, <1>5, NeighbourOf
  <2>2. Neighbour(<<x + 1, y>>, 4) = <<x, y>>
    <3>1. x + 1 \in Int /\ y \in Int BY <1>8
    <3>2. x + 1 - 1 = x BY <1>8
    <3> QED BY <3>1, <3>2, NeighbourOf
  <2>3. <<x + 1, y>> # <<x, y>> BY <1>8
  <2> QED BY <1>1, <1>2, <1>3, <1>5, <2>1, <2>2, <2>3 DEF NeighbourSides, Sides
<1>6. CASE k = 3
  <2>1. Neighbour(c, k) = <<x, y + 1>> BY <1>2, <1>8, <1>6, NeighbourOf
  <2>2. Neighbour(<<x, y + 1>>, 1) = <<x, y>>
    <3>1. x \in Int /\ y + 1 \in Int BY <1>8
    <3>2. y + 1 - 1 = y BY <1>8
    <3> QED BY <3>1, <3>2, NeighbourOf
  <2>3. <<x, y + 1>> # <<x, y>> BY <1>8
  <2> QED BY <1>1, <1>2, <1>3, <1>6, <2>1, <2>2, <2>3 DEF NeighbourSides, Sides
<1>7. CASE k = 4
  <2>1. Neighbour(c, k) = <<x - 1, y>> BY <1>2, <1>8, <1>7, NeighbourOf
  <2>2. Neighbour(<<x - 1, y>>, 2) = <<x, y>>
    <3>1. x - 1 \in Int /\ y \in Int BY <1>8
    <3>2. x - 1 + 1 = x BY <1>8
    <3> QED BY <3>1, <3>2, NeighbourOf
  <2>3. <<x - 1, y>> # <<x, y>> BY <1>8
  <2> QED BY <1>1, <1>2, <1>3, <1>7, <2>1, <2>2, <2>3 DEF NeighbourSides, Sides
<1> QED BY <1>1, <1>4, <1>5, <1>6, <1>7 DEF Sides

\* Two sides of a cell lead to different cells.
LEMMA NeighbourOnce ==
  ASSUME NEW c \in Cells, NEW k \in Sides, NEW j \in Sides, Neighbour(c, k) = Neighbour(c, j)
  PROVE  k = j
<1>1. PICK x \in 0 .. Size - 1, y \in 0 .. Size - 1 : c = <<x, y>> BY DEF Cells
<1>2. x \in Int /\ y \in Int BY PuzzleAssumption
<1>3. Neighbour(c, 1) = <<x, y - 1>> /\ Neighbour(c, 2) = <<x + 1, y>>
      /\ Neighbour(c, 3) = <<x, y + 1>> /\ Neighbour(c, 4) = <<x - 1, y>>
  BY <1>1 DEF Neighbour
<1> QED BY <1>2, <1>3 DEF Sides

\* Neighbours are so for each other, and Toward finds the side between them.
LEMMA TowardIs ==
  ASSUME NEW c \in Cells, NEW k \in NeighbourSides(c)
  PROVE  /\ Neighbour(c, k) \in Neighbours(c) /\ c \in Neighbours(Neighbour(c, k))
         /\ Toward(c, Neighbour(c, k)) = k
         /\ Toward(Neighbour(c, k), c) = Opposite(k)
<1>1. \A d \in Cells : \A j \in NeighbourSides(d) : Toward(d, Neighbour(d, j)) = j
  <2> TAKE d \in Cells
  <2> TAKE j \in NeighbourSides(d)
  <2>1. \A i \in NeighbourSides(d) : Neighbour(d, i) = Neighbour(d, j) => i = j
    BY NeighbourOnce DEF NeighbourSides
  <2> QED BY <2>1 DEF Toward
<1> DEFINE d == Neighbour(c, k)
<1>2. d \in Cells /\ Opposite(k) \in NeighbourSides(d) /\ Neighbour(d, Opposite(k)) = c
  BY NeighbourBack
<1>3. d \in Neighbours(c) /\ c \in Neighbours(d)
  BY <1>2 DEF Neighbours
<1>4. Toward(c, d) = k BY <1>1
<1> HIDE DEF d
<1>5. Toward(d, c) = Opposite(k) BY <1>1, <1>2
<1> QED BY <1>3, <1>4, <1>5 DEF d

\* A neighbour is across one of the sides where the board goes on.
LEMMA NeighbourIs ==
  ASSUME NEW c \in Cells, NEW d \in Neighbours(c)
  PROVE  \E k \in NeighbourSides(c) : d = Neighbour(c, k)
BY DEF Neighbours

-----------------------------------------------------------------------------
(* Pieces and compartments. *)

Board == [Cells -> Rotated \cup {Empty}]

\* A rotated piece has a number, a rotation and faces; the grey face and the
\* free one are not confused.
LEMMA PieceType ==
  /\ Empty \notin Rotated
  /\ \A p \in Rotated : p[1] \in 1 .. Parts /\ p[2] \in 0 .. 3
  /\ \A p \in Rotated, k \in Sides : Side(p, k) \in 0 .. MaxFace
  /\ \A k \in Sides : Opposite(k) \in Sides
  /\ AllFace \notin 0 .. MaxFace
<1>1. Empty \notin Rotated /\ \A p \in Rotated : p[1] \in 1 .. Parts /\ p[2] \in 0 .. 3
  BY DEF Empty, Rotated
<1>2. ASSUME NEW p \in Rotated, NEW k \in Sides PROVE Side(p, k) \in 0 .. MaxFace
  <2>1. Faces[p[1]] \in [1 .. 4 -> 0 .. MaxFace]
    BY <1>1, PuzzleAssumption DEF Parts
  <2>2. ((k - 1 - p[2]) % 4) + 1 \in 1 .. 4 BY <1>1 DEF Sides
  <2> QED BY <2>1, <2>2 DEF Side, rotate_all_parts, rotatePart
<1>3. \A k \in Sides : Opposite(k) \in Sides BY DEF Opposite, Sides
<1>4. AllFace \notin 0 .. MaxFace BY PuzzleAssumption DEF AllFace
<1> QED BY <1>1, <1>2, <1>3, <1>4

\* The constraints read on a board are a key of the index of the rotated pieces
\* (what_search_in_grid_to_key).
LEMMA KeyType ==
  ASSUME NEW b \in Board, NEW c \in Cells
  PROVE  what_search_in_grid_to_key(b, c) \in Keys
<1>1. ASSUME NEW k \in NeighbourSides(c), b[Neighbour(c, k)] # Empty
      PROVE Side(b[Neighbour(c, k)], Opposite(k)) \in 0 .. AllFace
  <2>1. Neighbour(c, k) \in Cells /\ k \in Sides BY DEF NeighbourSides
  <2>2. b[Neighbour(c, k)] \in Rotated BY <1>1, <2>1 DEF Board
  <2> QED BY <2>1, <2>2, PieceType, PuzzleAssumption DEF AllFace
<1>2. 0 \in 0 .. AllFace /\ AllFace \in 0 .. AllFace BY PuzzleAssumption DEF AllFace
<1> QED BY <1>1, <1>2 DEF what_search_in_grid_to_key, Keys

\* An interval of numbers is finite and has its length.
LEMMA Interval ==
  ASSUME NEW m \in Int, NEW n \in Int
  PROVE  IsFiniteSet(m .. n) /\ (n >= m => Cardinality(m .. n) = n - m + 1)
BY FS_Interval

\* There are four numbers from 1 to 4: the four sides.
LEMMA OneToFour == IsFiniteSet(1 .. 4) /\ Cardinality(1 .. 4) = 4
<1>1. 1 \in Int /\ 4 \in Int /\ 4 >= 1 /\ 4 - 1 + 1 = 4 OBVIOUS
<1>2. IsFiniteSet(1 .. 4) /\ Cardinality(1 .. 4) = 4 - 1 + 1 BY Interval, <1>1, Zenon
<1> QED BY <1>1, <1>2

\* There are finitely many rotated pieces.
LEMMA RotatedFinite == IsFiniteSet(Rotated)
<1>1. 1 \in Int /\ 0 \in Int /\ 3 \in Int /\ Parts \in Int BY CellsFinite
<1>2. IsFiniteSet(1 .. Parts) BY <1>1, Interval, Zenon
<1>3. IsFiniteSet(0 .. 3) BY <1>1, Interval, Zenon
<1> QED BY <1>2, <1>3, FS_Product DEF Rotated

\* What one step of placing a piece, or lifting it, changes around it.
LEMMA PlaceKeys ==
  ASSUME NEW b \in Board, NEW c \in Cells, NEW p \in Rotated, b[c] = Empty
  PROVE  LET d == [b EXCEPT ![c] = p]
         IN  /\ bt_propagate_place(bt_init_constraints(b), c, p) = bt_init_constraints(d)
             /\ bt_propagate_undo(bt_init_constraints(d), c) = bt_init_constraints(b)
<1> DEFINE d == [b EXCEPT ![c] = p]
<1>0. d[c] = p /\ p # Empty /\ \A e \in Cells \ {c} : d[e] = b[e] BY PieceType DEF Board
<1> HIDE DEF d
<1>1. ASSUME NEW e \in Cells \ Neighbours(c)
      PROVE what_search_in_grid_to_key(b, e) = what_search_in_grid_to_key(d, e)
  <2>1. \A k \in NeighbourSides(e) : Neighbour(e, k) \in Cells \ {c}
    BY NeighbourBack, TowardIs, <1>1
  <2> QED BY <1>0, <2>1 DEF what_search_in_grid_to_key
<1>2. ASSUME NEW e \in Neighbours(c)
      PROVE /\ e \in Cells
            /\ [what_search_in_grid_to_key(b, e) EXCEPT ![Toward(e, c)] = Side(p, Toward(c, e))]
                 = what_search_in_grid_to_key(d, e)
            /\ [what_search_in_grid_to_key(d, e) EXCEPT ![Toward(e, c)] = AllFace]
                 = what_search_in_grid_to_key(b, e)
  <2>1. PICK k \in NeighbourSides(c) : e = Neighbour(c, k) BY <1>2, NeighbourIs
  <2>2. Toward(c, e) = k /\ Toward(e, c) = Opposite(k) BY <2>1, TowardIs
  <2> DEFINE j == Opposite(k)
  <2>3. e \in Cells /\ j \in NeighbourSides(e) /\ Neighbour(e, j) = c /\ Opposite(j) = k
    BY <2>1, NeighbourBack
  <2> HIDE DEF j
  <2>4. \A i \in NeighbourSides(e) : i # j => Neighbour(e, i) \in Cells \ {c}
    BY <2>3, NeighbourOnce DEF NeighbourSides
  <2>5. j \in Sides BY <2>3 DEF NeighbourSides
  <2> QED BY <1>0, <2>2, <2>3, <2>4, <2>5 DEF what_search_in_grid_to_key, j
<1>3. bt_propagate_place(bt_init_constraints(b), c, p) = bt_init_constraints(d)
  BY <1>1, <1>2 DEF bt_propagate_place, bt_init_constraints
<1>4. bt_propagate_undo(bt_init_constraints(d), c) = bt_init_constraints(b)
  BY <1>1, <1>2 DEF bt_propagate_undo, bt_init_constraints
<1> QED BY <1>3, <1>4 DEF d

\* Refreshing the masks of the cells next to a cell, after a placement or after
\* its undo, gives the masks of the whole board (bt_mask_refresh).
LEMMA RefreshMask ==
  ASSUME NEW b \in Board, NEW c \in Cells, NEW p \in Rotated, b[c] = Empty
  PROVE  LET d == [b EXCEPT ![c] = p]
             kb == bt_init_constraints(b)
             kd == bt_init_constraints(d)
         IN  /\ bt_mask_refresh(bt_mask_init(kb), kd, c) = bt_mask_init(kd)
             /\ bt_mask_refresh(bt_mask_init(kd), kb, c) = bt_mask_init(kb)
<1> DEFINE d == [b EXCEPT ![c] = p]
           kb == bt_init_constraints(b)
           kd == bt_init_constraints(d)
<1>1. \A e \in Cells \ Neighbours(c) : kd[e] = kb[e]
  <2>1. kd = bt_propagate_place(kb, c, p) BY PlaceKeys
  <2> HIDE DEF kd, d, kb
  <2> QED BY <2>1 DEF bt_propagate_place
<1> HIDE DEF kd, kb
<1>2. bt_mask_refresh(bt_mask_init(kb), kd, c) = bt_mask_init(kd)
  BY <1>1 DEF bt_mask_refresh, bt_mask_init
<1>3. bt_mask_refresh(bt_mask_init(kd), kb, c) = bt_mask_init(kb)
  BY <1>1 DEF bt_mask_refresh, bt_mask_init
<1> QED BY <1>2, <1>3 DEF kd, kb, d

\* A cell has at most four constrained sides.
LEMMA NConstrType ==
  ASSUME NEW b, NEW c \in Cells
  PROVE  NConstr(b, c) \in 0 .. 4
<1> DEFINE S == {k \in NeighbourSides(c) : b[Neighbour(c, k)] = Empty}
<1>1. IsFiniteSet(1 .. 4) /\ Cardinality(1 .. 4) = 4 BY OneToFour
<1>2. S \in SUBSET (1 .. 4) BY DEF NeighbourSides, Sides
<1>3. IsFiniteSet(S) /\ Cardinality(S) <= 4 /\ Cardinality(S) \in Nat
  BY <1>1, <1>2, FS_Subset, FS_CardinalityType
<1> QED BY <1>3 DEF NConstr

\* A placement constrains one more side of its neighbours, and of no other cell.
LEMMA PlaceNConstr ==
  ASSUME NEW b \in Board, NEW c \in Cells, NEW p \in Rotated, b[c] = Empty, NEW e \in Cells
  PROVE  NConstr([b EXCEPT ![c] = p], e)
           = IF e \in Neighbours(c) THEN NConstr(b, e) + 1 ELSE NConstr(b, e)
<1> DEFINE d == [b EXCEPT ![c] = p]
           S(q) == {k \in NeighbourSides(e) : q[Neighbour(e, k)] = Empty}
<1>0. d[c] = p /\ p # Empty /\ \A x \in Cells \ {c} : d[x] = b[x] BY PieceType DEF Board
<1>1. \A k \in NeighbourSides(e) : Neighbour(e, k) \in Cells BY DEF NeighbourSides
<1> HIDE DEF d
<1>2. CASE e \in Neighbours(c)
  <2>1. PICK k \in NeighbourSides(c) : e = Neighbour(c, k) BY <1>2, NeighbourIs
  <2>2. PICK j \in NeighbourSides(e) : Neighbour(e, j) = c
    BY <2>1, NeighbourBack
  <2>3. \A i \in NeighbourSides(e) : i # j => Neighbour(e, i) # c
    BY <2>2, NeighbourOnce DEF NeighbourSides
  <2>4. S(d) = S(b) \ {j} /\ j \in S(b) BY <1>0, <1>1, <2>2, <2>3
  <2>5. IsFiniteSet(S(b)) /\ Cardinality(S(b)) \in Nat
    <3>1. IsFiniteSet(1 .. 4) BY OneToFour
    <3>2. S(b) \in SUBSET (1 .. 4) BY DEF NeighbourSides, Sides
    <3> QED BY <3>1, <3>2, FS_Subset, FS_CardinalityType
  <2>6. Cardinality(S(d)) = Cardinality(S(b)) - 1
    <3>1. PICK V : V = S(b) OBVIOUS
    <3>2. IsFiniteSet(V) /\ j \in V BY <2>4, <2>5, <3>1
    <3>3. Cardinality(V \ {j}) = Cardinality(V) - 1 BY <3>2, FS_RemoveElement
    <3> QED BY <2>4, <3>1, <3>3
  <2>7. NConstr(d, e) = 4 - Cardinality(S(d)) /\ NConstr(b, e) = 4 - Cardinality(S(b))
    BY DEF NConstr
  <2> HIDE DEF S
  <2>8. NConstr(d, e) = NConstr(b, e) + 1 BY <2>5, <2>6, <2>7
  <2> QED BY <1>2, <2>8 DEF d
<1>3. CASE e \notin Neighbours(c)
  <2>1. \A k \in NeighbourSides(e) : Neighbour(e, k) # c BY <1>3, NeighbourBack, TowardIs
  <2>2. S(d) = S(b) BY <1>0, <1>1, <2>1
  <2>3. NConstr(d, e) = NConstr(b, e) BY <2>2 DEF NConstr
  <2> QED BY <1>3, <2>3 DEF d
<1> QED BY <1>2, <1>3

-----------------------------------------------------------------------------
(* The compartments are sorted without loss. *)

\* In a finite set under a strict total order, the number of smaller elements
\* is a rank: each rank below the cardinality is that of exactly one element.
LEMMA Ranks ==
  ASSUME NEW S, IsFiniteSet(S), NEW lower \in [S -> SUBSET S],
         \A x \in S : x \notin lower[x],
         \A x, y \in S : x \in lower[y] => lower[x] \subseteq lower[y],
         \A x, y \in S : x # y => x \in lower[y] \/ y \in lower[x]
  PROVE  /\ \A x, y \in S : Cardinality(lower[x]) = Cardinality(lower[y]) => x = y
         /\ \A x \in S : \E i \in 1 .. Cardinality(S) : Cardinality(lower[x]) = i - 1
         /\ \A i \in 1 .. Cardinality(S) : \E x \in S : Cardinality(lower[x]) = i - 1
<1> DEFINE n == Cardinality(S)
           T == 0 .. n - 1
           f == [x \in S |-> Cardinality(lower[x])]
<1>0. n \in Nat BY FS_CardinalityType
<1>1. ASSUME NEW x \in S, NEW y \in S, x \in lower[y]
      PROVE Cardinality(lower[x]) # Cardinality(lower[y])
  <2>1. lower[x] \in SUBSET lower[y] /\ lower[x] # lower[y] BY <1>1
  <2>2. lower[y] \in SUBSET S OBVIOUS
  <2>3. IsFiniteSet(lower[y]) BY <2>2, FS_Subset, Zenon
  <2> QED BY <2>1, <2>3, FS_Subset, Zenon
<1>2. \A x, y \in S : f[x] = f[y] => x = y BY <1>1
<1>3. ASSUME NEW x \in S PROVE Cardinality(lower[x]) \in T
  <2>1. lower[x] \in SUBSET (S \ {x}) OBVIOUS
  <2>2. IsFiniteSet(S \ {x}) /\ Cardinality(S \ {x}) = n - 1 BY FS_RemoveElement
  <2>3. IsFiniteSet(lower[x]) /\ Cardinality(lower[x]) <= Cardinality(S \ {x})
    BY <2>1, <2>2, FS_Subset, Zenon
  <2>4. Cardinality(lower[x]) \in Nat BY <2>3, FS_CardinalityType, Zenon
  <2> QED BY <1>0, <2>2, <2>3, <2>4
<1>5. IsFiniteSet(T) /\ Cardinality(T) = n
  <2>1. 0 \in Int /\ n - 1 \in Int BY <1>0
  <2>2. IsFiniteSet(T) /\ Cardinality(T) = IF 0 > n - 1 THEN 0 ELSE (n - 1) - 0 + 1
    BY <2>1, FS_Interval, Zenon
  <2> QED BY <2>2, <1>0
<1>4. f \in [S -> T] BY <1>3
<1>10. \A x \in S : f[x] = Cardinality(lower[x]) OBVIOUS
<1> HIDE DEF f
<1>6. f \in Surjection(S, T)
  <2> HIDE DEF T
  <2>1. f \in Injection(S, T) BY <1>2, <1>4, Fun_IsInj
  <2> QED BY <2>1, <1>5, FS_Injection, Zenon
<1>7. \A t \in T : \E x \in S : f[x] = t
  <2> HIDE DEF T
  <2> QED BY <1>6 DEF Surjection
<1>8. ASSUME NEW i \in 1 .. n PROVE \E x \in S : Cardinality(lower[x]) = i - 1
  <2>1. i - 1 \in T BY <1>0
  <2> HIDE DEF T
  <2> QED BY <2>1, <1>7, <1>10
<1>9. ASSUME NEW x \in S PROVE \E i \in 1 .. n : Cardinality(lower[x]) = i - 1
  <2> DEFINE r == Cardinality(lower[x])
  <2>0. r \in T BY <1>3
  <2> HIDE DEF r
  <2>1. r + 1 \in 1 .. n /\ r = (r + 1) - 1 BY <1>0, <2>0
  <2> QED BY <2>1 DEF r
<1> QED BY <1>2, <1>8, <1>9, <1>10

\* The exposed rarity that orders a compartment is a number.
LEMMA ScoreType ==
  ASSUME NEW p \in Rotated, NEW key \in Keys
  PROVE  arena_exposed_score(p, key) \in Int
<1>1. ASSUME NEW f \in 0 .. MaxFace PROVE compute_face_frequency[f] \in Int
  <2> DEFINE S == {q \in Rotated \X Sides : Side(q[1], q[2]) = f}
  <2>1. IsFiniteSet(Rotated \X Sides) BY RotatedFinite, OneToFour, FS_Product DEF Sides
  <2>2. IsFiniteSet(S) BY <2>1, FS_Subset
  <2>3. Cardinality(S) \in Nat BY <2>2, FS_CardinalityType
  <2> QED BY <2>3 DEF compute_face_frequency
<1>2. \A k \in Sides : compute_face_frequency[Side(p, k)] \in Int BY <1>1, PieceType
<1>3. 1 \in Sides /\ 2 \in Sides /\ 3 \in Sides /\ 4 \in Sides BY DEF Sides
<1> QED BY <1>2, <1>3 DEF arena_exposed_score

\* The order of a compartment is strict and total: equal scores are told apart
\* by the place in the table.
LEMMA RarerOrder ==
  ASSUME NEW key \in Keys
  PROVE  /\ \A p \in Rotated : ~ RarerFirst(key, p, p)
         /\ \A p, q, r \in Rotated : RarerFirst(key, p, q) /\ RarerFirst(key, q, r) => RarerFirst(key, p, r)
         /\ \A p, q \in Rotated : p # q => RarerFirst(key, p, q) \/ RarerFirst(key, q, p)
<1> DEFINE at(r) == r[1] + Parts * r[2]
<1>1. ASSUME NEW p \in Rotated PROVE at(p) \in Int
  <2>1. p[1] \in Int /\ p[2] \in Int /\ Parts \in Int BY PieceType, CellsFinite
  <2> QED BY <2>1
<1>2. ASSUME NEW p \in Rotated, NEW q \in Rotated, at(p) = at(q) PROVE p = q
  <2>1. p[1] \in 1 .. Parts /\ q[1] \in 1 .. Parts /\ p[2] \in 0 .. 3 /\ q[2] \in 0 .. 3
        /\ Parts \in Nat \ {0}
    BY PieceType, CellsFinite
  <2>2. p[1] - 1 \in 0 .. Parts - 1 /\ q[1] - 1 \in 0 .. Parts - 1 BY <2>1
  <2>3. p[2] * Parts + (p[1] - 1) = q[2] * Parts + (q[1] - 1) BY <1>2, <2>1
  <2>4. p[2] = q[2] /\ p[1] - 1 = q[1] - 1
    <3> DEFINE v == p[1] - 1
               w == q[1] - 1
    <3>0. p[2] \in Nat /\ q[2] \in Nat /\ v \in 0 .. Parts - 1 /\ w \in 0 .. Parts - 1 BY <2>1, <2>2
    <3>1. p[2] * Parts + v = q[2] * Parts + w BY <2>3
    <3> HIDE DEF v, w
    <3>2. (p[2] * Parts + v) \div Parts = p[2] /\ (p[2] * Parts + v) % Parts = v
      BY <2>1, <3>0, DivMod, Zenon
    <3>3. (q[2] * Parts + w) \div Parts = q[2] /\ (q[2] * Parts + w) % Parts = w
      BY <2>1, <3>0, DivMod, Zenon
    <3>4. p[2] = q[2] /\ v = w BY <3>1, <3>2, <3>3, Zenon
    <3> QED BY <3>4 DEF v, w
  <2>5. p[1] = q[1] BY <2>1, <2>4
  <2>6. p = <<p[1], p[2]>> /\ q = <<q[1], q[2]>> BY DEF Rotated
  <2> QED BY <2>4, <2>5, <2>6
<1> HIDE DEF at
<1>3. \A p, q \in Rotated : RarerFirst(key, p, q)
        <=> \/ arena_exposed_score(p, key) < arena_exposed_score(q, key)
            \/ arena_exposed_score(p, key) = arena_exposed_score(q, key) /\ at(p) < at(q)
  BY DEF RarerFirst, at
<1>4. \A p \in Rotated : arena_exposed_score(p, key) \in Int BY ScoreType
<1> QED BY <1>1, <1>2, <1>3, <1>4

\* Every compartment of the table is a sequence without repetition of exactly
\* the pieces that suit the key.
LEMMA BucketIs ==
  ASSUME NEW key \in Keys
  PROVE  /\ Compartment(key) \subseteq Rotated
         /\ buildBigArray[key] \in Seq(Rotated)
         /\ Range(buildBigArray[key]) = Compartment(key)
         /\ \A p \in Compartment(key) : \E s \in 1 .. Len(buildBigArray[key]) : buildBigArray[key][s] = p
         /\ \A s \in 1 .. Len(buildBigArray[key]) : buildBigArray[key][s] \in Compartment(key)
         /\ \A s, t \in 1 .. Len(buildBigArray[key]) : buildBigArray[key][s] = buildBigArray[key][t] => s = t
<1> DEFINE C == Compartment(key)
           n == Cardinality(C)
           rank(p) == Cardinality({q \in C : RarerFirst(key, q, p)})
           B == buildBigArray[key]
<1>1. C \subseteq Rotated BY DEF Compartment, search_face
<1>2. IsFiniteSet(C) BY <1>1, RotatedFinite, FS_Subset
<1>3. n \in Nat BY <1>2, FS_CardinalityType
<1>4. B = [i \in 1 .. n |-> CHOOSE p \in C : rank(p) = i - 1]
  BY DEF buildBigArray, sort_compartment_by_exposed_rarity
<1> HIDE DEF C
<1>5. /\ \A x, y \in C : rank(x) = rank(y) => x = y
      /\ \A x \in C : \E i \in 1 .. n : rank(x) = i - 1
      /\ \A i \in 1 .. n : \E x \in C : rank(x) = i - 1
  <2> DEFINE lower == [x \in C |-> {q \in C : RarerFirst(key, q, x)}]
  <2>1. lower \in [C -> SUBSET C] /\ \A x \in C : rank(x) = Cardinality(lower[x]) OBVIOUS
  <2>2. \A x, y \in C : x \in lower[y] <=> RarerFirst(key, x, y) OBVIOUS
  <2> HIDE DEF lower, n, rank
  <2>3. /\ \A x \in C : x \notin lower[x]
        /\ \A x, y \in C : x \in lower[y] => lower[x] \subseteq lower[y]
        /\ \A x, y \in C : x # y => x \in lower[y] \/ y \in lower[x]
    BY <1>1, <2>1, <2>2, RarerOrder
  <2>4. /\ \A x, y \in C : Cardinality(lower[x]) = Cardinality(lower[y]) => x = y
        /\ \A x \in C : \E i \in 1 .. n : Cardinality(lower[x]) = i - 1
        /\ \A i \in 1 .. n : \E x \in C : Cardinality(lower[x]) = i - 1
    BY <1>2, <2>1, <2>3, Ranks DEF n
  <2> QED BY <2>1, <2>4
<1> HIDE DEF n, rank
<1>6. \A i \in 1 .. n : B[i] \in C /\ rank(B[i]) = i - 1 BY <1>4, <1>5
<1> HIDE DEF B
<1>7. B \in Seq(Rotated) /\ Len(B) = n /\ DOMAIN B = 1 .. n
  <2>1. DOMAIN B = 1 .. n BY <1>4
  <2>2. B \in [1 .. n -> Rotated] BY <1>1, <1>4, <1>6
  <2> QED BY <1>3, <2>1, <2>2
<1>8. \A p \in C : \E i \in 1 .. n : B[i] = p BY <1>5, <1>6
<1>9. \A i, j \in 1 .. n : B[i] = B[j] => i = j
  <2> TAKE i, j \in 1 .. n
  <2> HAVE B[i] = B[j]
  <2>1. i - 1 = j - 1 BY <1>6
  <2> QED BY <2>1, <1>3
<1>10. Range(B) = C BY <1>6, <1>7, <1>8 DEF Range
<1> QED BY <1>1, <1>6, <1>7, <1>8, <1>9, <1>10 DEF B, C

-----------------------------------------------------------------------------
(* The choice of the cell. *)

\* The positions number the cells from 0, within the byte of a position.
LEMMA PosIs ==
  /\ \A c \in Cells : Pos(c) \in 0 .. 255 /\ Pos(c) < Parts /\ CellAt(Pos(c)) = c
  /\ \A c, d \in Cells : Pos(c) = Pos(d) => c = d
  /\ \A k \in 0 .. Parts - 1 : CellAt(k) \in Cells /\ Pos(CellAt(k)) = k
<1>0. Size \in Nat \ {0} /\ Size * Size <= 256 /\ Parts = Size * Size BY PuzzleAssumption DEF Parts
<1>1. ASSUME NEW c \in Cells PROVE Pos(c) \in 0 .. 255 /\ Pos(c) < Parts /\ CellAt(Pos(c)) = c
  <2>1. PICK x \in 0 .. Size - 1, y \in 0 .. Size - 1 : c = <<x, y>> BY DEF Cells
  <2>3. x \in Nat /\ y \in 0 .. Size - 1 BY <1>0
  <2>4. (x * Size + y) \div Size = x /\ (x * Size + y) % Size = y BY <1>0, <2>3, DivMod, Zenon
  <2>5. x * Size + y \in Nat BY <1>0, <2>3
  <2>6. x * Size + y < Size * Size
    <3>1. x * Size <= (Size - 1) * Size BY <1>0
    <3>2. (Size - 1) * Size = Size * Size - Size BY <1>0
    <3> QED BY <1>0, <2>3, <3>1, <3>2
  <2>7. Pos(c) = x * Size + y BY <2>1 DEF Pos
  <2>8. CellAt(Pos(c)) = c BY <2>1, <2>4, <2>7 DEF CellAt
  <2> DEFINE m == x * Size + y
             q == Size * Size
  <2>9. m \in Nat /\ m < q /\ q <= 256 /\ q \in Nat BY <1>0, <2>5, <2>6
  <2> HIDE DEF m, q
  <2>10. m \in 0 .. 255 BY <2>9
  <2> QED BY <1>0, <2>7, <2>8, <2>9, <2>10 DEF m, q
<1>2. ASSUME NEW k \in 0 .. Parts - 1 PROVE CellAt(k) \in Cells /\ Pos(CellAt(k)) = k
  <2> DEFINE x == k \div Size
             y == k % Size
  <2>1. k \in Nat /\ k < Size * Size BY <1>0
  <2>2. x \in Nat /\ y \in 0 .. Size - 1 /\ k = x * Size + y BY <1>0, <2>1
  <2>3. x < Size
    <3> SUFFICES ASSUME x >= Size PROVE FALSE BY <1>0, <2>2
    <3>1. x * Size >= Size * Size BY <1>0, <2>2
    <3> QED BY <1>0, <2>1, <2>2, <3>1
  <2>4. x \in 0 .. Size - 1 BY <1>0, <2>2, <2>3
  <2>5. CellAt(k) = <<x, y>> BY DEF CellAt
  <2> HIDE DEF x, y
  <2> QED BY <2>2, <2>4, <2>5 DEF Cells, Pos
<1> QED BY <1>1, <1>2

\* The first cell of a set is in it and has the least position.
LEMMA FirstCellIs ==
  ASSUME NEW S \in SUBSET Cells, S # {}
  PROVE  /\ FirstCell(S) \in S
         /\ \A d \in S : Pos(FirstCell(S)) <= Pos(d)
<1>1. {Pos(c) : c \in S} \in SUBSET Nat /\ {Pos(c) : c \in S} # {} BY PosIs
<1>2. PICK x \in {Pos(c) : c \in S} : \A y \in {Pos(c) : c \in S} : x <= y BY <1>1, Least
<1>3. PICK c \in S : Pos(c) = x BY <1>2
<1>4. \E e \in S : \A d \in S : Pos(e) <= Pos(d) BY <1>2, <1>3
<1> QED BY <1>4 DEF FirstCell

\* The MRV score is a number; it is 0 exactly when no free piece fits the cell.
LEMMA ScoreIs ==
  ASSUME NEW c \in Cells, front.weight \in [Cells -> 0 .. WeightMax - 1],
         cell_mask \in [Cells -> SUBSET (1 .. Parts)]
  PROVE  /\ mrv_free_candidates(c) \in Nat /\ MrvScore(c) \in Nat
         /\ MrvScore(c) = 0 <=> mrv_free_candidates(c) = 0
         /\ mrv_free_candidates(c) = 0 <=> cell_mask[c] \subseteq used
<1>1. \A n \in Nat : Log2(n) \in Nat
  <2> TAKE n \in Nat
  <2>1. 1 \in Int /\ n \in Int OBVIOUS
  <2>2. IsFiniteSet(1 .. n) BY <2>1, Interval, Zenon
  <2> DEFINE S == {k \in 1 .. n : 2 ^ k <= n}
  <2>3. S \in SUBSET (1 .. n) OBVIOUS
  <2> HIDE DEF S
  <2>4. Cardinality(S) \in Nat BY <2>2, <2>3, FS_Subset, FS_CardinalityType
  <2> QED BY <2>4 DEF Log2, S
<1>2. mrv_wdeg_shl(front.weight[c]) \in Nat
  <2>1. front.weight[c] + 1 \in Nat BY SearchAssumption
  <2>2. Log2(front.weight[c] + 1) \in Nat BY <1>1, <2>1
  <2> QED BY <2>2, SearchAssumption DEF mrv_wdeg_shl
<1>3. 2 ^ mrv_wdeg_shl(front.weight[c]) \in Nat \ {0} BY <1>2, PowerOfTwo
<1>4. IsFiniteSet(cell_mask[c] \ used)
  <2>1. 1 \in Int /\ Parts \in Int BY CellsFinite
  <2>2. IsFiniteSet(1 .. Parts) BY <2>1, Interval, Zenon
  <2>3. cell_mask[c] \ used \in SUBSET (1 .. Parts) OBVIOUS
  <2> QED BY <2>2, <2>3, FS_Subset, Zenon
<1>5. mrv_free_candidates(c) \in Nat BY <1>4, FS_CardinalityType DEF mrv_free_candidates
<1>6. mrv_free_candidates(c) = 0 <=> cell_mask[c] \ used = {} BY <1>4, FS_EmptySet DEF mrv_free_candidates
<1> DEFINE m == mrv_free_candidates(c)
           t == 2 ^ mrv_wdeg_shl(front.weight[c])
<1>7. MrvScore(c) = m * t BY DEF MrvScore
<1>8. m \in Nat /\ t \in Nat /\ t >= 1 BY <1>3, <1>5
<1> HIDE DEF m, t
<1>9. m * t \in Nat /\ (m * t = 0 <=> m = 0) BY <1>8
<1> QED BY <1>5, <1>6, <1>7, <1>9 DEF m

\* The packed key orders the cells as score, constraints and position do.
LEMMA FastChoice ==
  ASSUME front.empty \subseteq Cells,
         front.nconstr \in [Cells -> 0 .. 4],
         front.weight \in [Cells -> 0 .. WeightMax - 1],
         cell_mask \in [Cells -> SUBSET (1 .. Parts)]
  PROVE  /\ mrv_choose_cell_fast = mrv_choose_cell
         /\ mrv_choose_cell # NoCell => mrv_choose_cell \in front.empty
         /\ mrv_choose_cell = NoCell => front.empty = {} \/ \E c \in Frontier : cell_mask[c] \subseteq used
<1> DEFINE key(c) == MrvScore(c) * 8 + (7 - front.nconstr[c])
           packed(c) == MrvScore(c) * 2 ^ 11 + bt_nc_key(c)
           least == {c \in Frontier : \A d \in Frontier : key(c) <= key(d)}
<1>1. Frontier \subseteq Cells /\ Frontier \subseteq front.empty BY DEF Frontier
<1>2. ASSUME NEW c \in Cells
      PROVE /\ MrvScore(c) \in Nat /\ front.nconstr[c] \in 0 .. 4 /\ Pos(c) \in 0 .. 255
            /\ bt_nc_key(c) = (7 - front.nconstr[c]) * 256 + Pos(c)
            /\ bt_nc_key(c) % 256 = Pos(c)
            /\ packed(c) = key(c) * 256 + Pos(c)
            /\ key(c) \in Nat
            /\ CellAt(bt_nc_key(c) % 256) = c
  <2>1. MrvScore(c) \in Nat /\ front.nconstr[c] \in 0 .. 4 /\ Pos(c) \in 0 .. 255 /\ CellAt(Pos(c)) = c
    BY ScoreIs, PosIs
  <2> DEFINE m == MrvScore(c)
             h == front.nconstr[c]
             p == Pos(c)
  <2>2. m \in Nat /\ h \in 0 .. 4 /\ p \in 0 .. 255 BY <2>1
  <2> HIDE DEF m, h, p
  <2>3. ((7 - h) * 256 + p) % 2 ^ 16 = (7 - h) * 256 + p BY <2>2
  <2>4. ((7 - h) * 256 + p) % 256 = p BY <2>2
  <2>5. m * 2 ^ 11 + ((7 - h) * 256 + p) = (m * 8 + (7 - h)) * 256 + p BY <2>2
  <2>6. m * 8 + (7 - h) \in Nat BY <2>2
  <2>7. bt_nc_key(c) = (7 - h) * 256 + p BY <2>3 DEF bt_nc_key, h, p
  <2> QED BY <2>1, <2>4, <2>5, <2>6, <2>7 DEF m, h, p
<1> HIDE DEF key, packed
<1>3. ASSUME NEW a \in Cells, NEW b \in Cells
      PROVE packed(a) <= packed(b) <=> \/ key(a) < key(b)
                                       \/ key(a) = key(b) /\ Pos(a) <= Pos(b)
  <2>1. /\ key(a) \in Nat /\ key(b) \in Nat /\ Pos(a) \in 0 .. 255 /\ Pos(b) \in 0 .. 255
        /\ packed(a) = key(a) * 256 + Pos(a) /\ packed(b) = key(b) * 256 + Pos(b)
    BY <1>2
  <2> DEFINE x == key(a)
             y == key(b)
             u == Pos(a)
             v == Pos(b)
  <2>2. x \in Nat /\ y \in Nat /\ u \in 0 .. 255 /\ v \in 0 .. 255 BY <2>1
  <2> HIDE DEF x, y, u, v
  <2>3. x * 256 + u <= y * 256 + v <=> x < y \/ (x = y /\ u <= v) BY <2>2
  <2> QED BY <2>1, <2>3 DEF x, y, u, v
<1>4. CASE Frontier = {}
  <2>1. mrv_choose_cell = mrv_finish_choice /\ mrv_choose_cell_fast = mrv_finish_choice
    BY <1>4 DEF mrv_choose_cell, mrv_choose_cell_fast
  <2>2. front.empty \ front.constrained = front.empty BY <1>4 DEF Frontier
  <2>4. front.empty \in SUBSET Cells OBVIOUS
  <2>3. front.empty # {} => FirstCell(front.empty) \in front.empty BY <2>4, FirstCellIs, Zenon
  <2>5. NoCell \notin Cells BY PuzzleAssumption DEF NoCell, Cells
  <2>6. mrv_finish_choice = IF front.empty = {} THEN NoCell ELSE FirstCell(front.empty)
    BY <2>2 DEF mrv_finish_choice
  <2> QED BY <2>1, <2>3, <2>4, <2>5, <2>6
<1>5. CASE Frontier # {}
  <2>1. PICK x \in Frontier : \A d \in Frontier : key(x) <= key(d)
    <3>1. {key(c) : c \in Frontier} \in SUBSET Nat /\ {key(c) : c \in Frontier} # {} BY <1>1, <1>2, <1>5
    <3>2. PICK m \in {key(c) : c \in Frontier} : \A y \in {key(c) : c \in Frontier} : m <= y BY <3>1, Least
    <3> QED BY <3>2
  <2>2. x \in least BY <2>1
  <2>3. least \in SUBSET Cells BY <1>1
  <2> DEFINE f == FirstCell(least)
  <2>4. f \in least /\ \A d \in least : Pos(f) <= Pos(d) BY <2>2, <2>3, FirstCellIs
  <2> HIDE DEF f
  <2>5. f \in Frontier /\ \A d \in Frontier : packed(f) <= packed(d)
    <3>1. f \in Frontier /\ \A d \in Frontier : key(f) <= key(d) BY <2>4
    <3>2. ASSUME NEW d \in Frontier PROVE packed(f) <= packed(d)
      <4>1. key(f) <= key(d) /\ key(f) \in Nat /\ key(d) \in Nat /\ f \in Cells /\ d \in Cells
        BY <1>1, <1>2, <3>1
      <4>2. CASE key(f) < key(d) BY <1>3, <4>1, <4>2
      <4>3. CASE key(f) = key(d)
        <5>1. d \in least BY <3>1, <4>3
        <5> QED BY <1>3, <2>4, <4>1, <4>3, <5>1
      <4> QED BY <4>1, <4>2, <4>3
    <3> QED BY <3>1, <3>2
  <2>6. \A c \in Frontier : (\A d \in Frontier : packed(c) <= packed(d)) => c = f
    <3> TAKE c \in Frontier
    <3> HAVE \A d \in Frontier : packed(c) <= packed(d)
    <3>1. packed(c) <= packed(f) /\ packed(f) <= packed(c) BY <2>5
    <3>2. c \in Cells /\ f \in Cells BY <1>1, <2>5
    <3>3. key(c) \in Nat /\ key(f) \in Nat /\ Pos(c) \in Int /\ Pos(f) \in Int BY <1>2, <3>2
    <3>4. Pos(c) = Pos(f) BY <1>3, <3>1, <3>2, <3>3
    <3> QED BY <3>2, <3>4, PosIs
  <2> DEFINE best == CHOOSE c \in Frontier :
                \A d \in Frontier : MrvScore(c) * 2 ^ 11 + bt_nc_key(c)
                                      <= MrvScore(d) * 2 ^ 11 + bt_nc_key(d)
  <2>7. best = f BY <2>5, <2>6 DEF packed
  <2> HIDE DEF best
  <2>8. mrv_choose_cell_fast = IF MrvScore(f) = 0 THEN NoCell ELSE f
    <3>1. mrv_choose_cell_fast = IF MrvScore(best) = 0 THEN NoCell ELSE CellAt(bt_nc_key(best) % 256)
      BY <1>5 DEF mrv_choose_cell_fast, best
    <3>2. f \in Cells BY <1>1, <2>5
    <3> QED BY <1>2, <2>7, <3>1, <3>2
  <2>9. CASE \E c \in Frontier : mrv_free_candidates(c) = 0
    <3>1. PICK c \in Frontier : mrv_free_candidates(c) = 0 BY <2>9
    <3>2. c \in Cells /\ f \in Cells BY <1>1, <2>5
    <3>3. MrvScore(c) = 0 /\ cell_mask[c] \subseteq used BY <3>1, <3>2, ScoreIs
    <3>4. key(f) <= key(c) BY <2>4
    <3>5. key(c) <= 7 BY <1>2, <3>2, <3>3 DEF key
    <3>6. key(f) >= MrvScore(f) * 8 BY <1>2, <3>2 DEF key
    <3>7. MrvScore(f) = 0 BY <1>2, <3>2, <3>4, <3>5, <3>6
    <3>8. mrv_choose_cell = NoCell BY <2>9 DEF mrv_choose_cell
    <3> QED BY <2>8, <3>1, <3>3, <3>7, <3>8
  <2>10. CASE ~ \E c \in Frontier : mrv_free_candidates(c) = 0
    <3>1. f \in Cells /\ f \in Frontier /\ f \in front.empty BY <1>1, <2>5
    <3>2. MrvScore(f) # 0 BY <2>10, <3>1, ScoreIs
    <3>3. mrv_choose_cell = f BY <1>5, <2>10 DEF mrv_choose_cell, f, key
    <3>4. NoCell \notin Cells BY PuzzleAssumption DEF NoCell, Cells
    <3> QED BY <2>8, <3>1, <3>2, <3>3, <3>4
  <2> QED BY <2>9, <2>10
<1> QED BY <1>4, <1>5

-----------------------------------------------------------------------------
(* Boards whose pieces agree. *)

\* A piece suits a key: a known side is equal, an unknown one is not grey.
LEMMA CompartmentIs ==
  ASSUME NEW key, NEW p
  PROVE  p \in Compartment(key)
           <=> /\ p \in Rotated
               /\ \A k \in Sides : IF key[k] = AllFace THEN Side(p, k) # 0 ELSE Side(p, k) = key[k]
<1>1. \A k \in Sides : k = 1 \/ k = 2 \/ k = 3 \/ k = 4 BY DEF Sides
<1>2. 1 \in Sides /\ 2 \in Sides /\ 3 \in Sides /\ 4 \in Sides BY DEF Sides
<1> DEFINE F(k) == IF key[k] = AllFace THEN Side(p, k) # 0 ELSE Side(p, k) = key[k]
<1>3. \A S, k : p \in search_face(S, key[k], k) <=> p \in S /\ F(k) BY DEF search_face
<1> HIDE DEF F
<1>4. p \in Compartment(key) <=> p \in Rotated /\ F(1) /\ F(2) /\ F(3) /\ F(4)
  <2> DEFINE S1 == search_face(Rotated, key[1], 1)
             S2 == search_face(S1, key[2], 2)
             S3 == search_face(S2, key[3], 3)
             S4 == search_face(S3, key[4], 4)
  <2>1. p \in S1 <=> p \in Rotated /\ F(1) BY <1>3
  <2>2. p \in S2 <=> p \in S1 /\ F(2) BY <1>3
  <2>3. p \in S3 <=> p \in S2 /\ F(3) BY <1>3
  <2>4. p \in S4 <=> p \in S3 /\ F(4) BY <1>3
  <2>5. Compartment(key) = S4 BY DEF Compartment
  <2> HIDE DEF S1, S2, S3, S4
  <2> QED BY <2>1, <2>2, <2>3, <2>4, <2>5
<1>5. p \in Compartment(key) <=> p \in Rotated /\ \A k \in Sides : F(k)
  BY <1>1, <1>2, <1>4
<1> QED BY <1>5 DEF F

\* Each piece is on one cell at most.
Apart(b) == \A c, d \in Cells : b[c] # Empty /\ b[d] # Empty /\ b[c][1] = b[d][1] => c = d
\* The piece of c shows grey to the border, a colour to the inside, and the
\* colour of its neighbour where there is one.
AgreesAt(b, c) ==
  \A k \in Sides :
    IF k \in NeighbourSides(c)
    THEN /\ Side(b[c], k) # 0
         /\ b[Neighbour(c, k)] # Empty => Side(b[c], k) = Side(b[Neighbour(c, k)], Opposite(k))
    ELSE Side(b[c], k) = 0
GoodBoard(b) ==
  /\ b \in Board /\ Apart(b)
  /\ \A c \in Cells : b[c] # Empty => AgreesAt(b, c)

\* A piece is used on a board exactly when a cell holds it.
LEMMA UsedIs ==
  ASSUME NEW b
  PROVE  \A i : i \in Used(b) <=> \E c \in Cells : b[c] # Empty /\ b[c][1] = i
BY DEF Used, EmptyCells

\* The used pieces are pieces of the game.
LEMMA UsedType ==
  ASSUME NEW b \in Board
  PROVE  Used(b) \subseteq 1 .. Parts
<1>1. \A c \in Cells : b[c] # Empty => b[c] \in Rotated BY DEF Board
<1>2. \A c \in Cells : b[c] # Empty => b[c][1] \in 1 .. Parts BY <1>1, PieceType
<1> QED BY <1>2, UsedIs

\* A cell that is empty in b but filled in the good board x, of which b is a
\* part, holds in x a free piece of its compartment in b.
LEMMA SolutionFits ==
  ASSUME NEW x, GoodBoard(x), NEW b \in Board, Solves(x, b),
         NEW c \in Cells, b[c] = Empty, x[c] # Empty
  PROVE  x[c] \in Compartment(what_search_in_grid_to_key(b, c)) /\ x[c][1] \notin Used(b)
<1> DEFINE key == what_search_in_grid_to_key(b, c)
<1>1. x[c] \in Rotated BY DEF GoodBoard, Board
<1>2. ASSUME NEW k \in Sides
      PROVE IF key[k] = AllFace THEN Side(x[c], k) # 0 ELSE Side(x[c], k) = key[k]
  <2>1. AgreesAt(x, c) BY DEF GoodBoard
  <2>2. 0 # AllFace BY PuzzleAssumption DEF AllFace
  <2>3. CASE k \notin NeighbourSides(c)
    <3>1. key[k] = 0 BY <2>3 DEF what_search_in_grid_to_key
    <3>2. Side(x[c], k) = 0 BY <2>1, <2>3 DEF AgreesAt
    <3> QED BY <2>2, <3>1, <3>2
  <2>4. CASE k \in NeighbourSides(c)
    <3> DEFINE e == Neighbour(c, k)
    <3>1. e \in Cells BY <2>4 DEF NeighbourSides
    <3>2. Side(x[c], k) # 0 /\ (x[e] # Empty => Side(x[c], k) = Side(x[e], Opposite(k)))
      BY <2>1, <2>4 DEF AgreesAt
    <3>3. key[k] = IF b[e] = Empty THEN AllFace ELSE Side(b[e], Opposite(k))
      BY <2>4 DEF what_search_in_grid_to_key
    <3>4. b[e] # Empty => b[e] = x[e] /\ b[e] \in Rotated BY <3>1 DEF Solves, Board
    <3>5. b[e] # Empty => Side(b[e], Opposite(k)) # AllFace BY <3>4, PieceType
    <3> HIDE DEF key, e
    <3> QED BY <3>2, <3>3, <3>4, <3>5
  <2> QED BY <2>3, <2>4
<1>3. ASSUME x[c][1] \in Used(b) PROVE FALSE
  <2>1. PICK d \in Cells : b[d] # Empty /\ b[d][1] = x[c][1] BY <1>3, UsedIs
  <2>2. x[d] = b[d] /\ d # c BY <2>1 DEF Solves
  <2> QED BY <2>1, <2>2 DEF GoodBoard, Apart
<1> QED BY <1>1, <1>2, <1>3, CompartmentIs

\* A free piece of the compartment keeps the board good.
LEMMA PlaceGood ==
  ASSUME NEW b, GoodBoard(b), NEW c \in Cells, b[c] = Empty,
         NEW p \in Compartment(what_search_in_grid_to_key(b, c)), p[1] \notin Used(b)
  PROVE  GoodBoard([b EXCEPT ![c] = p])
<1> DEFINE d == [b EXCEPT ![c] = p]
           key == what_search_in_grid_to_key(b, c)
<1>1. p \in Rotated /\ \A k \in Sides : IF key[k] = AllFace THEN Side(p, k) # 0 ELSE Side(p, k) = key[k]
  BY CompartmentIs
<1>2. p # Empty /\ d[c] = p /\ d \in Board /\ b \in Board /\ \A e \in Cells \ {c} : d[e] = b[e]
  BY <1>1, PieceType DEF Board, GoodBoard
<1> HIDE DEF d
<1>3. Apart(d)
  <2> SUFFICES ASSUME NEW e \in Cells, NEW f \in Cells, d[e] # Empty, d[f] # Empty, d[e][1] = d[f][1]
               PROVE e = f
    BY DEF Apart
  <2>1. \A g \in Cells \ {c} : d[g] # Empty => d[g][1] # p[1] BY <1>2, UsedIs
  <2>2. CASE e # c /\ f # c BY <1>2, <2>2 DEF GoodBoard, Apart
  <2> QED BY <1>2, <2>1, <2>2
<1>4. \A k \in NeighbourSides(c) : /\ Neighbour(c, k) \in Cells \ {c}
                                   /\ k \in Sides
                                   /\ Opposite(k) \in NeighbourSides(Neighbour(c, k))
                                   /\ Neighbour(Neighbour(c, k), Opposite(k)) = c
                                   /\ Opposite(Opposite(k)) = k
  BY NeighbourBack DEF NeighbourSides
<1>6. ASSUME NEW k \in NeighbourSides(c), b[Neighbour(c, k)] # Empty
      PROVE /\ key[k] = Side(b[Neighbour(c, k)], Opposite(k))
            /\ Side(p, k) = key[k] /\ Side(p, k) # 0
  <2> DEFINE e == Neighbour(c, k)
  <2>1. e \in Cells /\ k \in Sides /\ b[e] # Empty BY <1>4, <1>6
  <2>2. key[k] = Side(b[e], Opposite(k)) BY <2>1 DEF what_search_in_grid_to_key
  <2>3. b[e] \in Rotated BY <1>2, <2>1 DEF Board
  <2>4. Side(b[e], Opposite(k)) # AllFace BY <2>1, <2>3, PieceType
  <2>5. AgreesAt(b, e) BY <2>1 DEF GoodBoard
  <2>6. Side(b[e], Opposite(k)) # 0 BY <1>4, <2>5, NeighbourBack DEF AgreesAt, NeighbourSides
  <2> QED BY <1>1, <2>1, <2>2, <2>4, <2>6
<1>7. ASSUME NEW k \in NeighbourSides(c), b[Neighbour(c, k)] = Empty
      PROVE Side(p, k) # 0
  <2>1. key[k] = AllFace /\ k \in Sides BY <1>4, <1>7 DEF what_search_in_grid_to_key
  <2> QED BY <1>1, <2>1
<1>8. \A k \in Sides \ NeighbourSides(c) : Side(p, k) = 0
  <2>1. \A k \in Sides \ NeighbourSides(c) : key[k] = 0 BY DEF what_search_in_grid_to_key
  <2>2. 0 # AllFace BY PuzzleAssumption DEF AllFace
  <2> HIDE DEF key
  <2> QED BY <1>1, <2>1, <2>2
<1> HIDE DEF key
<1>9. AgreesAt(d, c) BY <1>2, <1>4, <1>6, <1>7, <1>8 DEF AgreesAt
<1>10. ASSUME NEW e \in Cells \ {c}, d[e] # Empty PROVE AgreesAt(d, e)
  <2>1. AgreesAt(b, e) /\ b[e] # Empty /\ d[e] = b[e] BY <1>2, <1>10 DEF GoodBoard
  <2>2. ASSUME NEW k \in NeighbourSides(e), Neighbour(e, k) = c
        PROVE Side(b[e], k) = Side(p, Opposite(k))
    <3>1. Opposite(k) \in NeighbourSides(c) /\ Neighbour(c, Opposite(k)) = e /\ Opposite(Opposite(k)) = k
      BY <2>2, NeighbourBack
    <3> QED BY <1>6, <2>1, <3>1
  <2>3. \A k \in NeighbourSides(e) : Neighbour(e, k) \in Cells BY DEF NeighbourSides
  <2> SUFFICES ASSUME NEW k \in Sides
               PROVE IF k \in NeighbourSides(e)
                     THEN /\ Side(d[e], k) # 0
                          /\ d[Neighbour(e, k)] # Empty => Side(d[e], k) = Side(d[Neighbour(e, k)], Opposite(k))
                     ELSE Side(d[e], k) = 0
    BY DEF AgreesAt
  <2>4. k \notin NeighbourSides(e) => Side(d[e], k) = 0 BY <2>1 DEF AgreesAt
  <2>5. ASSUME k \in NeighbourSides(e) PROVE Side(d[e], k) # 0 BY <2>1, <2>5 DEF AgreesAt
  <2>6. ASSUME k \in NeighbourSides(e), d[Neighbour(e, k)] # Empty
        PROVE Side(d[e], k) = Side(d[Neighbour(e, k)], Opposite(k))
    <3>1. CASE Neighbour(e, k) = c BY <1>2, <2>1, <2>2, <2>6, <3>1
    <3>2. CASE Neighbour(e, k) # c
      <4>1. d[Neighbour(e, k)] = b[Neighbour(e, k)] BY <1>2, <2>3, <2>6, <3>2
      <4> QED BY <2>1, <2>6, <4>1 DEF AgreesAt
    <3> QED BY <3>1, <3>2
  <2>7. CASE k \in NeighbourSides(e)
    <3>1. d[Neighbour(e, k)] # Empty => Side(d[e], k) = Side(d[Neighbour(e, k)], Opposite(k)) BY <2>6, <2>7
    <3>2. Side(d[e], k) # 0 BY <2>5, <2>7
    <3> QED BY <2>7, <3>1, <3>2, Zenon
  <2> QED BY <2>4, <2>7, Zenon
<1>11. \A e \in Cells : d[e] # Empty => AgreesAt(d, e) BY <1>9, <1>10
<1>12. GoodBoard(d) BY <1>2, <1>3, <1>11 DEF GoodBoard
<1> QED BY <1>12 DEF d

\* A part of a good board is a good board.
LEMMA PartGood ==
  ASSUME NEW x, GoodBoard(x), NEW b \in Board, Solves(x, b)
  PROVE  GoodBoard(b)
<1>1. \A c \in Cells : b[c] # Empty => x[c] = b[c] BY DEF Solves
<1>2. Apart(b) BY <1>1 DEF GoodBoard, Apart
<1>3. ASSUME NEW c \in Cells, b[c] # Empty PROVE AgreesAt(b, c)
  <2>1. AgreesAt(x, c) /\ x[c] = b[c] BY <1>1, <1>3 DEF GoodBoard
  <2>2. \A k \in NeighbourSides(c) : Neighbour(c, k) \in Cells BY DEF NeighbourSides
  <2> QED BY <1>1, <2>1, <2>2 DEF AgreesAt
<1> QED BY <1>2, <1>3 DEF GoodBoard

\* A board is complete exactly when as many pieces are placed as there are cells
\* (possibility_placed_count).
LEMMA EmptyCount ==
  ASSUME NEW b
  PROVE  /\ IsFiniteSet(EmptyCells(b)) /\ Cardinality(EmptyCells(b)) \in 0 .. Parts
         /\ possibility_placed_count(b) \in 0 .. Parts
         /\ possibility_placed_count(b) >= Parts <=> EmptyCells(b) = {}
<1>1. EmptyCells(b) \in SUBSET Cells BY DEF EmptyCells
<1>2. IsFiniteSet(Cells) /\ Cardinality(Cells) = Parts /\ Parts \in Nat BY CellsFinite
<1>3. IsFiniteSet(EmptyCells(b)) /\ Cardinality(EmptyCells(b)) <= Parts BY <1>1, <1>2, FS_Subset
<1>4. Cardinality(EmptyCells(b)) \in Nat BY <1>3, FS_CardinalityType
<1>5. Cardinality(EmptyCells(b)) = 0 <=> EmptyCells(b) = {} BY <1>3, FS_EmptySet
<1> QED BY <1>2, <1>3, <1>4, <1>5 DEF possibility_placed_count

\* The boards an exploration starts from are good: check_possibility says so.
LEMMA RootGood ==
  ASSUME NEW b \in Roots
  PROVE  GoodBoard(b)
<1> DEFINE S == Cells \ EmptyCells(b)
           f == [c \in S |-> b[c][1]]
<1>1. b \in Board /\ check_possibility(b) BY SearchAssumption DEF Board
<1>2. Apart(b)
  <2>1. IsFiniteSet(S) /\ Cardinality(S) = possibility_placed_count(b)
    <3>1. IsFiniteSet(Cells) /\ Cardinality(Cells) = Parts BY CellsFinite
    <3>2. IsFiniteSet(S) /\ Cardinality(S) = Cardinality(Cells) - Cardinality(Cells \cap EmptyCells(b))
      BY <3>1, FS_Difference, FS_Subset
    <3>3. Cells \cap EmptyCells(b) = EmptyCells(b) BY DEF EmptyCells
    <3> QED BY <3>1, <3>2, <3>3 DEF possibility_placed_count
  <2>2. f \in Surjection(S, Used(b)) BY DEF Used, Surjection
  <2>3. \A c \in S : f[c] = b[c][1] OBVIOUS
  <2>4. \A c \in Cells : c \in S <=> b[c] # Empty BY DEF EmptyCells
  <2> HIDE DEF f, S
  <2>5. /\ IsFiniteSet(Used(b)) /\ Cardinality(Used(b)) <= Cardinality(S)
        /\ Cardinality(Used(b)) = Cardinality(S) <=> f \in Injection(S, Used(b))
    BY <2>1, <2>2, FS_Surjection, Zenon
  <2>6. Cardinality(Used(b)) >= Cardinality(S) BY <1>1, <2>1 DEF check_possibility
  <2>7. Cardinality(Used(b)) \in Nat /\ Cardinality(S) \in Nat BY <2>1, <2>5, FS_CardinalityType
  <2>8. f \in Injection(S, Used(b)) BY <2>5, <2>6, <2>7
  <2>9. \A c, d \in S : f[c] = f[d] => c = d BY <2>8 DEF Injection, IsInjective
  <2> QED BY <2>3, <2>4, <2>9 DEF Apart
<1>3. ASSUME NEW c \in Cells, b[c] # Empty PROVE AgreesAt(b, c)
  <2>1. c \in Cells \ EmptyCells(b) BY <1>3 DEF EmptyCells
  <2>2. \A k \in Sides : what_search_in_grid_to_key(b, c)[k] \in {AllFace, Side(b[c], k)}
    BY <1>1, <2>1 DEF check_possibility
  <2>3. \A k \in NeighbourSides(c) : Side(b[c], k) # 0 BY <2>1, SearchAssumption
  <2>4. ASSUME NEW k \in Sides, k \notin NeighbourSides(c) PROVE Side(b[c], k) = 0
    <3>1. what_search_in_grid_to_key(b, c)[k] = 0 BY <2>4 DEF what_search_in_grid_to_key
    <3>2. 0 # AllFace BY PuzzleAssumption DEF AllFace
    <3> QED BY <2>2, <3>1, <3>2
  <2>5. ASSUME NEW k \in NeighbourSides(c), b[Neighbour(c, k)] # Empty
        PROVE Side(b[c], k) = Side(b[Neighbour(c, k)], Opposite(k))
    <3>1. k \in Sides /\ Neighbour(c, k) \in Cells BY DEF NeighbourSides
    <3>2. what_search_in_grid_to_key(b, c)[k] = Side(b[Neighbour(c, k)], Opposite(k))
      BY <2>5, <3>1 DEF what_search_in_grid_to_key
    <3>3. b[Neighbour(c, k)] \in Rotated BY <1>1, <2>5, <3>1 DEF Board
    <3>4. Side(b[Neighbour(c, k)], Opposite(k)) # AllFace BY <3>1, <3>3, PieceType
    <3> QED BY <2>2, <3>1, <3>2, <3>4
  <2> QED BY <2>3, <2>4, <2>5 DEF AgreesAt
<1> QED BY <1>1, <1>2, <1>3 DEF GoodBoard

-----------------------------------------------------------------------------
(* The incremental state. *)

Put(b, c, p) == [b EXCEPT ![c] = p]
FrontOf(b, w) ==
  [empty |-> EmptyCells(b), nconstr |-> [c \in Cells |-> NConstr(b, c)],
   constrained |-> {c \in Cells : NConstr(b, c) > 0}, weight |-> w]
Weights == [Cells -> 0 .. WeightMax - 1]

\* Placing a free piece on an empty cell uses one piece and fills one cell, and
\* taking it off gives the board back.
LEMMA PlaceUsed ==
  ASSUME NEW b, GoodBoard(b), NEW c \in Cells, b[c] = Empty, NEW p \in Rotated, p[1] \notin Used(b)
  PROVE  LET d == [b EXCEPT ![c] = p]
         IN  /\ d \in Board
             /\ Used(d) = Used(b) \cup {p[1]}
             /\ Used(b) = Used(d) \ {p[1]}
             /\ EmptyCells(d) = EmptyCells(b) \ {c}
             /\ EmptyCells(b) = EmptyCells(d) \cup {c}
             /\ [d EXCEPT ![c] = Empty] = b
<1> DEFINE d == [b EXCEPT ![c] = p]
<1>1. /\ b \in Board /\ d \in Board /\ p # Empty /\ d[c] = p
      /\ \A e \in Cells \ {c} : d[e] = b[e]
  BY PieceType DEF Board, GoodBoard
<1>2. [d EXCEPT ![c] = Empty] = b BY <1>1 DEF Board
<1> HIDE DEF d
<1>3. \A i : i \in Used(d) <=> i \in Used(b) \/ i = p[1] BY <1>1, UsedIs
<1>4. EmptyCells(d) = EmptyCells(b) \ {c} /\ c \in EmptyCells(b) BY <1>1 DEF EmptyCells
<1> QED BY <1>1, <1>2, <1>3, <1>4 DEF d

\* The frontier kept by a placement and by its undo is the frontier of the board
\* (bt_frontier_place, bt_frontier_undo).
LEMMA PlaceFront ==
  ASSUME NEW b, GoodBoard(b), NEW c \in Cells, b[c] = Empty, NEW p \in Rotated, p[1] \notin Used(b),
         NEW w
  PROVE  /\ bt_frontier_place(FrontOf(b, w), c) = FrontOf(Put(b, c, p), w)
         /\ bt_frontier_undo(FrontOf(Put(b, c, p), w), c) = FrontOf(b, w)
<1> DEFINE d == Put(b, c, p)
<1>1. /\ EmptyCells(d) = EmptyCells(b) \ {c} /\ EmptyCells(b) = EmptyCells(d) \cup {c}
      /\ b \in Board
  BY PlaceUsed DEF GoodBoard, Put
<1>2. \A e \in Cells : NConstr(d, e) = IF e \in Neighbours(c) THEN NConstr(b, e) + 1 ELSE NConstr(b, e)
  BY <1>1, PlaceNConstr DEF Put
<1>3. \A e \in Cells : NConstr(b, e) \in 0 .. 4 /\ NConstr(d, e) \in 0 .. 4 BY NConstrType
<1> HIDE DEF d
<1>4. Neighbours(c) \subseteq Cells BY DEF Neighbours, NeighbourSides
<1>5. bt_frontier_place(FrontOf(b, w), c) = FrontOf(d, w)
  <2>1. {e \in Cells : NConstr(d, e) > 0} = {e \in Cells : NConstr(b, e) > 0} \cup Neighbours(c)
    BY <1>2, <1>3, <1>4
  <2> DEFINE nn == [x \in Cells |-> NConstr(b, x)]
             kk == {e \in Cells : NConstr(b, e) > 0}
             f == [empty |-> EmptyCells(b), nconstr |-> nn, constrained |-> kk, weight |-> w]
  <2>2. [e \in Cells |-> NConstr(d, e)]
          = [e \in Cells |-> IF e \in Neighbours(c) THEN nn[e] + 1 ELSE nn[e]]
    BY <1>2
  <2>3. FrontOf(b, w) = f BY DEF FrontOf
  <2> HIDE DEF nn, kk
  <2>4. bt_frontier_place(f, c)
          = [empty |-> EmptyCells(b) \ {c},
             nconstr |-> [e \in Cells |-> IF e \in Neighbours(c) THEN nn[e] + 1 ELSE nn[e]],
             constrained |-> kk \cup Neighbours(c), weight |-> w]
    <3> DEFINE g == [e \in Cells |-> IF e \in Neighbours(c) THEN f.nconstr[e] + 1 ELSE f.nconstr[e]]
    <3>1. f.nconstr = nn OBVIOUS
    <3>2. bt_frontier_place(f, c) = [f EXCEPT !.empty = @ \ {c},
                                              !.constrained = @ \cup Neighbours(c),
                                              !.nconstr = g]
      BY DEF bt_frontier_place
    <3>3. g = [e \in Cells |-> IF e \in Neighbours(c) THEN nn[e] + 1 ELSE nn[e]] BY <3>1, Zenon
    <3> HIDE DEF g
    <3> QED BY <3>2, <3>3
  <2> QED BY <1>1, <2>1, <2>2, <2>3, <2>4 DEF FrontOf, kk
<1>6. bt_frontier_undo(FrontOf(d, w), c) = FrontOf(b, w)
  <2> DEFINE n == [e \in Cells |-> IF e \in Neighbours(c) THEN FrontOf(d, w).nconstr[e] - 1
                                   ELSE FrontOf(d, w).nconstr[e]]
  <2>1. n = [e \in Cells |-> NConstr(b, e)]
    <3>1. \A e \in Cells : FrontOf(d, w).nconstr[e] = NConstr(d, e) BY DEF FrontOf
    <3>2. \A e \in Cells : n[e] = NConstr(b, e) BY <1>2, <1>3, <3>1
    <3> QED BY <3>2
  <2>2. {e \in Cells : NConstr(b, e) > 0}
          = {e \in Cells : NConstr(d, e) > 0} \ {e \in Neighbours(c) : n[e] = 0}
    <3>1. \A e \in Cells : n[e] = NConstr(b, e) BY <2>1
    <3> HIDE DEF n
    <3>2. \A e \in Cells : NConstr(b, e) > 0 <=> NConstr(d, e) > 0 /\ ~ (e \in Neighbours(c) /\ n[e] = 0)
      BY <1>2, <1>3, <3>1
    <3> QED BY <1>4, <3>2
  <2>3. bt_frontier_undo(FrontOf(d, w), c)
          = [FrontOf(d, w) EXCEPT !.empty = @ \cup {c},
                                  !.constrained = @ \ {e \in Neighbours(c) : n[e] = 0},
                                  !.nconstr = n]
    BY DEF bt_frontier_undo
  <2> HIDE DEF n
  <2> QED BY <1>1, <2>1, <2>2, <2>3 DEF FrontOf
<1> QED BY <1>5, <1>6 DEF d

\* The parts of a frontier recomputed from a board.
LEMMA FrontType ==
  ASSUME NEW b, NEW w \in Weights, front = FrontOf(b, w)
  PROVE  /\ front.empty = EmptyCells(b) /\ front.empty \subseteq Cells
         /\ front.constrained \subseteq Cells
         /\ front.nconstr \in [Cells -> 0 .. 4]
         /\ front.weight = w
         /\ [front EXCEPT !.weight = 0] = [bt_frontier_init(b) EXCEPT !.weight = 0]
<1>1. \A e \in Cells : NConstr(b, e) \in 0 .. 4 BY NConstrType
<1>2. EmptyCells(b) \subseteq Cells BY DEF EmptyCells
<1> DEFINE nn == [x \in Cells |-> NConstr(b, x)]
           kk == {e \in Cells : NConstr(b, e) > 0}
           ww == [c \in Cells |-> 0]
<1>3. nn \in [Cells -> 0 .. 4] /\ kk \subseteq Cells BY <1>1
<1>4. front = [empty |-> EmptyCells(b), nconstr |-> nn, constrained |-> kk, weight |-> w] BY DEF FrontOf
<1>5. bt_frontier_init(b) = [empty |-> EmptyCells(b), nconstr |-> nn, constrained |-> kk, weight |-> ww]
  BY DEF bt_frontier_init
<1> HIDE DEF nn, kk, ww
<1> QED BY <1>2, <1>3, <1>4, <1>5

\* A dead end raises a weight within its bound (bt_fc_failed).
LEMMA FailWeights ==
  ASSUME NEW w \in Weights, NEW c \in Cells, NEW e \in Cells
  PROVE  bt_fc_failed(w, e, c) \in Weights
<1>1. ASSUME NEW v \in Weights, NEW d \in Cells PROVE bt_frontier_fail(v, d) \in Weights
  <2>1. WeightMax \in Nat \ {0} BY SearchAssumption
  <2>2. \A i \in 0 .. WeightMax : i \div 2 \in 0 .. WeightMax - 1 BY <2>1
  <2>3. \A x \in Cells : v[x] \in 0 .. WeightMax - 1 BY DEF Weights
  <2>4. CASE v[d] + 1 < WeightMax
    <3>1. [v EXCEPT ![d] = @ + 1] \in Weights BY <2>1, <2>3, <2>4 DEF Weights
    <3> QED BY <2>4, <3>1 DEF bt_frontier_fail
  <2>5. CASE ~ (v[d] + 1 < WeightMax)
    <3>1. \A x \in Cells : (IF x = d THEN v[x] + 1 ELSE v[x]) \in 0 .. WeightMax BY <2>1, <2>3
    <3>2. [x \in Cells |-> (IF x = d THEN v[x] + 1 ELSE v[x]) \div 2] \in Weights
      BY <2>2, <3>1 DEF Weights
    <3> QED BY <2>5, <3>2 DEF bt_frontier_fail
  <2> QED BY <2>4, <2>5
<1> QED BY <1>1 DEF bt_fc_failed

\* The dead neighbour the forward check reports is one of those it looked at.
LEMMA FirstDeadIs ==
  ASSUME NEW c \in Cells, NEW D \in SUBSET NeighbourSides(c), FirstDead(D, c) # NoCell
  PROVE  FirstDead(D, c) \in Cells /\ D # {}
<1>1. D # {} BY DEF FirstDead
<1>2. D \in SUBSET Nat BY DEF NeighbourSides, Sides
<1>3. \E k \in D : \A j \in D : k <= j BY <1>1, <1>2, Least
<1>4. (CHOOSE k \in D : \A j \in D : k <= j) \in D BY <1>3
<1> QED BY <1>1, <1>4 DEF FirstDead, NeighbourSides

\* The mask of a cell, recomputed from a board, holds the pieces of the
\* compartment of its constraints.
LEMMA MaskIs ==
  ASSUME NEW b \in Board, NEW c \in Cells
  PROVE  /\ bt_init_constraints(b) \in [Cells -> Keys]
         /\ bt_mask_init(bt_init_constraints(b)) \in [Cells -> SUBSET (1 .. Parts)]
         /\ \A i : i \in bt_mask_init(bt_init_constraints(b))[c]
                     <=> \E p \in Compartment(what_search_in_grid_to_key(b, c)) : p[1] = i
<1>1. bt_init_constraints(b) \in [Cells -> Keys] BY KeyType DEF bt_init_constraints
<1>2. \A e \in Cells : bt_mask_init(bt_init_constraints(b))[e]
        = {p[1] : p \in Compartment(what_search_in_grid_to_key(b, e))}
  BY KeyType DEF bt_mask_init, bt_init_constraints, build_bucket_id_mask
<1>3. \A key \in Keys : {p[1] : p \in Compartment(key)} \subseteq 1 .. Parts
  BY BucketIs, PieceType
<1>4. \A e \in Cells : bt_mask_init(bt_init_constraints(b))[e] \in SUBSET (1 .. Parts)
  BY <1>2, <1>3, KeyType
<1>5. bt_mask_init(bt_init_constraints(b)) \in [Cells -> SUBSET (1 .. Parts)]
  BY <1>4 DEF bt_mask_init
<1> QED BY <1>1, <1>2, <1>5

-----------------------------------------------------------------------------
(* The levels of the search. *)

Level == [cell : Cells, search : Seq(Rotated), next_s : Nat \ {0}, placed : Rotated \cup {Empty}]
LiftedOf(b, st, i) ==
  [c \in Cells |-> IF \E j \in i .. Len(st) : st[j].placed # Empty /\ st[j].cell = c
                   THEN Empty ELSE b[c]]
\* Level i tries the pieces of the compartment of its cell as it saw the board,
\* and the piece it has placed is one of those it has tried.
LevelOK(b, st, i) ==
  /\ st[i].next_s <= Len(st[i].search) + 1
  /\ st[i].search # <<>> =>
       /\ LiftedOf(b, st, i)[st[i].cell] = Empty
       /\ st[i].search = buildBigArray[what_search_in_grid_to_key(LiftedOf(b, st, i), st[i].cell)]
  /\ st[i].placed # Empty =>
       /\ b[st[i].cell] = st[i].placed
       /\ \E t \in 1 .. Len(st[i].search) : t < st[i].next_s /\ st[i].search[t] = st[i].placed
  /\ i < Len(st) => st[i].placed # Empty
StackOK(r, b, st) ==
  /\ st \in Seq(Level)
  /\ \A i \in 1 .. Len(st) : LevelOK(b, st, i)
  /\ \A i, j \in 1 .. Len(st) : st[i].placed # Empty /\ st[j].placed # Empty /\ st[i].cell = st[j].cell => i = j
  /\ \A i \in 1 .. Len(st) : st[i].placed # Empty => r[st[i].cell] = Empty
AllPlaced(st) == \A i \in 1 .. Len(st) : st[i].placed # Empty

\* The board a level started from, in this state and in the next one.
LEMMA LiftedIs ==
  /\ \A i : Lifted(i) = LiftedOf(board, stack, i)
  /\ \A i : Lifted(i)' = LiftedOf(board', stack', i)
BY DEF Lifted, LiftedOf, Top

\* The fields of a level of the stack.
LEMMA LevelType ==
  ASSUME NEW st \in Seq(Level), NEW i \in 1 .. Len(st)
  PROVE  /\ st[i] \in Level /\ st[i].cell \in Cells /\ st[i].search \in Seq(Rotated)
         /\ Len(st[i].search) \in Nat
         /\ st[i].next_s \in Nat \ {0} /\ st[i].placed \in Rotated \cup {Empty}
<1>1. st[i] \in Level OBVIOUS
<1> QED BY <1>1 DEF Level

\* Taking off the pieces of the upper levels leaves a board that the whole one
\* extends.
LEMMA LiftedBoard ==
  ASSUME NEW b \in Board, NEW st, NEW i
  PROVE  LiftedOf(b, st, i) \in Board /\ Solves(b, LiftedOf(b, st, i))
BY DEF LiftedOf, Board, Solves

\* A level without a piece yet is pushed on placed ones.
LEMMA StackPush ==
  ASSUME NEW r \in Board, NEW b \in Board, NEW st, StackOK(r, b, st), AllPlaced(st),
         NEW c \in Cells, NEW search,
         \/ search = <<>>
         \/ b[c] = Empty /\ search = buildBigArray[what_search_in_grid_to_key(b, c)]
  PROVE  LET lvl == [cell |-> c, search |-> search, next_s |-> 1, placed |-> Empty]
             sp == Append(st, lvl)
         IN  /\ sp \in Seq(Level) /\ Len(sp) = Len(st) + 1 /\ sp[Len(sp)] = lvl
             /\ StackOK(r, b, sp)
             /\ LiftedOf(b, sp, Len(sp)) = b
             /\ \A i \in 1 .. Len(st) : sp[i] = st[i] /\ LiftedOf(b, sp, i) = LiftedOf(b, st, i)
<1> DEFINE lvl == [cell |-> c, search |-> search, next_s |-> 1, placed |-> Empty]
           sp == Append(st, lvl)
           n == Len(st)
<1>1. search \in Seq(Rotated) /\ Len(search) \in Nat
  <2>1. CASE search = <<>> BY <2>1
  <2>2. CASE b[c] = Empty /\ search = buildBigArray[what_search_in_grid_to_key(b, c)]
    BY <2>2, KeyType, BucketIs
  <2> QED BY <2>1, <2>2
<1>2. lvl \in Level BY <1>1 DEF Level
<1>3. st \in Seq(Level) /\ n \in Nat BY DEF StackOK
<1>4. sp \in Seq(Level) /\ Len(sp) = n + 1 /\ sp[n + 1] = lvl /\ \A i \in 1 .. n : sp[i] = st[i]
  BY <1>2, <1>3
<1>12. /\ lvl.placed = Empty /\ lvl.next_s = 1 /\ lvl.search = search /\ lvl.cell = c OBVIOUS
<1> HIDE DEF sp, lvl
<1>5. ASSUME NEW i \in 1 .. n PROVE LiftedOf(b, sp, i) = LiftedOf(b, st, i)
  <2>1. \A e \in Cells : (\E j \in i .. Len(sp) : sp[j].placed # Empty /\ sp[j].cell = e)
          <=> (\E j \in i .. Len(st) : st[j].placed # Empty /\ st[j].cell = e)
    BY <1>3, <1>4, <1>12
  <2> QED BY <2>1 DEF LiftedOf
<1>6. LiftedOf(b, sp, n + 1) = b
  <2>1. ~ \E j \in n + 1 .. Len(sp) : sp[j].placed # Empty BY <1>3, <1>4, <1>12
  <2> QED BY <2>1 DEF LiftedOf, Board
<1>7. ASSUME NEW i \in 1 .. n PROVE LevelOK(b, sp, i)
  <2>1. LevelOK(b, st, i) /\ st[i].placed # Empty BY DEF StackOK, AllPlaced
  <2> QED BY <1>4, <1>5, <2>1 DEF LevelOK
<1>8. LevelOK(b, sp, n + 1)
  <2> SUFFICES /\ lvl.next_s <= Len(lvl.search) + 1
               /\ lvl.search # <<>> =>
                     /\ b[lvl.cell] = Empty
                     /\ lvl.search = buildBigArray[what_search_in_grid_to_key(b, lvl.cell)]
               /\ lvl.placed = Empty
    BY <1>3, <1>4, <1>6 DEF LevelOK
  <2> QED BY <1>1, <1>12
<1>9. \A i \in 1 .. Len(sp) : i = n + 1 \/ i \in 1 .. n BY <1>3, <1>4
<1>10. \A i \in 1 .. Len(sp) : LevelOK(b, sp, i) BY <1>7, <1>8, <1>9
<1>11. StackOK(r, b, sp)
  <2>1. \A i \in 1 .. Len(sp) : sp[i].placed # Empty => i \in 1 .. n /\ sp[i] = st[i] BY <1>4, <1>9, <1>12
  <2> QED BY <1>4, <1>10, <2>1 DEF StackOK
<1> QED BY <1>4, <1>5, <1>6, <1>11 DEF lvl, sp

\* The top level, without a piece, is popped.
LEMMA StackPop ==
  ASSUME NEW r \in Board, NEW b \in Board, NEW st, StackOK(r, b, st), Len(st) > 0, st[Len(st)].placed = Empty
  PROVE  LET sp == SubSeq(st, 1, Len(st) - 1)
         IN  /\ sp \in Seq(Level) /\ Len(sp) = Len(st) - 1 /\ StackOK(r, b, sp) /\ AllPlaced(sp)
             /\ \A i \in 1 .. Len(st) - 1 : sp[i] = st[i] /\ LiftedOf(b, sp, i) = LiftedOf(b, st, i)
<1> DEFINE sp == SubSeq(st, 1, Len(st) - 1)
           n == Len(st)
<1>1. st \in Seq(Level) /\ n \in Nat /\ n > 0 BY DEF StackOK
<1>2. sp \in Seq(Level) /\ Len(sp) = n - 1 /\ \A i \in 1 .. n - 1 : sp[i] = st[i]
  <2>1. \A i \in 1 .. n - 1 : st[i] \in Level BY <1>1
  <2>2. sp \in Seq(Level) /\ Len(sp) = (IF 1 <= n - 1 THEN n - 1 - 1 + 1 ELSE 0)
        /\ \A i \in 1 .. n - 1 - 1 + 1 : sp[i] = st[1 + i - 1]
    BY <1>1, <2>1, SubSeqProperties
  <2>3. ASSUME NEW i \in 1 .. n - 1 PROVE sp[i] = st[i]
    <3>1. i \in 1 .. n - 1 - 1 + 1 /\ 1 + i - 1 = i BY <1>1
    <3> HIDE DEF sp
    <3> QED BY <2>2, <3>1
  <2>4. (IF 1 <= n - 1 THEN n - 1 - 1 + 1 ELSE 0) = n - 1
    <3> HIDE DEF n
    <3>1. CASE 1 <= n - 1 BY <1>1, <3>1
    <3>2. CASE ~ (1 <= n - 1) BY <1>1, <3>2
    <3> QED BY <3>1, <3>2
  <2> HIDE DEF sp
  <2> QED BY <2>2, <2>3, <2>4
<1> HIDE DEF sp
<1>3. ASSUME NEW i \in 1 .. n - 1 PROVE LiftedOf(b, sp, i) = LiftedOf(b, st, i)
  <2>1. \A e \in Cells : (\E j \in i .. Len(sp) : sp[j].placed # Empty /\ sp[j].cell = e)
          <=> (\E j \in i .. Len(st) : st[j].placed # Empty /\ st[j].cell = e)
    <3>1. \A j \in i .. n : j = n \/ (j \in i .. n - 1 /\ j \in 1 .. n - 1) BY <1>1
    <3>2. \A j \in i .. n - 1 : j \in i .. n /\ sp[j] = st[j] BY <1>1, <1>2
    <3>3. Len(sp) = n - 1 /\ Len(st) = n /\ st[n].placed = Empty BY <1>2
    <3> HIDE DEF n
    <3> QED BY <3>1, <3>2, <3>3, Zenon
  <2> QED BY <2>1 DEF LiftedOf
<1>4. ASSUME NEW i \in 1 .. n - 1 PROVE LevelOK(b, sp, i) /\ sp[i].placed # Empty
  <2>1. LevelOK(b, st, i) /\ i < n BY <1>1 DEF StackOK
  <2>2. st[i].placed # Empty BY <2>1 DEF LevelOK
  <2> QED BY <1>2, <1>3, <2>1, <2>2 DEF LevelOK
<1>5. \A i \in 1 .. n - 1 : i \in 1 .. n BY <1>1
<1>7. AllPlaced(sp) /\ \A i \in 1 .. Len(sp) : LevelOK(b, sp, i) BY <1>2, <1>4 DEF AllPlaced
<1>8. \A i \in 1 .. Len(sp) : i \in 1 .. n /\ sp[i] = st[i] BY <1>2, <1>5
<1>6. StackOK(r, b, sp) BY <1>2, <1>7, <1>8 DEF StackOK
<1> QED BY <1>2, <1>3, <1>6, <1>7 DEF sp

\* Candidates are only passed over: pieces and cells stay.
LEMMA StackNext ==
  ASSUME NEW r \in Board, NEW b \in Board, NEW st, StackOK(r, b, st),
         NEW sp \in Seq(Level), Len(sp) = Len(st),
         \A i \in 1 .. Len(st) : /\ sp[i].cell = st[i].cell /\ sp[i].search = st[i].search
                                 /\ sp[i].placed = st[i].placed
                                 /\ st[i].next_s <= sp[i].next_s
                                 /\ sp[i].next_s <= Len(st[i].search) + 1
  PROVE  /\ StackOK(r, b, sp)
         /\ \A i \in 1 .. Len(st) : LiftedOf(b, sp, i) = LiftedOf(b, st, i)
<1>1. st \in Seq(Level) /\ Len(st) \in Nat BY DEF StackOK
<1>2. ASSUME NEW i \in 1 .. Len(st) PROVE LiftedOf(b, sp, i) = LiftedOf(b, st, i)
  <2>1. \A j \in i .. Len(st) : j \in 1 .. Len(st) BY <1>1
  <2>2. \A e \in Cells : (\E j \in i .. Len(sp) : sp[j].placed # Empty /\ sp[j].cell = e)
          <=> (\E j \in i .. Len(st) : st[j].placed # Empty /\ st[j].cell = e)
    BY <2>1
  <2> QED BY <2>2 DEF LiftedOf
<1>3. ASSUME NEW i \in 1 .. Len(st) PROVE LevelOK(b, sp, i)
  <2>1. LevelOK(b, st, i) BY DEF StackOK
  <2>2. st[i].placed # Empty => \E t \in 1 .. Len(st[i].search) : t < sp[i].next_s /\ st[i].search[t] = st[i].placed
    <3> SUFFICES ASSUME st[i].placed # Empty
                 PROVE \E t \in 1 .. Len(st[i].search) : t < sp[i].next_s /\ st[i].search[t] = st[i].placed
      OBVIOUS
    <3>1. PICK t \in 1 .. Len(st[i].search) : t < st[i].next_s /\ st[i].search[t] = st[i].placed
      BY <2>1 DEF LevelOK
    <3>2. t \in Int /\ st[i].next_s \in Int /\ sp[i].next_s \in Int BY <1>1, LevelType
    <3>3. t < sp[i].next_s BY <3>1, <3>2
    <3> QED BY <3>1, <3>3
  <2> QED BY <1>2, <2>1, <2>2 DEF LevelOK
<1> QED BY <1>2, <1>3 DEF StackOK

TopPlaces(st, s) == [st EXCEPT ![Len(st)].next_s = s + 1, ![Len(st)].placed = st[Len(st)].search[s]]
TopLifts(st) == [st EXCEPT ![Len(st)].placed = Empty]

\* The top level places one of its candidates.
LEMMA StackPlace ==
  ASSUME NEW r \in Board, NEW b \in Board, Solves(b, r), NEW st, StackOK(r, b, st),
         Len(st) > 0, st[Len(st)].placed = Empty,
         NEW s \in st[Len(st)].next_s .. Len(st[Len(st)].search)
  PROVE  LET n == Len(st)
             c == st[n].cell
             p == st[n].search[s]
             d == Put(b, c, p)
             sp == TopPlaces(st, s)
         IN  /\ b[c] = Empty /\ r[c] = Empty
             /\ c \in Cells /\ p \in Compartment(what_search_in_grid_to_key(b, c)) /\ p \in Rotated
             /\ StackOK(r, d, sp) /\ AllPlaced(sp) /\ Len(sp) = n
             /\ \A i \in 1 .. n : LiftedOf(d, sp, i) = LiftedOf(b, st, i)
             /\ LiftedOf(b, st, n) = b
<1> DEFINE n == Len(st)
           c == st[n].cell
           p == st[n].search[s]
           d == Put(b, c, p)
           sp == TopPlaces(st, s)
           t == [st[n] EXCEPT !.next_s = s + 1, !.placed = p]
<1>1. st \in Seq(Level) /\ n \in Nat /\ n \in 1 .. n BY DEF StackOK
<1>2. /\ st[n] \in Level /\ c \in Cells /\ st[n].search \in Seq(Rotated) /\ Len(st[n].search) \in Nat
      /\ st[n].next_s \in Nat \ {0}
  BY <1>1, LevelType
<1>3. s \in Nat /\ s >= 1 /\ s <= Len(st[n].search) /\ st[n].search # <<>> BY <1>2
<1>4. p \in Rotated /\ p # Empty BY <1>2, <1>3, PieceType
<1>5. LiftedOf(b, st, n) = b
  <2>1. ~ \E j \in n .. Len(st) : st[j].placed # Empty BY <1>1
  <2> QED BY <2>1 DEF LiftedOf, Board
<1>6. LevelOK(b, st, n) BY <1>1 DEF StackOK
<1>7. b[c] = Empty /\ st[n].search = buildBigArray[what_search_in_grid_to_key(b, c)]
  BY <1>3, <1>5, <1>6 DEF LevelOK
<1>8. p \in Compartment(what_search_in_grid_to_key(b, c)) BY <1>2, <1>3, <1>7, KeyType, BucketIs
<1>9. r[c] = Empty BY <1>2, <1>7 DEF Solves
<1> HIDE DEF p
<1>10. /\ t \in Level /\ t.cell = c /\ t.search = st[n].search /\ t.next_s = s + 1 /\ t.placed = p
  <2>1. s + 1 \in Nat \ {0} /\ p \in Rotated \cup {Empty} BY <1>3, <1>4
  <2> DEFINE lv == st[n]
  <2>2. lv \in Level BY <1>2
  <2> HIDE DEF lv
  <2>3. [lv EXCEPT !.next_s = s + 1, !.placed = p] \in Level BY <2>1, <2>2 DEF Level
  <2>4. /\ [lv EXCEPT !.next_s = s + 1, !.placed = p].cell = lv.cell
        /\ [lv EXCEPT !.next_s = s + 1, !.placed = p].search = lv.search
        /\ [lv EXCEPT !.next_s = s + 1, !.placed = p].next_s = s + 1
        /\ [lv EXCEPT !.next_s = s + 1, !.placed = p].placed = p
    BY <2>2 DEF Level
  <2> QED BY <2>3, <2>4 DEF lv
<1>11. sp = [st EXCEPT ![n] = t] BY <1>1 DEF TopPlaces, p
<1> HIDE DEF t, sp
<1>12. sp \in Seq(Level) /\ Len(sp) = n /\ sp[n] = t /\ \A i \in 1 .. n : i # n => sp[i] = st[i]
  BY <1>1, <1>10, <1>11
<1>13. d \in Board /\ d[c] = p /\ \A e \in Cells \ {c} : d[e] = b[e] BY <1>2, <1>4 DEF Board, Put
<1> HIDE DEF d
<1>14. ASSUME NEW i \in 1 .. n, i # n
       PROVE /\ st[i].placed # Empty /\ b[st[i].cell] = st[i].placed /\ st[i].cell \in Cells \ {c}
             /\ sp[i] = st[i]
  <2>1. LevelOK(b, st, i) /\ i < n /\ st[i].cell \in Cells BY <1>1, <1>14, LevelType DEF StackOK
  <2> QED BY <1>7, <1>12, <1>14, <2>1 DEF LevelOK
<1>15. ASSUME NEW i \in 1 .. n PROVE LiftedOf(d, sp, i) = LiftedOf(b, st, i)
  <2>1. \A j \in i .. n : j = n \/ (j \in 1 .. n /\ j # n /\ sp[j] = st[j]) BY <1>1, <1>12
  <2>2. n \in i .. n BY <1>1
  <2>3. \A e \in Cells \ {c} : (\E j \in i .. n : sp[j].placed # Empty /\ sp[j].cell = e)
          <=> (\E j \in i .. n : st[j].placed # Empty /\ st[j].cell = e)
    BY <1>10, <1>12, <2>1
  <2>4. \E j \in i .. n : sp[j].placed # Empty /\ sp[j].cell = c BY <1>4, <1>10, <1>12, <2>2
  <2> QED BY <1>7, <1>12, <1>13, <2>3, <2>4 DEF LiftedOf
<1>16. ASSUME NEW i \in 1 .. n PROVE LevelOK(d, sp, i) /\ sp[i].placed # Empty
  <2>1. CASE i = n
    <3>1. sp[i] = t /\ sp[i].placed = p /\ p # Empty BY <1>4, <1>10, <1>12, <2>1
    <3>2. s \in 1 .. Len(t.search) /\ s < s + 1 /\ t.search[s] = p /\ s + 1 <= Len(t.search) + 1
      BY <1>2, <1>3, <1>10 DEF p
    <3>3. LiftedOf(d, sp, i)[c] = Empty BY <1>5, <1>7, <1>15, <2>1
    <3>4. t.search = buildBigArray[what_search_in_grid_to_key(LiftedOf(d, sp, i), c)]
      BY <1>5, <1>7, <1>10, <1>15, <2>1
    <3>5. \E v \in 1 .. Len(t.search) : v < s + 1 /\ t.search[v] = p BY <3>2
    <3> QED BY <1>10, <1>13, <3>1, <3>2, <3>3, <3>4, <3>5 DEF LevelOK
  <2>2. CASE i # n
    <3>1. LevelOK(b, st, i) BY DEF StackOK
    <3>2. d[st[i].cell] = st[i].placed BY <1>13, <1>14, <2>2
    <3> QED BY <1>14, <1>15, <2>2, <3>1, <3>2 DEF LevelOK
  <2> QED BY <2>1, <2>2
<1>17. AllPlaced(sp) BY <1>12, <1>16 DEF AllPlaced
<1>18. StackOK(r, d, sp)
  <2>1. \A i, j \in 1 .. n : sp[i].cell = sp[j].cell => i = j
    <3> TAKE i, j \in 1 .. n
    <3> HAVE sp[i].cell = sp[j].cell
    <3>1. CASE i # n /\ j # n BY <1>14, <3>1 DEF StackOK
    <3> QED BY <1>10, <1>12, <1>14, <3>1
  <2>2. \A i \in 1 .. n : r[sp[i].cell] = Empty
    <3> TAKE i \in 1 .. n
    <3>1. CASE i = n BY <1>9, <1>10, <1>12, <3>1
    <3>2. CASE i # n BY <1>14, <3>2 DEF StackOK
    <3> QED BY <3>1, <3>2
  <2> QED BY <1>12, <1>16, <2>1, <2>2 DEF StackOK
<1> QED BY <1>2, <1>4, <1>5, <1>7, <1>8, <1>9, <1>12, <1>15, <1>17, <1>18 DEF d, sp, p

\* The piece of the top level is lifted.
LEMMA StackUndo ==
  ASSUME NEW r \in Board, NEW b \in Board, Solves(b, r), NEW st, StackOK(r, b, st),
         Len(st) > 0, st[Len(st)].placed # Empty
  PROVE  LET n == Len(st)
             c == st[n].cell
             d == Put(b, c, Empty)
             sp == TopLifts(st)
         IN  /\ c \in Cells /\ st[n].placed \in Rotated /\ b[c] = st[n].placed
             /\ d \in Board /\ d[c] = Empty /\ b = Put(d, c, st[n].placed)
             /\ Solves(d, r) /\ Solves(b, d)
             /\ StackOK(r, d, sp) /\ Len(sp) = n /\ sp[n].placed = Empty
             /\ \A i \in 1 .. n : LiftedOf(d, sp, i) = LiftedOf(b, st, i)
<1> DEFINE n == Len(st)
           c == st[n].cell
           p == st[n].placed
           d == Put(b, c, Empty)
           sp == TopLifts(st)
           t == [st[n] EXCEPT !.placed = Empty]
<1>1. st \in Seq(Level) /\ n \in Nat /\ n \in 1 .. n BY DEF StackOK
<1>2. /\ st[n] \in Level /\ c \in Cells /\ p \in Rotated /\ LevelOK(b, st, n) /\ r[c] = Empty
  BY <1>1, LevelType DEF StackOK
<1>3. b[c] = p BY <1>2 DEF LevelOK
<1>4. /\ t \in Level /\ t.cell = c /\ t.search = st[n].search /\ t.next_s = st[n].next_s /\ t.placed = Empty
  BY <1>2 DEF Level
<1>5. sp \in Seq(Level) /\ Len(sp) = n /\ sp[n] = t /\ \A i \in 1 .. n : i # n => sp[i] = st[i]
  BY <1>1, <1>4 DEF TopLifts
<1>6. d \in Board /\ d[c] = Empty /\ \A e \in Cells \ {c} : d[e] = b[e] BY <1>2 DEF Board, Put
<1>7. b = Put(d, c, p) BY <1>2, <1>3 DEF Board, Put
<1> HIDE DEF t, d, sp
<1>8. Solves(d, r) /\ Solves(b, d) BY <1>2, <1>3, <1>6 DEF Solves
<1>14. ASSUME NEW i \in 1 .. n, i # n
       PROVE /\ st[i].placed # Empty /\ b[st[i].cell] = st[i].placed /\ st[i].cell \in Cells \ {c}
             /\ sp[i] = st[i]
  <2>1. LevelOK(b, st, i) /\ i < n /\ st[i].cell \in Cells BY <1>1, <1>14, LevelType DEF StackOK
  <2>2. st[i].placed # Empty BY <2>1 DEF LevelOK
  <2>3. st[i].cell # c BY <1>1, <1>14, <2>2 DEF StackOK
  <2> QED BY <1>5, <1>14, <2>1, <2>2, <2>3 DEF LevelOK
<1>15. ASSUME NEW i \in 1 .. n PROVE LiftedOf(d, sp, i) = LiftedOf(b, st, i)
  <2>1. \A j \in i .. n : j = n \/ (j \in 1 .. n /\ j # n /\ sp[j] = st[j]) BY <1>1, <1>5
  <2>2. n \in i .. n BY <1>1
  <2>3. \A e \in Cells \ {c} : (\E j \in i .. n : sp[j].placed # Empty /\ sp[j].cell = e)
          <=> (\E j \in i .. n : st[j].placed # Empty /\ st[j].cell = e)
    BY <1>4, <1>5, <2>1
  <2>4. \E j \in i .. n : st[j].placed # Empty /\ st[j].cell = c BY <1>2, <2>2
  <2> QED BY <1>5, <1>6, <2>3, <2>4 DEF LiftedOf
<1>16. ASSUME NEW i \in 1 .. n PROVE LevelOK(d, sp, i)
  <2>1. CASE i = n
    <3>1. sp[i] = t /\ Len(sp) = n /\ n \in Nat BY <1>5, <2>1
    <3>2. t.cell = st[i].cell /\ t.search = st[i].search /\ t.next_s = st[i].next_s /\ t.placed = Empty
      BY <1>2, <1>4, <2>1
    <3>3. LevelOK(b, st, i) BY DEF StackOK
    <3>4. LiftedOf(d, sp, i) = LiftedOf(b, st, i) BY <1>15
    <3>5. ~ (i < Len(sp)) BY <2>1, <3>1
    <3> QED BY <3>1, <3>2, <3>3, <3>4, <3>5 DEF LevelOK
  <2>2. CASE i # n
    <3>1. LevelOK(b, st, i) BY DEF StackOK
    <3>2. d[st[i].cell] = st[i].placed BY <1>6, <1>14, <2>2
    <3> QED BY <1>5, <1>14, <1>15, <2>2, <3>1, <3>2 DEF LevelOK
  <2> QED BY <2>1, <2>2
<1>18. StackOK(r, d, sp)
  <2>1. \A i \in 1 .. n : sp[i].placed # Empty => i # n /\ sp[i] = st[i] BY <1>4, <1>5
  <2>2. /\ \A i, j \in 1 .. n : st[i].placed # Empty /\ st[j].placed # Empty /\ st[i].cell = st[j].cell => i = j
        /\ \A i \in 1 .. n : st[i].placed # Empty => r[st[i].cell] = Empty
    BY DEF StackOK
  <2> QED BY <1>5, <1>16, <2>1, <2>2 DEF StackOK
<1> QED BY <1>2, <1>3, <1>4, <1>5, <1>6, <1>7, <1>8, <1>15, <1>18 DEF d, sp

\* No more levels than cells.
LEMMA StackBound ==
  ASSUME NEW r, NEW b \in Board, NEW st, StackOK(r, b, st), AllPlaced(st) \/ EmptyCells(b) # {}
  PROVE  Len(st) <= Parts
<1> DEFINE n == Len(st)
<1>1. st \in Seq(Level) /\ n \in Nat /\ Parts \in Nat BY CellsFinite DEF StackOK
<1>2. ASSUME NEW m \in Nat, m <= n, \A i \in 1 .. m : st[i].placed # Empty
      PROVE m <= Cardinality(Cells \ EmptyCells(b))
  <2> DEFINE f == [i \in 1 .. m |-> st[i].cell]
             S == Cells \ EmptyCells(b)
  <2>1. \A i \in 1 .. m : i \in 1 .. n BY <1>1, <1>2
  <2>2. \A i \in 1 .. m : st[i].cell \in S
    <3> TAKE i \in 1 .. m
    <3>1. i \in 1 .. n /\ LevelOK(b, st, i) /\ st[i].placed # Empty /\ st[i].cell \in Cells
      BY <1>1, <1>2, <2>1, LevelType DEF StackOK
    <3>2. b[st[i].cell] # Empty BY <3>1 DEF LevelOK
    <3> QED BY <3>1, <3>2 DEF EmptyCells
  <2>3. \A i, j \in 1 .. m : f[i] = f[j] => i = j BY <1>2, <2>1 DEF StackOK
  <2>4. f \in [1 .. m -> S] BY <2>2
  <2>5. IsFiniteSet(S) BY CellsFinite, FS_Subset
  <2> HIDE DEF f, S
  <2>6. f \in Injection(1 .. m, S) BY <2>3, <2>4, Fun_IsInj
  <2>7. Cardinality(1 .. m) <= Cardinality(S) BY <2>5, <2>6, FS_Injection
  <2>8. Cardinality(1 .. m) = m
    <3>1. 1 \in Int /\ m \in Int BY <1>2
    <3>2. Cardinality(1 .. m) = IF 1 > m THEN 0 ELSE m - 1 + 1 BY <3>1, FS_Interval, Zenon
    <3> QED BY <1>2, <3>2
  <2> QED BY <2>7, <2>8 DEF S
<1>3. Cardinality(Cells \ EmptyCells(b)) = Parts - Cardinality(EmptyCells(b))
  <2>1. IsFiniteSet(Cells) /\ Cardinality(Cells) = Parts BY CellsFinite
  <2>2. Cells \cap EmptyCells(b) = EmptyCells(b) BY DEF EmptyCells
  <2> QED BY <2>1, <2>2, FS_Difference
<1>4. Cardinality(EmptyCells(b)) \in 0 .. Parts BY EmptyCount
<1>5. CASE AllPlaced(st)
  <2>0. n \in Nat /\ n <= n /\ \A i \in 1 .. n : st[i].placed # Empty BY <1>1, <1>5 DEF AllPlaced
  <2>1. n <= Cardinality(Cells \ EmptyCells(b)) BY <1>2, <2>0
  <2> QED BY <1>1, <1>3, <1>4, <2>1
<1>6. CASE EmptyCells(b) # {}
  <2>1. Cardinality(EmptyCells(b)) # 0 BY <1>6, EmptyCount, FS_EmptySet
  <2>2. CASE n = 0 BY <1>1, <2>2
  <2>3. CASE n > 0
    <3>1. n - 1 \in Nat /\ n - 1 <= n /\ \A i \in 1 .. n - 1 : i \in 1 .. n /\ i < n BY <1>1, <2>3
    <3>2. \A i \in 1 .. n - 1 : st[i].placed # Empty BY <3>1 DEF StackOK, LevelOK
    <3>3. n - 1 <= Cardinality(Cells \ EmptyCells(b)) BY <1>2, <3>1, <3>2
    <3> QED BY <1>1, <1>3, <1>4, <2>1, <3>3
  <2> QED BY <1>1, <2>2, <2>3
<1> QED BY <1>5, <1>6

-----------------------------------------------------------------------------
(* The invariant of the engine. *)

\* The board is good and still holds its root.
BoardInv == root \in Roots /\ opt \in Options /\ GoodBoard(board) /\ Solves(board, root)
\* What is kept beside the board is what the board implies.
KeptInv ==
  /\ constraints = bt_init_constraints(board)
  /\ used = Used(board)
  /\ cell_mask = bt_mask_init(constraints)
  /\ front.weight \in Weights
  /\ front = FrontOf(board, front.weight)
\* The levels are in order; only the top one may wait for its piece, and only
\* while the engine backtracks; a board about to be expanded is not complete.
LevelsInv ==
  /\ StackOK(root, board, stack)
  /\ engPc # "backtrack" => AllPlaced(stack)
  /\ AllPlaced(stack) \/ EmptyCells(board) # {}
  /\ engPc = "choose" => EmptyCells(board) # {}
PcInv ==
  /\ engPc \in Results \cup {"node", "choose", "backtrack"}
  /\ engRequest \in {"continue", "pause", "stop"}
EngineInv == BoardInv /\ KeptInv /\ LevelsInv /\ PcInv

\* The engine sees its board complete exactly when no cell is empty.
LEMMA CompleteIs == Complete <=> EmptyCells(board) = {}
BY EmptyCount DEF Complete

\* The boards the engine starts from are boards.
LEMMA RootBoard == Roots \subseteq Board
BY SearchAssumption DEF Board

\* The choice of the cell under the invariant.
LEMMA ChoiceIs ==
  ASSUME EngineInv
  PROVE  /\ mrv_choose_cell_fast = mrv_choose_cell
         /\ mrv_choose_cell_fast # NoCell => /\ mrv_choose_cell_fast \in Cells
                                             /\ board[mrv_choose_cell_fast] = Empty
         /\ mrv_choose_cell_fast = NoCell /\ ~ Complete =>
              \E c \in EmptyCells(board) : cell_mask[c] \subseteq used
<1>1. board \in Board /\ front = FrontOf(board, front.weight) /\ front.weight \in Weights
  BY DEF EngineInv, BoardInv, KeptInv, GoodBoard
<1>2. /\ front.empty = EmptyCells(board) /\ front.empty \subseteq Cells
      /\ front.nconstr \in [Cells -> 0 .. 4]
  BY <1>1, FrontType
<1>3. front.weight \in [Cells -> 0 .. WeightMax - 1] BY <1>1 DEF Weights
<1>4. cell_mask \in [Cells -> SUBSET (1 .. Parts)]
  <2>1. <<0, 0>> \in Cells BY PuzzleAssumption DEF Cells
  <2>2. bt_mask_init(bt_init_constraints(board)) \in [Cells -> SUBSET (1 .. Parts)] BY <1>1, <2>1, MaskIs
  <2> QED BY <2>2 DEF EngineInv, KeptInv
<1>5. /\ mrv_choose_cell_fast = mrv_choose_cell
      /\ mrv_choose_cell # NoCell => mrv_choose_cell \in front.empty
      /\ mrv_choose_cell = NoCell => front.empty = {} \/ \E c \in Frontier : cell_mask[c] \subseteq used
  BY <1>2, <1>3, <1>4, FastChoice
<1>6. Frontier \subseteq front.empty BY DEF Frontier
<1>7. \A c \in EmptyCells(board) : c \in Cells /\ board[c] = Empty BY DEF EmptyCells
<1> QED BY <1>2, <1>5, <1>6, <1>7, CompleteIs

\* A run starts with all that the engine keeps up to date.
LEMMA EngineInvInit == SearchInit => EngineInv
<1> SUFFICES ASSUME SearchInit PROVE EngineInv OBVIOUS
<1> USE DEF SearchInit
<1>1. BoardInv
  <2>1. root \in Roots /\ board = root /\ GoodBoard(root) BY RootGood
  <2>2. Solves(root, root) BY DEF Solves
  <2> QED BY <2>1, <2>2 DEF BoardInv
<1>2. KeptInv
  <2>1. WeightMax \in Nat \ {0} BY SearchAssumption
  <2>2. [c \in Cells |-> 0] \in Weights BY <2>1 DEF Weights
  <2>3. front = FrontOf(board, [c \in Cells |-> 0]) BY DEF bt_frontier_init, FrontOf
  <2>4. front.weight = [c \in Cells |-> 0] BY <2>3 DEF FrontOf
  <2> QED BY <2>2, <2>3, <2>4 DEF KeptInv
<1>3. LevelsInv
  <2>1. Len(stack) = 0 /\ stack \in Seq(Level) BY EmptySeq
  <2>2. StackOK(root, board, stack) /\ AllPlaced(stack) BY <2>1 DEF StackOK, AllPlaced
  <2> QED BY <2>2 DEF LevelsInv
<1>4. PcInv BY DEF PcInv
<1> QED BY <1>1, <1>2, <1>3, <1>4 DEF EngineInv

\* Opening a level on a cell keeps the invariant (bt_search_step, descent).
LEMMA DescendInv == EngineInv /\ Descend => EngineInv'
<1> SUFFICES ASSUME EngineInv, Descend PROVE EngineInv' OBVIOUS
<1> DEFINE c == mrv_choose_cell_fast
           cell == IF c = NoCell THEN <<0, 0>> ELSE c
           search == IF c = NoCell THEN <<>> ELSE buildBigArray[constraints[c]]
           lvl == [cell |-> cell, search |-> search, next_s |-> 1, placed |-> Empty]
<1>1. /\ stack' = Append(stack, lvl) /\ engPc' = "backtrack"
      /\ UNCHANGED <<root, opt, board, constraints, used, cell_mask, front, engRequest>>
      /\ engPc # "backtrack"
      /\ EmptyCells(board) # {}
  BY CompleteIs DEF Descend, EngineInv, LevelsInv
<1>2. BoardInv' /\ KeptInv' BY <1>1 DEF EngineInv, BoardInv, KeptInv
<1>3. PcInv' BY <1>1 DEF EngineInv, PcInv
<1>4. root \in Board /\ board \in Board /\ StackOK(root, board, stack) /\ AllPlaced(stack)
  BY <1>1, RootBoard DEF EngineInv, BoardInv, LevelsInv, GoodBoard
<1>5. cell \in Cells
  <2>1. <<0, 0>> \in Cells BY PuzzleAssumption DEF Cells
  <2> QED BY <2>1, ChoiceIs
<1>6. search = <<>> \/ (board[cell] = Empty /\ search = buildBigArray[what_search_in_grid_to_key(board, cell)])
  <2>1. c # NoCell => board[c] = Empty /\ c \in Cells BY ChoiceIs
  <2>2. \A d \in Cells : constraints[d] = what_search_in_grid_to_key(board, d)
    BY DEF EngineInv, KeptInv, bt_init_constraints
  <2> QED BY <2>1, <2>2
<1> HIDE DEF cell, search
<1>7. StackOK(root, board, stack') BY <1>1, <1>4, <1>5, <1>6, StackPush
<1>8. LevelsInv' BY <1>1, <1>7 DEF LevelsInv
<1> QED BY <1>2, <1>3, <1>8 DEF EngineInv

\* Leaving an exhausted level keeps the invariant.
LEMMA PopInv == EngineInv /\ PopLevel => EngineInv'
<1> SUFFICES ASSUME EngineInv, PopLevel PROVE EngineInv' OBVIOUS
<1>1. /\ stack' = SubSeq(stack, 1, Len(stack) - 1) /\ Len(stack) > 0 /\ stack[Len(stack)].placed = Empty
      /\ UNCHANGED <<root, opt, board, constraints, used, cell_mask, front, engPc, engRequest>>
      /\ engPc = "backtrack"
  BY DEF PopLevel, Top
<1>2. BoardInv' /\ KeptInv' BY <1>1 DEF EngineInv, BoardInv, KeptInv
<1>3. PcInv' BY <1>1 DEF EngineInv, PcInv
<1>4. root \in Board /\ board \in Board /\ StackOK(root, board, stack)
  BY <1>1, RootBoard DEF EngineInv, BoardInv, LevelsInv, GoodBoard
<1>5. StackOK(root, board, stack') /\ AllPlaced(stack') BY <1>1, <1>4, StackPop
<1>6. LevelsInv' BY <1>1, <1>5 DEF LevelsInv
<1> QED BY <1>2, <1>3, <1>6 DEF EngineInv

\* Taking the piece of the top level off the board keeps the invariant: what is
\* recomputed and what is undone agree.
LEMMA UndoInv == EngineInv /\ Undo => EngineInv'
<1> SUFFICES ASSUME EngineInv, Undo PROVE EngineInv' OBVIOUS
<1> DEFINE n == Len(stack)
           c == stack[n].cell
           p == stack[n].placed
           d == Put(board, c, Empty)
           sp == TopLifts(stack)
<1>1. /\ engPc = "backtrack" /\ n > 0 /\ p # Empty
      /\ board' = d /\ used' = used \ {p[1]}
      /\ constraints' = bt_propagate_undo(constraints, c)
      /\ front' = bt_frontier_undo(front, c)
      /\ cell_mask' = bt_mask_refresh(cell_mask, constraints', c)
      /\ stack' = sp
      /\ UNCHANGED <<root, opt, engPc, engRequest>>
  BY DEF Undo, Top, Put, TopLifts
<1>2. root \in Board /\ board \in Board /\ Solves(board, root) /\ StackOK(root, board, stack) /\ GoodBoard(board)
  BY RootBoard DEF EngineInv, BoardInv, LevelsInv, GoodBoard
<1>3. /\ c \in Cells /\ p \in Rotated /\ board[c] = p
      /\ d \in Board /\ d[c] = Empty /\ board = Put(d, c, p)
      /\ Solves(d, root) /\ Solves(board, d)
      /\ StackOK(root, d, sp)
  BY <1>1, <1>2, StackUndo
<1> HIDE DEF c, p, d, sp
<1>4. GoodBoard(d) BY <1>2, <1>3, PartGood
<1>5. p[1] \notin Used(d)
  <2>1. \A e \in Cells : d[e] # Empty => e # c /\ board[e] = d[e] BY <1>3 DEF Solves
  <2>2. p # Empty BY <1>1
  <2> QED BY <1>2, <1>3, <2>1, <2>2, UsedIs DEF GoodBoard, Apart
<1>6. BoardInv' BY <1>1, <1>3, <1>4 DEF EngineInv, BoardInv
<1>7. KeptInv'
  <2>1. constraints = bt_init_constraints(board) /\ used = Used(board) /\ cell_mask = bt_mask_init(constraints)
        /\ front.weight \in Weights /\ front = FrontOf(board, front.weight)
    BY DEF EngineInv, KeptInv
  <2>2. constraints' = bt_init_constraints(d)
    <3>1. bt_propagate_undo(bt_init_constraints([d EXCEPT ![c] = p]), c) = bt_init_constraints(d)
      BY <1>3, PlaceKeys
    <3>2. board = [d EXCEPT ![c] = p] BY <1>3 DEF Put
    <3> QED BY <1>1, <2>1, <3>1, <3>2
  <2>7. board = [d EXCEPT ![c] = p] BY <1>3 DEF Put
  <2>3. used' = Used(d)
    <3>1. Used(d) = Used([d EXCEPT ![c] = p]) \ {p[1]} BY <1>3, <1>4, <1>5, PlaceUsed
    <3> QED BY <1>1, <2>1, <2>7, <3>1
  <2>4. cell_mask' = bt_mask_init(constraints')
    <3>1. bt_mask_refresh(bt_mask_init(bt_init_constraints([d EXCEPT ![c] = p])), bt_init_constraints(d), c)
            = bt_mask_init(bt_init_constraints(d))
      BY <1>3, RefreshMask
    <3> QED BY <1>1, <2>1, <2>2, <2>7, <3>1
  <2>5. front' = FrontOf(d, front.weight)
    <3>1. \A w : bt_frontier_undo(FrontOf(Put(d, c, p), w), c) = FrontOf(d, w)
      BY <1>3, <1>4, <1>5, PlaceFront
    <3>2. front' = bt_frontier_undo(FrontOf(board, front.weight), c) BY <1>1, <2>1, Zenon
    <3> QED BY <1>3, <3>1, <3>2, Zenon
  <2>6. front'.weight = front.weight BY <2>5 DEF FrontOf
  <2> QED BY <1>1, <2>1, <2>2, <2>3, <2>4, <2>5, <2>6 DEF KeptInv
<1>8. EmptyCells(d) # {} BY <1>3 DEF EmptyCells
<1>9. LevelsInv' BY <1>1, <1>3, <1>8 DEF LevelsInv
<1>10. PcInv' BY <1>1 DEF EngineInv, PcInv
<1> QED BY <1>6, <1>7, <1>9, <1>10 DEF EngineInv

-----------------------------------------------------------------------------
(* The reference: the solutions are the complete good boards. *)

\* The boards of fill[k] from those of fill[k - 1].
FillOp(x, y, boards, k) ==
  UNION {{[b EXCEPT ![CellAt(k - 1)] = p] :
            p \in {q \in Rotated :
                     /\ q[1] \notin Used(b)
                     /\ \A j \in Sides :
                          LET want == what_search_in_grid_to_key(b, CellAt(k - 1))[j]
                          IN  IF want = AllFace THEN Side(q, j) # 0 ELSE Side(q, j) = want}}
           : b \in boards}
FilledTo(x, k, boards) ==
  \A b : b \in boards <=> GoodBoard(b) /\ \A c \in Cells : b[c] # Empty <=> Pos(c) < k
Fill == INSTANCE Iteration WITH Op <- FillOp, P <- FilledTo

\* One step of the enumeration of the solutions, cell by cell.
LEMMA FillStep ==
  ASSUME NEW k \in 1 .. Parts, NEW boards, FilledTo(0, k - 1, boards)
  PROVE  FilledTo(0, k, FillOp(0, 0, boards, k))
<1> DEFINE c0 == CellAt(k - 1)
<1>1. c0 \in Cells /\ Pos(c0) = k - 1
  <2>1. k - 1 \in 0 .. Parts - 1 BY CellsFinite
  <2> QED BY <2>1, PosIs
<1>2. \A c \in Cells : Pos(c) \in Int /\ (Pos(c) = k - 1 => c = c0) BY <1>1, PosIs
<1>3. k \in Int BY CellsFinite
<1>4. \A d : d \in FillOp(0, 0, boards, k)
        <=> \E b \in boards, p \in Rotated :
              /\ p[1] \notin Used(b) /\ p \in Compartment(what_search_in_grid_to_key(b, c0))
              /\ d = Put(b, c0, p)
  BY CompartmentIs DEF FillOp, Put
<1> HIDE DEF c0
<1>5. ASSUME NEW d, d \in FillOp(0, 0, boards, k)
      PROVE GoodBoard(d) /\ \A c \in Cells : d[c] # Empty <=> Pos(c) < k
  <2>1. PICK b \in boards, p \in Rotated :
           p[1] \notin Used(b) /\ p \in Compartment(what_search_in_grid_to_key(b, c0)) /\ d = Put(b, c0, p)
    BY <1>4, <1>5
  <2>2. GoodBoard(b) /\ \A c \in Cells : b[c] # Empty <=> Pos(c) < k - 1 BY DEF FilledTo
  <2>3. b[c0] = Empty BY <1>1, <1>3, <2>2
  <2>4. GoodBoard(d) BY <1>1, <2>1, <2>2, <2>3, PlaceGood DEF Put
  <2>5. p # Empty /\ d[c0] = p /\ \A c \in Cells \ {c0} : d[c] = b[c]
    BY <1>1, <2>1, <2>2, PieceType DEF Put, GoodBoard, Board
  <2>6. ASSUME NEW c \in Cells PROVE d[c] # Empty <=> Pos(c) < k
    <3>1. CASE c = c0 BY <1>1, <1>3, <2>5, <3>1
    <3>2. CASE c # c0
      <4>1. Pos(c) # k - 1 /\ Pos(c) \in Int BY <1>2, <3>2
      <4>2. d[c] # Empty <=> Pos(c) < k - 1 BY <2>2, <2>5, <3>2
      <4> QED BY <1>3, <4>1, <4>2
    <3> QED BY <3>1, <3>2
  <2> QED BY <2>4, <2>6
<1>6. ASSUME NEW d, GoodBoard(d), \A c \in Cells : d[c] # Empty <=> Pos(c) < k
      PROVE d \in FillOp(0, 0, boards, k)
  <2> DEFINE b == Put(d, c0, Empty)
             p == d[c0]
  <2>1. /\ d \in Board /\ b \in Board /\ b[c0] = Empty /\ \A c \in Cells \ {c0} : b[c] = d[c]
        /\ d = Put(b, c0, p)
    BY <1>1, <1>6 DEF Put, GoodBoard, Board
  <2>2. p # Empty /\ p \in Rotated BY <1>1, <1>3, <1>6, <2>1 DEF Board
  <2> HIDE DEF b, p
  <2>3. Solves(d, b) BY <2>1 DEF Solves
  <2>4. GoodBoard(b) BY <1>6, <2>1, <2>3, PartGood
  <2>5. ASSUME NEW c \in Cells PROVE b[c] # Empty <=> Pos(c) < k - 1
    <3>1. CASE c = c0 BY <1>1, <1>3, <2>1, <3>1
    <3>2. CASE c # c0
      <4>1. Pos(c) # k - 1 /\ Pos(c) \in Int BY <1>2, <3>2
      <4>2. b[c] # Empty <=> Pos(c) < k BY <1>6, <2>1, <3>2
      <4> QED BY <1>3, <4>1, <4>2
    <3> QED BY <3>1, <3>2
  <2>6. b \in boards BY <2>4, <2>5 DEF FilledTo
  <2>7. p \in Compartment(what_search_in_grid_to_key(b, c0)) /\ p[1] \notin Used(b)
    BY <1>1, <1>6, <2>1, <2>2, <2>3, SolutionFits DEF p
  <2> QED BY <1>4, <2>1, <2>2, <2>6, <2>7
<1> QED BY <1>5, <1>6 DEF FilledTo

\* The enumeration finds the complete boards on which every piece is used once
\* and every neighbour agrees, and only them.
LEMMA SolutionIs ==
  \A x : x \in AllSolutions <=> x \in [Cells -> Rotated] /\ GoodBoard(x)
<1> DEFINE base == {[c \in Cells |-> Empty]}
           g == CHOOSE g : g = [k \in 0 .. Parts |-> IF k = 0 THEN base ELSE FillOp(0, 0, g[k - 1], k)]
<1>1. Fill!IsRecursion(0, 0, base, Parts, g)
  <2>1. Parts \in Nat BY CellsFinite
  <2>2. \E h : Fill!IsRecursion(0, 0, base, Parts, h) BY <2>1, Fill!RecursionExists
  <2> QED BY <2>2 DEF Fill!IsRecursion
<1>2. AllSolutions = g[Parts] BY DEF AllSolutions, FillOp
<1> HIDE DEF g
<1>3. FilledTo(0, 0, base)
  <2> DEFINE e == [c \in Cells |-> Empty]
  <2>1. e \in Board /\ \A c \in Cells : e[c] = Empty BY DEF Board
  <2>2. \A c \in Cells : Pos(c) \in Int /\ ~ (Pos(c) < 0) BY PosIs
  <2>3. \A b \in Board : (\A c \in Cells : b[c] = Empty) => b = e BY DEF Board
  <2> HIDE DEF e
  <2>4. GoodBoard(e) BY <2>1 DEF GoodBoard, Apart
  <2>5. base = {e} BY DEF e
  <2> HIDE DEF base
  <2> QED BY <2>1, <2>2, <2>3, <2>4, <2>5 DEF FilledTo, GoodBoard
<1> HIDE DEF base
<1>4. \A k \in 1 .. Parts : \A v : FilledTo(0, k - 1, v) => FilledTo(0, k, FillOp(0, 0, v, k))
  BY FillStep
<1>5. \A k \in 0 .. Parts : FilledTo(0, k, g[k])
  BY <1>1, <1>3, <1>4, CellsFinite, Fill!RecursionInduction
<1>6. FilledTo(0, Parts, AllSolutions) BY <1>2, <1>5, CellsFinite
<1>7. \A c \in Cells : Pos(c) < Parts BY PosIs
<1>8. \A x \in Board : (\A c \in Cells : x[c] # Empty) <=> x \in [Cells -> Rotated]
  <2>1. Empty \notin Rotated BY PieceType
  <2> QED BY <2>1 DEF Board
<1>9. \A x \in [Cells -> Rotated] : x \in Board BY DEF Board
<1> QED BY <1>6, <1>7, <1>8, <1>9 DEF FilledTo, GoodBoard

\* The solutions below a board are those that keep its pieces.
LEMMA BelowIs ==
  ASSUME NEW b, NEW x
  PROVE  x \in SolutionsBelow(b) <=> x \in [Cells -> Rotated] /\ GoodBoard(x) /\ Solves(x, b)
<1>1. x \in AllSolutions <=> x \in [Cells -> Rotated] /\ GoodBoard(x) BY SolutionIs
<1> QED BY <1>1 DEF SolutionsBelow


-----------------------------------------------------------------------------
(* The remaining steps of the engine. *)

\* The candidate that is tried is the first free one of the top level.
TopFree == {s \in stack[Top].next_s .. Len(stack[Top].search) : stack[Top].search[s][1] \notin used}
FirstFree == CHOOSE x \in TopFree : \A y \in TopFree : x <= y
TopCell == stack[Top].cell
TopPiece == stack[Top].search[FirstFree]
TriedBoard == Put(board, TopCell, TopPiece)
TriedKeys == bt_propagate_place(constraints, TopCell, TopPiece)
TriedMask == bt_mask_refresh(cell_mask, TriedKeys, TopCell)
DeadCell ==
  IF possibility_placed_count(TriedBoard) >= Parts THEN NoCell
  ELSE IF opt.singleton THEN bt_forward_check(TriedBoard, TriedKeys, used \cup {TopPiece[1]}, TopCell)
  ELSE bt_forward_check_fast(TriedBoard, TriedMask, used \cup {TopPiece[1]}, TopCell)
TopPasses == [stack EXCEPT ![Top].next_s = FirstFree + 1]

\* What trying the first free candidate of a level does: the forward check
\* refuses it, or it is placed.
LEMMA TryIs ==
  TryCandidate =>
    /\ engPc = "backtrack" /\ Top > 0 /\ stack[Top].placed = Empty /\ TopFree # {}
    /\ \/ /\ DeadCell # NoCell
          /\ front' = [front EXCEPT !.weight = bt_fc_failed(@, DeadCell, TopCell)]
          /\ stack' = TopPasses
          /\ UNCHANGED <<board, constraints, used, cell_mask, nodes, engPc>>
       \/ /\ DeadCell = NoCell
          /\ board' = TriedBoard /\ constraints' = TriedKeys /\ cell_mask' = TriedMask
          /\ used' = used \cup {TopPiece[1]}
          /\ front' = bt_frontier_place(front, TopCell)
          /\ stack' = TopPlaces(stack, FirstFree)
          /\ engPc' \in {"budget", "node"}
    /\ UNCHANGED <<root, opt, checks, engRequest, outcome>>
<1> SUFFICES ASSUME TryCandidate
    PROVE  /\ engPc = "backtrack" /\ Top > 0 /\ stack[Top].placed = Empty /\ TopFree # {}
           /\ \/ /\ DeadCell # NoCell
                 /\ front' = [front EXCEPT !.weight = bt_fc_failed(@, DeadCell, TopCell)]
                 /\ stack' = TopPasses
                 /\ UNCHANGED <<board, constraints, used, cell_mask, nodes, engPc>>
              \/ /\ DeadCell = NoCell
                 /\ board' = TriedBoard /\ constraints' = TriedKeys /\ cell_mask' = TriedMask
                 /\ used' = used \cup {TopPiece[1]}
                 /\ front' = bt_frontier_place(front, TopCell)
                 /\ stack' = TopPlaces(stack, FirstFree)
                 /\ engPc' \in {"budget", "node"}
           /\ UNCHANGED <<root, opt, checks, engRequest, outcome>>
  OBVIOUS
<1> QED BY ZenonT(40) DEF TryCandidate, TopFree, FirstFree, TopCell, TopPiece, TriedBoard, TriedKeys, TriedMask,
               DeadCell, TopPasses, TopPlaces, Put, Top

\* A candidate that is placed counts a node, when nodes are counted.
LEMMA TryNodes ==
  ASSUME TryCandidate, DeadCell = NoCell, opt.budget > 0
  PROVE  nodes' = nodes + 1 /\ engPc' = IF nodes' >= opt.budget THEN "budget" ELSE "node"
BY Zenon DEF TryCandidate, DeadCell, TopFree, FirstFree, TopCell, TopPiece, TriedBoard, TriedKeys, TriedMask, Put, TopPlaces, TopPasses

\* The candidate tried is the first one whose piece is free.
LEMMA FirstFreeIs ==
  ASSUME EngineInv, Top > 0, TopFree # {}
  PROVE  /\ FirstFree \in TopFree /\ \A y \in TopFree : FirstFree <= y
         /\ Top \in 1 .. Len(stack) /\ stack[Top] \in Level
         /\ stack[Top].next_s \in Nat \ {0} /\ Len(stack[Top].search) \in Nat
         /\ FirstFree \in Nat
<1>1. stack \in Seq(Level) /\ Top \in Nat /\ Top \in 1 .. Len(stack)
  BY DEF EngineInv, LevelsInv, StackOK, Top
<1>2. stack[Top] \in Level /\ stack[Top].next_s \in Nat \ {0} /\ Len(stack[Top].search) \in Nat
  BY <1>1, LevelType
<1>3. TopFree \in SUBSET Nat BY <1>2 DEF TopFree
<1>4. \E x \in TopFree : \A y \in TopFree : x <= y BY <1>3, Least
<1>5. FirstFree \in TopFree /\ \A y \in TopFree : FirstFree <= y
  <2> HIDE DEF TopFree
  <2> QED BY <1>4 DEF FirstFree
<1> QED BY <1>1, <1>2, <1>3, <1>5

\* Trying a candidate keeps the invariant.
LEMMA TryInv == EngineInv /\ TryCandidate => EngineInv'
<1> SUFFICES ASSUME EngineInv, TryCandidate PROVE EngineInv' OBVIOUS
<1> DEFINE s == FirstFree
           c == TopCell
           p == TopPiece
           d == TriedBoard
<1>1. /\ engPc = "backtrack" /\ Top > 0 /\ stack[Top].placed = Empty /\ TopFree # {}
      /\ UNCHANGED <<root, opt, engRequest>>
  BY TryIs
<1>2. /\ s \in TopFree /\ Top \in 1 .. Len(stack) /\ s \in Nat
      /\ stack[Top].next_s \in Nat \ {0} /\ Len(stack[Top].search) \in Nat /\ stack[Top] \in Level
  BY <1>1, FirstFreeIs
<1>3. s \in stack[Top].next_s .. Len(stack[Top].search) /\ p[1] \notin used BY <1>2 DEF TopFree, TopPiece
<1>4. root \in Board /\ board \in Board /\ Solves(board, root) /\ StackOK(root, board, stack) /\ GoodBoard(board)
  BY RootBoard DEF EngineInv, BoardInv, LevelsInv, GoodBoard
<1>5. /\ board[c] = Empty /\ root[c] = Empty /\ c \in Cells
      /\ p \in Compartment(what_search_in_grid_to_key(board, c)) /\ p \in Rotated
      /\ StackOK(root, d, TopPlaces(stack, s)) /\ AllPlaced(TopPlaces(stack, s))
  BY <1>1, <1>3, <1>4, StackPlace DEF Top, TopCell, TopPiece, TriedBoard
<1>6. /\ constraints = bt_init_constraints(board) /\ used = Used(board) /\ cell_mask = bt_mask_init(constraints)
      /\ front.weight \in Weights /\ front = FrontOf(board, front.weight)
  BY DEF EngineInv, KeptInv
<1>7. CASE /\ DeadCell # NoCell
           /\ front' = [front EXCEPT !.weight = bt_fc_failed(@, DeadCell, TopCell)]
           /\ stack' = TopPasses
           /\ UNCHANGED <<board, constraints, used, cell_mask, nodes, engPc>>
  <2>1. DeadCell \in Cells
    <3>1. \A b, keys, us : bt_forward_check(b, keys, us, c) # NoCell => bt_forward_check(b, keys, us, c) \in Cells
      <4> TAKE b, keys, us
      <4> DEFINE D == {k \in EmptySides(b, c) :
                \/ FreePieces(keys[Neighbour(c, k)], us) = {}
                \/ \E j \in EmptySides(b, c) :
                     /\ j < k
                     /\ \E v \in FreePieces(keys[Neighbour(c, k)], us), q \in FreePieces(keys[Neighbour(c, j)], us) :
                          FreePieces(keys[Neighbour(c, k)], us) = {v} /\ FreePieces(keys[Neighbour(c, j)], us) = {q} /\ v[1] = q[1]}
      <4>1. bt_forward_check(b, keys, us, c) = FirstDead(D, c) BY DEF bt_forward_check
      <4>2. D \in SUBSET NeighbourSides(c) BY DEF EmptySides
      <4> HIDE DEF D
      <4> QED BY <1>5, <4>1, <4>2, FirstDeadIs
    <3>2. \A b, mask, us : bt_forward_check_fast(b, mask, us, c) # NoCell => bt_forward_check_fast(b, mask, us, c) \in Cells
      <4> TAKE b, mask, us
      <4> DEFINE D == {k \in EmptySides(b, c) : mask[Neighbour(c, k)] \subseteq us}
      <4>1. bt_forward_check_fast(b, mask, us, c) = FirstDead(D, c) BY DEF bt_forward_check_fast
      <4>2. D \in SUBSET NeighbourSides(c) BY DEF EmptySides
      <4> HIDE DEF D
      <4> QED BY <1>5, <4>1, <4>2, FirstDeadIs
    <3> HIDE DEF c
    <3> QED BY <1>7, <3>1, <3>2 DEF DeadCell, c
  <2> DEFINE w == bt_fc_failed(front.weight, DeadCell, TopCell)
  <2>2. w \in Weights BY <1>5, <1>6, <2>1, FailWeights
  <2>3. front' = [front EXCEPT !.weight = w] BY <1>7
  <2> HIDE DEF w
  <2>4. front' = FrontOf(board, w)
    <3> DEFINE e == EmptyCells(board)
               n == [x \in Cells |-> NConstr(board, x)]
               m == {x \in Cells : NConstr(board, x) > 0}
    <3>1. \A v : FrontOf(board, v) = [empty |-> e, nconstr |-> n, constrained |-> m, weight |-> v] BY DEF FrontOf
    <3> HIDE DEF e, n, m
    <3> QED BY <1>6, <2>3, <3>1
  <2>5. front'.weight = w BY <2>4 DEF FrontOf
  <2>6. KeptInv' BY <1>6, <1>7, <2>2, <2>4, <2>5 DEF KeptInv
  <2>7. BoardInv' BY <1>1, <1>7 DEF EngineInv, BoardInv
  <2>8. PcInv' BY <1>1, <1>7 DEF EngineInv, PcInv
  <2>9. StackOK(root, board, TopPasses)
    <3> DEFINE t == [stack[Top] EXCEPT !.next_s = s + 1]
               n == Top
    <3>1. stack \in Seq(Level) /\ Len(stack) = n /\ n \in Nat BY <1>4 DEF StackOK, Top
    <3>2. /\ t \in Level /\ t.cell = stack[n].cell /\ t.search = stack[n].search
          /\ t.next_s = s + 1 /\ t.placed = stack[n].placed
      BY <1>2 DEF Level
    <3>3. TopPasses = [stack EXCEPT ![n] = t] BY <3>1 DEF TopPasses
    <3> HIDE DEF t, n
    <3>4. TopPasses \in Seq(Level) /\ Len(TopPasses) = n /\ TopPasses[n] = t /\ \A i \in 1 .. n : i # n => TopPasses[i] = stack[i]
      BY <1>2, <3>1, <3>2, <3>3 DEF n
    <3>5. ASSUME NEW i \in 1 .. Len(stack)
          PROVE  /\ TopPasses[i].cell = stack[i].cell /\ TopPasses[i].search = stack[i].search
                 /\ TopPasses[i].placed = stack[i].placed
                 /\ stack[i].next_s <= TopPasses[i].next_s
                 /\ TopPasses[i].next_s <= Len(stack[i].search) + 1
      <4>1. stack[i].next_s \in Nat /\ stack[i].next_s <= Len(stack[i].search) + 1
        BY <1>4, <3>1, LevelType DEF StackOK, LevelOK
      <4>2. CASE i = n BY <1>2, <1>3, <3>2, <3>4, <4>2 DEF n
      <4>3. CASE i # n BY <3>1, <3>4, <4>1, <4>3
      <4> QED BY <4>2, <4>3
    <3> QED BY <1>4, <3>1, <3>4, <3>5, StackNext
  <2>10. EmptyCells(board) # {} BY <1>5 DEF EmptyCells
  <2>11. LevelsInv' BY <1>1, <1>7, <2>9, <2>10 DEF LevelsInv
  <2> QED BY <2>6, <2>7, <2>8, <2>11 DEF EngineInv
<1>8. CASE /\ board' = TriedBoard /\ constraints' = TriedKeys /\ cell_mask' = TriedMask
           /\ used' = used \cup {TopPiece[1]}
           /\ front' = bt_frontier_place(front, TopCell)
           /\ stack' = TopPlaces(stack, FirstFree)
           /\ engPc' \in {"budget", "node"}
  <2> DEFINE st == TopPlaces(stack, s)
  <2>0. p[1] \notin Used(board) BY <1>3, <1>6
  <2>1. GoodBoard(d) BY <1>4, <1>5, <2>0, PlaceGood DEF TriedBoard, Put
  <2>2. Solves(d, root) BY <1>4, <1>5 DEF TriedBoard, Put, Solves, Board
  <2>3. BoardInv' BY <1>1, <1>8, <2>1, <2>2 DEF EngineInv, BoardInv
  <2>4. TriedKeys = bt_init_constraints(d)
    BY <1>4, <1>5, <1>6, PlaceKeys DEF TriedKeys, TriedBoard, Put
  <2>5. TriedMask = bt_mask_init(bt_init_constraints(d))
    BY <1>4, <1>5, <1>6, <2>4, RefreshMask DEF TriedMask, TriedBoard, Put
  <2>6. used \cup {p[1]} = Used(d) BY <1>4, <1>5, <1>6, <2>0, PlaceUsed DEF TriedBoard, Put
  <2>7. front' = FrontOf(d, front.weight)
    <3>1. \A w : bt_frontier_place(FrontOf(board, w), c) = FrontOf(Put(board, c, p), w)
      BY <1>4, <1>5, <2>0, PlaceFront
    <3>2. front' = bt_frontier_place(FrontOf(board, front.weight), c) BY <1>6, <1>8, Zenon
    <3> QED BY <3>1, <3>2, Zenon DEF TriedBoard
  <2>8. front'.weight = front.weight BY <2>7 DEF FrontOf
  <2>9. KeptInv' BY <1>6, <1>8, <2>4, <2>5, <2>6, <2>7, <2>8 DEF KeptInv
  <2>10. LevelsInv' BY <1>1, <1>5, <1>8 DEF LevelsInv
  <2>11. PcInv' BY <1>1, <1>8 DEF EngineInv, PcInv, Results
  <2> QED BY <2>3, <2>9, <2>10, <2>11 DEF EngineInv
<1> QED BY <1>7, <1>8, TryIs

-----------------------------------------------------------------------------
(* The candidates left to the levels, and the boards they give. *)

\* The board of candidate s of level i.
Emitted(i, s) == [Lifted(i) EXCEPT ![stack[i].cell] = stack[i].search[s]]
Left(i) == stack[i].next_s .. Len(stack[i].search)

\* What the invariant says of the board and of the stack.
LEMMA StackIs ==
  ASSUME EngineInv
  PROVE  /\ root \in Board /\ board \in Board /\ GoodBoard(board) /\ Solves(board, root)
         /\ StackOK(root, board, stack) /\ stack \in Seq(Level)
         /\ Top \in Nat /\ Top = Len(stack)
BY RootBoard DEF EngineInv, BoardInv, LevelsInv, GoodBoard, StackOK, Top

\* What the invariant says of one level.
LEMMA LevelIs ==
  ASSUME EngineInv, NEW i \in 1 .. Top
  PROVE  /\ stack[i].cell \in Cells /\ stack[i].search \in Seq(Rotated) /\ Len(stack[i].search) \in Nat
         /\ stack[i].next_s \in Nat \ {0} /\ stack[i].next_s <= Len(stack[i].search) + 1
         /\ Lifted(i) = LiftedOf(board, stack, i)
         /\ Lifted(i) \in Board /\ Solves(board, Lifted(i)) /\ GoodBoard(Lifted(i))
         /\ Solves(Lifted(i), root)
<1>1. i \in 1 .. Len(stack) /\ stack \in Seq(Level) /\ LevelOK(board, stack, i) BY StackIs DEF StackOK
<1>2. stack[i].next_s <= Len(stack[i].search) + 1 BY <1>1 DEF LevelOK
<1>3. Lifted(i) = LiftedOf(board, stack, i) BY LiftedIs
<1>4. Lifted(i) \in Board /\ Solves(board, Lifted(i)) BY <1>3, StackIs, LiftedBoard
<1>5. GoodBoard(Lifted(i)) BY <1>4, StackIs, PartGood
<1>6. Solves(Lifted(i), root)
  <2>1. ASSUME NEW e \in Cells PROVE root[e] \in {Empty, Lifted(i)[e]}
    <3>1. root[e] \in {Empty, board[e]} BY StackIs DEF Solves
    <3>2. CASE \E j \in i .. Top : stack[j].placed # Empty /\ stack[j].cell = e
      <4>1. PICK j \in i .. Top : stack[j].placed # Empty /\ stack[j].cell = e BY <3>2
      <4>2. j \in 1 .. Len(stack) BY <1>1, StackIs
      <4> QED BY <4>1, <4>2, StackIs DEF StackOK
    <3>3. CASE ~ \E j \in i .. Top : stack[j].placed # Empty /\ stack[j].cell = e
      <4>1. Lifted(i)[e] = board[e] BY <3>3 DEF Lifted
      <4> QED BY <3>1, <4>1
    <3> QED BY <3>2, <3>3
  <2> QED BY <2>1 DEF Solves
<1> QED BY <1>1, <1>2, <1>3, <1>4, <1>5, <1>6, LevelType

\* A candidate is a piece of the compartment of its cell, which is empty.
LEMMA LeftIs ==
  ASSUME EngineInv, NEW i \in 1 .. Top, NEW s \in 1 .. Len(stack[i].search)
  PROVE  /\ Lifted(i)[stack[i].cell] = Empty
         /\ stack[i].search[s] \in Compartment(what_search_in_grid_to_key(Lifted(i), stack[i].cell))
         /\ stack[i].search[s] \in Rotated /\ stack[i].search[s] # Empty
         /\ \A t \in 1 .. Len(stack[i].search) : stack[i].search[t] = stack[i].search[s] => t = s
         /\ \A p \in Compartment(what_search_in_grid_to_key(Lifted(i), stack[i].cell)) :
              \E t \in 1 .. Len(stack[i].search) : stack[i].search[t] = p
<1> DEFINE c == stack[i].cell
           key == what_search_in_grid_to_key(Lifted(i), c)
<1>1. i \in 1 .. Len(stack) /\ stack \in Seq(Level) /\ LevelOK(board, stack, i) BY StackIs DEF StackOK
<1>2. stack[i].search # <<>> /\ c \in Cells /\ stack[i].search \in Seq(Rotated) BY LevelIs
<1>3. Lifted(i)[c] = Empty /\ stack[i].search = buildBigArray[key] BY <1>1, <1>2, LevelIs DEF LevelOK
<1>4. key \in Keys BY <1>2, LevelIs, KeyType
<1>5. stack[i].search[s] \in Compartment(key) /\ stack[i].search[s] \in Rotated BY <1>3, <1>4, BucketIs
<1>6. \A t \in 1 .. Len(stack[i].search) : stack[i].search[t] = stack[i].search[s] => t = s
  BY <1>3, <1>4, BucketIs
<1>7. \A p \in Compartment(key) : \E t \in 1 .. Len(stack[i].search) : stack[i].search[t] = p
  BY <1>3, <1>4, BucketIs
<1> QED BY <1>3, <1>5, <1>6, <1>7, PieceType

\* A compartment holds a piece once.
LEMMA LeftOne ==
  ASSUME EngineInv, NEW i \in 1 .. Top,
         NEW s \in 1 .. Len(stack[i].search), NEW t \in 1 .. Len(stack[i].search),
         stack[i].search[s] = stack[i].search[t]
  PROVE  s = t
<1>1. \A w \in 1 .. Len(stack[i].search) : stack[i].search[w] = stack[i].search[s] => w = s BY LeftIs
<1> QED BY <1>1

\* The solutions under the board of a candidate are those that agree with the
\* board of its level and hold its piece.
LEMMA RegionIs ==
  ASSUME EngineInv, NEW i \in 1 .. Top, NEW s \in Left(i)
  PROVE  /\ s \in 1 .. Len(stack[i].search)
         /\ Emitted(i, s) \in Board
         /\ \A x : x \in SolutionsBelow(Emitted(i, s))
               <=> x \in AllSolutions /\ Solves(x, Lifted(i)) /\ x[stack[i].cell] = stack[i].search[s]
<1> DEFINE c == stack[i].cell
           p == stack[i].search[s]
<1>1. s \in 1 .. Len(stack[i].search) BY LevelIs DEF Left
<1>2. Lifted(i)[c] = Empty /\ p \in Rotated /\ p # Empty /\ c \in Cells /\ Lifted(i) \in Board
  BY <1>1, LeftIs, LevelIs
<1> HIDE DEF c, p
<1>3. Emitted(i, s) = Put(Lifted(i), c, p) BY DEF Emitted, Put, c, p
<1>4. /\ Put(Lifted(i), c, p) \in Board /\ Put(Lifted(i), c, p)[c] = p
      /\ \A e \in Cells \ {c} : Put(Lifted(i), c, p)[e] = Lifted(i)[e]
  BY <1>2 DEF Board, Put
<1>5. \A x : Solves(x, Put(Lifted(i), c, p)) <=> Solves(x, Lifted(i)) /\ x[c] = p
  BY <1>2, <1>4 DEF Solves
<1> QED BY <1>1, <1>3, <1>4, <1>5 DEF SolutionsBelow, c, p

\* A pending candidate gives a good board above the root; the others give no
\* solution.
LEMMA PendingIs ==
  ASSUME EngineInv, NEW i \in 1 .. Top, NEW s \in Left(i)
  PROVE  /\ s \in PendingAt(i) => GoodBoard(Emitted(i, s)) /\ Solves(Emitted(i, s), root)
         /\ s \notin PendingAt(i) => SolutionsBelow(Emitted(i, s)) = {}
<1> DEFINE c == stack[i].cell
           p == stack[i].search[s]
<1>1. s \in 1 .. Len(stack[i].search) BY RegionIs
<1>2. /\ Lifted(i)[c] = Empty /\ p \in Rotated /\ p # Empty /\ c \in Cells
      /\ p \in Compartment(what_search_in_grid_to_key(Lifted(i), c))
      /\ GoodBoard(Lifted(i)) /\ Lifted(i) \in Board /\ Solves(Lifted(i), root)
  BY <1>1, LeftIs, LevelIs
<1>3. s \in PendingAt(i) <=> p[1] \notin Used(Lifted(i)) BY DEF PendingAt, Left
<1>4. Emitted(i, s) = Put(Lifted(i), c, p) BY DEF Emitted, Put
<1> HIDE DEF c, p
<1>5. ASSUME s \in PendingAt(i) PROVE GoodBoard(Emitted(i, s)) /\ Solves(Emitted(i, s), root)
  <2>1. GoodBoard(Put(Lifted(i), c, p)) BY <1>2, <1>3, <1>5, PlaceGood DEF Put
  <2>2. Solves(Put(Lifted(i), c, p), root)
    <3>1. root[c] = Empty BY <1>2 DEF Solves
    <3> QED BY <1>2, <3>1 DEF Solves, Put, Board
  <2> QED BY <1>4, <2>1, <2>2
<1>6. ASSUME s \notin PendingAt(i), NEW x \in SolutionsBelow(Emitted(i, s)) PROVE FALSE
  <2>1. x \in AllSolutions /\ Solves(x, Lifted(i)) /\ x[c] = p BY RegionIs DEF c, p
  <2>2. GoodBoard(x) BY <2>1, SolutionIs
  <2>3. x[c][1] \notin Used(Lifted(i)) BY <1>2, <2>1, <2>2, SolutionFits
  <2> QED BY <1>3, <1>6, <2>1, <2>3
<1> QED BY <1>5, <1>6

\* Two candidates share no solution: the brothers are different pieces, and a
\* deeper level holds the piece that the upper one has placed.
LEMMA RegionsApart ==
  ASSUME EngineInv, NEW i \in 1 .. Top, NEW s \in Left(i), NEW j \in 1 .. Top, NEW t \in Left(j),
         NEW x, x \in SolutionsBelow(Emitted(i, s)), x \in SolutionsBelow(Emitted(j, t))
  PROVE  i = j /\ s = t
<1>1. ASSUME NEW k \in 1 .. Top, NEW u \in Left(k), NEW l \in 1 .. Top, k < l,
             x \in SolutionsBelow(Emitted(k, u)), NEW v \in Left(l), x \in SolutionsBelow(Emitted(l, v))
      PROVE FALSE
  <2> DEFINE c == stack[k].cell
  <2>1. x[c] = stack[k].search[u] /\ u \in 1 .. Len(stack[k].search) /\ Solves(x, Lifted(l))
    BY <1>1, RegionIs
  <2>2. k \in 1 .. Len(stack) /\ k < Len(stack) /\ c \in Cells BY <1>1, StackIs, LevelIs
  <2>3. LevelOK(board, stack, k) BY <2>2, StackIs DEF StackOK
  <2>4. stack[k].placed # Empty /\ board[c] = stack[k].placed BY <2>2, <2>3 DEF LevelOK
  <2>5. PICK w \in 1 .. Len(stack[k].search) : w < stack[k].next_s /\ stack[k].search[w] = stack[k].placed
    BY <2>3, <2>4 DEF LevelOK
  <2>6. Lifted(l)[c] = board[c]
    <3>1. ~ \E m \in l .. Top : stack[m].placed # Empty /\ stack[m].cell = c
      <4> SUFFICES ASSUME NEW m \in l .. Top, stack[m].placed # Empty, stack[m].cell = c PROVE FALSE OBVIOUS
      <4>1. m \in 1 .. Len(stack) /\ m # k BY <1>1, StackIs
      <4> QED BY <2>2, <2>4, <4>1, StackIs DEF StackOK
    <3> QED BY <2>2, <3>1 DEF Lifted
  <2>7. x[c] = stack[k].placed BY <2>1, <2>2, <2>4, <2>6 DEF Solves
  <2>8. w = u BY <2>1, <2>5, <2>7, LeftOne
  <2>9. stack[k].next_s \in Nat /\ Len(stack[k].search) \in Nat BY LevelIs
  <2>10. u >= stack[k].next_s /\ u \in Nat
    <3>1. u \in stack[k].next_s .. Len(stack[k].search) BY DEF Left
    <3> HIDE DEF c
    <3> QED BY <2>9, <3>1
  <2> QED BY <2>5, <2>8, <2>9, <2>10
<1>2. i = j BY <1>1, StackIs
<1>3. x[stack[i].cell] = stack[i].search[s] /\ x[stack[i].cell] = stack[i].search[t]
      /\ s \in 1 .. Len(stack[i].search) /\ t \in 1 .. Len(stack[i].search)
  BY <1>2, RegionIs
<1>4. s = t BY <1>2, <1>3, LeftOne
<1> QED BY <1>2, <1>4

\* While every level holds a piece, no candidate shares a solution with the board.
LEMMA RegionApartFromBoard ==
  ASSUME EngineInv, AllPlaced(stack), NEW i \in 1 .. Top, NEW s \in Left(i),
         NEW x, x \in SolutionsBelow(Emitted(i, s))
  PROVE  ~ Solves(x, board)
<1> SUFFICES ASSUME Solves(x, board) PROVE FALSE OBVIOUS
<1> DEFINE c == stack[i].cell
<1>1. x[c] = stack[i].search[s] /\ s \in 1 .. Len(stack[i].search) BY RegionIs
<1>2. i \in 1 .. Len(stack) /\ c \in Cells BY StackIs, LevelIs
<1>3. LevelOK(board, stack, i) /\ stack[i].placed # Empty BY <1>2, StackIs DEF StackOK, AllPlaced
<1>4. PICK w \in 1 .. Len(stack[i].search) : w < stack[i].next_s /\ stack[i].search[w] = stack[i].placed
  BY <1>3 DEF LevelOK
<1>5. board[c] = stack[i].placed BY <1>3 DEF LevelOK
<1>6. x[c] = stack[i].placed BY <1>2, <1>3, <1>5 DEF Solves
<1>7. w = s BY <1>1, <1>4, <1>6, LeftOne
<1>8. s >= stack[i].next_s /\ stack[i].next_s \in Nat BY LevelIs DEF Left
<1> QED BY <1>4, <1>7, <1>8

-----------------------------------------------------------------------------
(* What bt_materialize_pending takes out of the levels. *)

Filled(b) == EmptyCells(b) = {}
EmitType == [out : SUBSET Board, solved : SUBSET Board, next : [1 .. Top -> Nat]]
\* Candidate s of level i has been passed.
Passed(r, i, s) == s < r.next[i]
\* The boards taken are those of pending candidates that have been passed, the
\* complete ones apart; no solution under a candidate passed is left behind.
EmitInv(r) ==
  /\ r \in EmitType
  /\ \A j \in 1 .. Top : stack[j].next_s <= r.next[j] /\ r.next[j] <= Len(stack[j].search) + 1
  /\ \A b \in r.out \cup r.solved :
       \E i \in 1 .. Top : \E s \in Left(i) : s \in PendingAt(i) /\ Passed(r, i, s) /\ b = Emitted(i, s)
  /\ \A b \in r.out : ~ Filled(b)
  /\ \A b \in r.solved : Filled(b)
  /\ \A i \in 1 .. Top : \A s \in Left(i) : Passed(r, i, s) =>
       \A x \in SolutionsBelow(Emitted(i, s)) :
         x \in r.solved \/ \E b \in r.out : x \in SolutionsBelow(b)
\* Each board sent is that of another pending candidate.
PendingPairs == {q \in (1 .. Top) \X Nat : q[2] \in Left(q[1]) /\ q[2] \in PendingAt(q[1])}
EmitCount(r) ==
  /\ IsFiniteSet(r.out)
  /\ Cardinality(r.out) <= Cardinality({q \in PendingPairs : Passed(r, q[1], q[2])})
Full(max, r) == Cardinality(r.out) >= max

\* After n candidates of level i, the deeper levels being finished.
EmitAt(x, n, r) ==
  LET max == x[1]
      i == x[2]
  IN  /\ EmitInv(r) /\ EmitCount(r)
      /\ Full(max, r) \/ (r.next[i] = stack[i].next_s + n
                          /\ \A j \in i + 1 .. Top : r.next[j] = Len(stack[j].search) + 1)
      /\ \A j \in 1 .. i - 1 : r.next[j] = stack[j].next_s
\* After the n deepest levels.
LevelAt(max, n, r) ==
  /\ EmitInv(r) /\ EmitCount(r)
  /\ Full(max, r) \/ \A j \in Top - n + 1 .. Top : r.next[j] = Len(stack[j].search) + 1
  /\ \A j \in 1 .. Top - n : r.next[j] = stack[j].next_s

\* A board is complete when it is counted so.
LEMMA FilledIs ==
  ASSUME NEW b
  PROVE  Filled(b) <=> possibility_placed_count(b) >= Parts
BY EmptyCount DEF Filled

\* Nothing is under a board that forward_check_next_k refuses.
LEMMA RefusedIsDead ==
  ASSUME NEW b \in Board, ~ forward_check_next_k(b)
  PROVE  SolutionsBelow(b) = {}
<1> SUFFICES ASSUME NEW x \in SolutionsBelow(b) PROVE FALSE OBVIOUS
<1>1. PICK c \in EmptyCells(b) : FreePieces(what_search_in_grid_to_key(b, c), Used(b)) = {}
  BY DEF forward_check_next_k
<1>2. x \in [Cells -> Rotated] /\ GoodBoard(x) /\ Solves(x, b) BY BelowIs
<1>3. c \in Cells /\ b[c] = Empty BY DEF EmptyCells
<1>4. x[c] # Empty BY <1>2, <1>3, PieceType
<1>5. x[c] \in Compartment(what_search_in_grid_to_key(b, c)) /\ x[c][1] \notin Used(b)
  BY <1>2, <1>3, <1>4, SolutionFits
<1>6. what_search_in_grid_to_key(b, c) \in Keys BY <1>3, KeyType
<1>7. Range(buildBigArray[what_search_in_grid_to_key(b, c)]) = Compartment(what_search_in_grid_to_key(b, c))
  BY <1>6, BucketIs
<1> QED BY <1>1, <1>5, <1>7 DEF FreePieces

\* One candidate: what moves from r to q.
EmitMoves(i, s, r, q) ==
  /\ q \in EmitType /\ q.next = [r.next EXCEPT ![i] = s + 1]
  /\ \/ s \notin PendingAt(i) /\ q.out = r.out /\ q.solved = r.solved
     \/ /\ s \in PendingAt(i) /\ Filled(Emitted(i, s))
        /\ q.out = r.out /\ q.solved = r.solved \cup {Emitted(i, s)}
     \/ /\ s \in PendingAt(i) /\ ~ Filled(Emitted(i, s))
        /\ q.out = r.out \cup {Emitted(i, s)} /\ q.solved = r.solved
     \/ ~ forward_check_next_k(Emitted(i, s)) /\ q.out = r.out /\ q.solved = r.solved
\* Handing out one candidate: nothing once the packet is full, otherwise the
\* candidate leaves its level (bt_materialize_pending).
LEMMA EmitOneIs ==
  ASSUME EngineInv, NEW max, NEW i \in 1 .. Top, NEW s \in Left(i), NEW r \in EmitType
  PROVE  /\ Full(max, r) => EmitOne(max, i, r, s) = r
         /\ ~ Full(max, r) => EmitMoves(i, s, r, EmitOne(max, i, r, s))
<1> DEFINE b == Emitted(i, s)
           q == EmitOne(max, i, r, s)
           nx == [r.next EXCEPT ![i] = s + 1]
<1>1. b \in Board /\ s \in Nat BY RegionIs
<1>2. r.out \in SUBSET Board /\ r.solved \in SUBSET Board /\ r.next \in [1 .. Top -> Nat] BY DEF EmitType
<1>3. nx \in [1 .. Top -> Nat] BY <1>1, <1>2
<1>4. q = IF Full(max, r) THEN r
          ELSE IF s \notin PendingAt(i) THEN [r EXCEPT !.next[i] = s + 1]
          ELSE IF Filled(b) THEN [r EXCEPT !.next[i] = s + 1, !.solved = @ \cup {b}]
          ELSE IF forward_check_next_k(b) THEN [r EXCEPT !.next[i] = s + 1, !.out = @ \cup {b}]
          ELSE [r EXCEPT !.next[i] = s + 1]
  <2>1. possibility_placed_count(b) >= Parts <=> Filled(b) BY FilledIs
  <2> QED BY <2>1 DEF EmitOne, Full, Emitted
<1> HIDE DEF b, q
<1>5. LET v == [r EXCEPT !.next[i] = s + 1]
      IN  v \in EmitType /\ v.next = nx /\ v.out = r.out /\ v.solved = r.solved
  BY <1>2, <1>3 DEF EmitType
<1>6. LET v == [r EXCEPT !.next[i] = s + 1, !.solved = @ \cup {b}]
      IN  v \in EmitType /\ v.next = nx /\ v.out = r.out /\ v.solved = r.solved \cup {b}
  BY <1>1, <1>2, <1>3 DEF EmitType
<1>7. LET v == [r EXCEPT !.next[i] = s + 1, !.out = @ \cup {b}]
      IN  v \in EmitType /\ v.next = nx /\ v.out = r.out \cup {b} /\ v.solved = r.solved
  BY <1>1, <1>2, <1>3 DEF EmitType
<1> HIDE DEF nx
<1>8. CASE Full(max, r) BY <1>4, <1>8 DEF q
<1>9. CASE ~ Full(max, r) /\ s \notin PendingAt(i)
  BY <1>4, <1>5, <1>9 DEF q, nx, EmitMoves
<1>10. CASE ~ Full(max, r) /\ s \in PendingAt(i) /\ Filled(b)
  BY <1>4, <1>6, <1>10 DEF q, nx, b, EmitMoves
<1>11. CASE ~ Full(max, r) /\ s \in PendingAt(i) /\ ~ Filled(b) /\ forward_check_next_k(b)
  BY <1>4, <1>7, <1>11 DEF q, nx, b, EmitMoves
<1>12. CASE ~ Full(max, r) /\ s \in PendingAt(i) /\ ~ Filled(b) /\ ~ forward_check_next_k(b)
  BY <1>4, <1>5, <1>12 DEF q, nx, b, EmitMoves
<1> QED BY <1>8, <1>9, <1>10, <1>11, <1>12

\* A set that holds 0 and the successor of each number it holds, up to n, holds
\* the numbers up to n.
LEMMA UpToSet ==
  ASSUME NEW n \in Nat, NEW S, 0 \in S, \A k \in 0 .. n - 1 : k \in S => k + 1 \in S
  PROVE  0 .. n \subseteq S
<1> SUFFICES ASSUME (0 .. n) \ S # {} PROVE FALSE OBVIOUS
<1>0. (0 .. n) \ S \in SUBSET Nat OBVIOUS
<1>1. PICK k \in (0 .. n) \ S : \A m \in (0 .. n) \ S : k <= m BY <1>0, Least
<1>2. k - 1 \in 0 .. n - 1 BY <1>1
<1>3. k - 1 \in S BY <1>1, <1>2
<1> QED BY <1>1, <1>2, <1>3

\* There are finitely many candidates to hand out.
LEMMA PairsFinite ==
  ASSUME EngineInv
  PROVE  \A r : LET S == {q \in PendingPairs : Passed(r, q[1], q[2])}
                IN  IsFiniteSet(S) /\ Cardinality(S) \in Nat /\ Cardinality(S) <= Cardinality(PendingPairs)
                    /\ IsFiniteSet(PendingPairs)
<1> DEFINE Upto(n) == {q \in PendingPairs : q[1] \in 1 .. n}
           Q == {n \in 0 .. Top : IsFiniteSet(Upto(n))}
<1>1. Top \in Nat BY StackIs
<1>2. 0 \in Q
  <2>1. Upto(0) = {} OBVIOUS
  <2> HIDE DEF Upto
  <2> QED BY <1>1, <2>1, FS_EmptySet
<1>3. ASSUME NEW n \in 0 .. Top - 1, n \in Q PROVE n + 1 \in Q
  <2> DEFINE L == Left(n + 1)
             S == {n + 1} \X L
  <2>1. IsFiniteSet(L)
    <3>1. n + 1 \in 1 .. Top BY <1>1
    <3>2. stack[n + 1].next_s \in Int /\ Len(stack[n + 1].search) \in Int BY <3>1, LevelIs
    <3> QED BY <3>2, Interval DEF Left
  <2>2. IsFiniteSet(S) BY <2>1, FS_Singleton, FS_Product
  <2>3. IsFiniteSet(Upto(n) \cup S) BY <1>3, <2>2, FS_Union
  <2>4. Upto(n + 1) \subseteq Upto(n) \cup S
    <3> SUFFICES ASSUME NEW q \in PendingPairs, q[1] \in 1 .. n + 1 PROVE q \in Upto(n) \/ q \in S OBVIOUS
    <3>1. q = <<q[1], q[2]>> /\ q[2] \in Left(q[1]) BY DEF PendingPairs
    <3>2. q[1] \in 1 .. n \/ q[1] = n + 1 BY <1>1
    <3> QED BY <3>1, <3>2
  <2>5. IsFiniteSet(Upto(n + 1)) BY <2>3, <2>4, FS_Subset
  <2> HIDE DEF Upto
  <2> QED BY <1>1, <2>5
<1> HIDE DEF Q
<1>4. 0 .. Top \subseteq Q BY <1>1, <1>2, <1>3, UpToSet
<1>5. IsFiniteSet(Upto(Top)) BY <1>1, <1>4 DEF Q
<1>6. Upto(Top) = PendingPairs BY DEF PendingPairs
<1>7. IsFiniteSet(PendingPairs) BY <1>5, <1>6
<1> QED
  <2> TAKE r
  <2> DEFINE S == {q \in PendingPairs : Passed(r, q[1], q[2])}
  <2>1. S \in SUBSET PendingPairs OBVIOUS
  <2> HIDE DEF S
  <2>2. IsFiniteSet(S) /\ Cardinality(S) <= Cardinality(PendingPairs) BY <1>7, <2>1, FS_Subset
  <2>3. Cardinality(S) \in Nat BY <2>2, FS_CardinalityType
  <2> QED BY <1>7, <2>2, <2>3 DEF S

\* One candidate keeps the invariant of the extraction.
LEMMA EmitKeepsInv ==
  ASSUME EngineInv, NEW max, NEW i \in 1 .. Top, NEW s \in Left(i), NEW r, EmitInv(r), EmitCount(r),
         Full(max, r) \/ r.next[i] = s
  PROVE  LET q == EmitOne(max, i, r, s)
         IN  /\ EmitInv(q) /\ EmitCount(q)
             /\ Full(max, r) => q = r
             /\ ~ Full(max, r) => q.next[i] = s + 1
             /\ \A j \in 1 .. Top : j # i => q.next[j] = r.next[j]
<1> DEFINE q == EmitOne(max, i, r, s)
           b == Emitted(i, s)
<1>1. CASE Full(max, r)
  <2>1. q = r BY <1>1, EmitOneIs DEF EmitInv
  <2> QED BY <1>1, <2>1
<1>2. CASE ~ Full(max, r)
  <2>0. r \in EmitType BY DEF EmitInv
  <2>1. /\ q \in EmitType /\ q.next = [r.next EXCEPT ![i] = s + 1]
        /\ \/ s \notin PendingAt(i) /\ q.out = r.out /\ q.solved = r.solved
           \/ s \in PendingAt(i) /\ Filled(b) /\ q.out = r.out /\ q.solved = r.solved \cup {b}
           \/ s \in PendingAt(i) /\ ~ Filled(b) /\ q.out = r.out \cup {b} /\ q.solved = r.solved
           \/ ~ forward_check_next_k(b) /\ q.out = r.out /\ q.solved = r.solved
    <3>1. EmitMoves(i, s, r, EmitOne(max, i, r, s)) BY <1>2, <2>0, EmitOneIs
    <3> QED BY <3>1 DEF EmitMoves
  <2>2. r.next[i] = s /\ r \in EmitType /\ r.next \in [1 .. Top -> Nat] BY <1>2 DEF EmitInv, EmitType
  <2>3. s \in 1 .. Len(stack[i].search) /\ s \in Nat /\ b \in Board
        /\ stack[i].next_s \in Nat /\ Len(stack[i].search) \in Nat /\ stack[i].next_s <= s
    BY RegionIs, LevelIs DEF Left
  <2> HIDE DEF q, b
  <2>4. q.next[i] = s + 1 /\ \A j \in 1 .. Top : j # i => q.next[j] = r.next[j] BY <2>1, <2>2
  <2>5. \A j \in 1 .. Top : stack[j].next_s <= q.next[j] /\ q.next[j] <= Len(stack[j].search) + 1
    <3> TAKE j \in 1 .. Top
    <3>1. CASE j = i BY <2>3, <2>4, <3>1
    <3>2. CASE j # i BY <2>4, <3>2 DEF EmitInv
    <3> QED BY <3>1, <3>2
  <2>6. \A j \in 1 .. Top : \A t \in Left(j) : Passed(q, j, t) <=> Passed(r, j, t) \/ (j = i /\ t = s)
    <3> TAKE j \in 1 .. Top
    <3> TAKE t \in Left(j)
    <3>1. t \in Nat BY RegionIs, LevelIs
    <3>2. CASE j = i BY <2>2, <2>3, <2>4, <3>1, <3>2 DEF Passed
    <3>3. CASE j # i BY <2>4, <3>3 DEF Passed
    <3> QED BY <3>2, <3>3
  <2>7. \A e \in q.out \cup q.solved :
          \E j \in 1 .. Top : \E t \in Left(j) : t \in PendingAt(j) /\ Passed(q, j, t) /\ e = Emitted(j, t)
    <3> TAKE e \in q.out \cup q.solved
    <3>1. CASE e \in r.out \cup r.solved BY <2>6, <3>1 DEF EmitInv
    <3>2. CASE e \notin r.out \cup r.solved
      <4>1. e = b /\ s \in PendingAt(i) BY <2>1, <3>2
      <4>2. Passed(q, i, s) BY <2>6
      <4> QED BY <4>1, <4>2 DEF b
    <3> QED BY <3>1, <3>2
  <2>8. (\A e \in q.out : ~ Filled(e)) /\ (\A e \in q.solved : Filled(e)) BY <2>1 DEF EmitInv
  <2>9. \A j \in 1 .. Top : \A t \in Left(j) : Passed(q, j, t) =>
          \A x \in SolutionsBelow(Emitted(j, t)) : x \in q.solved \/ \E e \in q.out : x \in SolutionsBelow(e)
    <3> TAKE j \in 1 .. Top
    <3> TAKE t \in Left(j)
    <3> HAVE Passed(q, j, t)
    <3> TAKE x \in SolutionsBelow(Emitted(j, t))
    <3>0. r.out \subseteq q.out /\ r.solved \subseteq q.solved BY <2>1
    <3>1. CASE Passed(r, j, t) BY <3>0, <3>1 DEF EmitInv
    <3>2. CASE ~ Passed(r, j, t)
      <4>1. j = i /\ t = s /\ x \in SolutionsBelow(b) BY <2>6, <3>2 DEF b
      <4>2. s \in PendingAt(i) BY <4>1, PendingIs DEF b
      <4>3. forward_check_next_k(b) BY <2>3, <4>1, RefusedIsDead
      <4>4. CASE Filled(b)
        <5>1. b \in q.solved BY <2>1, <4>2, <4>3, <4>4
        <5>2. Solves(x, b) /\ x \in Board BY <4>1, BelowIs DEF GoodBoard
        <5>3. x = b BY <2>3, <4>4, <5>2 DEF Filled, EmptyCells, Solves, Board
        <5> QED BY <5>1, <5>3
      <4>5. CASE ~ Filled(b)
        <5>1. b \in q.out BY <2>1, <4>2, <4>3, <4>5
        <5> QED BY <4>1, <5>1
      <4> QED BY <4>4, <4>5
    <3> QED BY <3>1, <3>2
  <2>10. EmitInv(q) BY <2>1, <2>5, <2>7, <2>8, <2>9 DEF EmitInv
  <2>11. EmitCount(q)
    <3> DEFINE D(v) == {u \in PendingPairs : Passed(v, u[1], u[2])}
    <3>1. \A v : IsFiniteSet(D(v)) /\ Cardinality(D(v)) \in Nat BY PairsFinite
    <3>2. IsFiniteSet(r.out) /\ Cardinality(r.out) <= Cardinality(D(r)) /\ Cardinality(r.out) \in Nat
      BY FS_CardinalityType DEF EmitCount
    <3>3. \A u \in PendingPairs : u[1] \in 1 .. Top /\ u[2] \in Left(u[1]) /\ u = <<u[1], u[2]>> BY DEF PendingPairs
    <3>4. D(r) \subseteq D(q) BY <2>6, <3>3
    <3>5. Cardinality(D(r)) <= Cardinality(D(q)) BY <3>1, <3>4, FS_Subset
    <3>6. CASE q.out = r.out BY <3>1, <3>2, <3>5, <3>6 DEF EmitCount
    <3>7. CASE q.out # r.out
      <4>1. s \in PendingAt(i) /\ q.out = r.out \cup {b} BY <2>1, <3>7
      <4>2. <<i, s>> \in PendingPairs BY <2>3, <4>1 DEF PendingPairs
      <4>3. <<i, s>> \notin D(r) /\ <<i, s>> \in D(q)
        <5>1. ~ Passed(r, i, s) BY <2>2, <2>3 DEF Passed
        <5>2. Passed(q, i, s) BY <2>6
        <5> QED BY <4>2, <5>1, <5>2
      <4> HIDE DEF D
      <4>4. D(r) \cup {<<i, s>>} \subseteq D(q) BY <3>4, <4>3
      <4>5. Cardinality(D(r) \cup {<<i, s>>}) = Cardinality(D(r)) + 1 /\ IsFiniteSet(D(r) \cup {<<i, s>>})
        BY <3>1, <4>3, FS_AddElement
      <4>6. Cardinality(D(r)) + 1 <= Cardinality(D(q)) BY <3>1, <4>4, <4>5, FS_Subset
      <4>7. IsFiniteSet(q.out) /\ Cardinality(q.out) <= Cardinality(r.out) + 1
        <5>1. b \notin r.out BY <3>7, <4>1
        <5>2. IsFiniteSet(r.out \cup {b}) /\ Cardinality(r.out \cup {b}) = Cardinality(r.out) + 1
          BY <3>2, <5>1, FS_AddElement
        <5> QED BY <3>2, <4>1, <5>2
      <4>8. Cardinality(q.out) \in Nat BY <4>7, FS_CardinalityType
      <4>9. Cardinality(q.out) <= Cardinality(D(q)) BY <3>1, <3>2, <4>6, <4>7, <4>8
      <4> QED BY <4>7, <4>9 DEF EmitCount, D
    <3> QED BY <3>6, <3>7
  <2> QED BY <1>2, <2>4, <2>10, <2>11 DEF q
<1> QED BY <1>1, <1>2

-----------------------------------------------------------------------------
(* The folds of bt_count_pending and bt_materialize_pending. *)

CountOp(x, y, n, i) == n + Cardinality(PendingAt(i))
PendingUpTo(n) == {q \in PendingPairs : q[1] <= n}
CountTo(x, n, v) == v \in Nat /\ IsFiniteSet(PendingUpTo(n)) /\ Cardinality(PendingUpTo(n)) <= v
LevelOp(max, y, r, i) == EmitLevel(max, r, Top + 1 - i)
CountFold == INSTANCE Iteration WITH Op <- CountOp, P <- CountTo
EmitFold == INSTANCE Iteration WITH Op <- EmitOne, P <- EmitAt
LevelFold == INSTANCE Iteration WITH Op <- LevelOp, P <- LevelAt

Levels == [i \in 1 .. Top |-> i]
Candidates(i) == [n \in 1 .. Len(stack[i].search) + 1 - stack[i].next_s |-> stack[i].next_s + n - 1]
Untouched == [out |-> {}, solved |-> {}, next |-> [i \in 1 .. Top |-> stack[i].next_s]]

\* The count of the candidates is a fold of the levels (bt_count_pending).
LEMMA CountFolds ==
  ASSUME Top \in Nat
  PROVE  \E g : CountFold!IsFold(0, 0, 0, Levels, g) /\ bt_count_pending = g[DOMAIN Levels]
<1> DEFINE g == CHOOSE g : CountFold!IsFold(0, 0, 0, Levels, g)
<1>1. CountFold!IsFold(0, 0, 0, Levels, g) BY CountFold!FoldExists DEF Levels
<1>2. bt_count_pending = g[DOMAIN Levels]
  BY DEF bt_count_pending, FoldLeft, MapThenFoldSet, CountFold!IsFold, CountFold!Step, CountOp,
         CountFold!Last, Max, Levels
<1> QED BY <1>1, <1>2

\* A level hands out its candidates in their order.
LEMMA EmitFolds ==
  ASSUME NEW max, NEW r, NEW i, Len(stack[i].search) + 1 - stack[i].next_s \in Nat
  PROVE  \E g : EmitFold!IsFold(max, i, r, Candidates(i), g) /\ EmitLevel(max, r, i) = g[DOMAIN Candidates(i)]
<1> DEFINE g == CHOOSE g : EmitFold!IsFold(max, i, r, Candidates(i), g)
<1>1. EmitFold!IsFold(max, i, r, Candidates(i), g) BY EmitFold!FoldExists DEF Candidates
<1>2. EmitLevel(max, r, i) = g[DOMAIN Candidates(i)]
  BY DEF EmitLevel, FoldLeft, MapThenFoldSet, EmitFold!IsFold, EmitFold!Step, EmitFold!Last, Max, Candidates
<1> QED BY <1>1, <1>2

\* The levels hand out theirs from the top down.
LEMMA LevelFolds ==
  ASSUME NEW max, Top \in Nat
  PROVE  \E g : LevelFold!IsFold(max, 0, Untouched, Levels, g) /\ bt_materialize_pending(max) = g[DOMAIN Levels]
<1> DEFINE g == CHOOSE g : LevelFold!IsFold(max, 0, Untouched, Levels, g)
<1>1. LevelFold!IsFold(max, 0, Untouched, Levels, g) BY LevelFold!FoldExists DEF Levels
<1>2. bt_materialize_pending(max) = g[DOMAIN Levels]
  BY DEF bt_materialize_pending, FoldLeft, MapThenFoldSet, LevelFold!IsFold, LevelFold!Step, LevelOp,
         LevelFold!Last, Max, Levels, Untouched
<1> QED BY <1>1, <1>2

\* The quota of a flush is at least the number of pending candidates.
LEMMA CountIsEnough ==
  ASSUME EngineInv
  PROVE  bt_count_pending \in Nat /\ Cardinality(PendingPairs) <= bt_count_pending
<1>1. Top \in Nat BY StackIs
<1>2. PICK g : CountFold!IsFold(0, 0, 0, Levels, g) /\ bt_count_pending = g[DOMAIN Levels]
  BY <1>1, CountFolds
<1>3. CountTo(0, 0, 0)
  <2>1. PendingUpTo(0) = {} BY DEF PendingUpTo, PendingPairs
  <2> QED BY <2>1, FS_EmptySet DEF CountTo
<1>4. ASSUME NEW k \in 1 .. Top, NEW v, CountTo(0, k - 1, v) PROVE CountTo(0, k, CountOp(0, 0, v, Levels[k]))
  <2> DEFINE S == {k} \X PendingAt(k)
             A == PendingUpTo(k - 1)
  <2>1. Levels[k] = k BY DEF Levels
  <2>2. IsFiniteSet(PendingAt(k))
    <3>1. stack[k].next_s \in Int /\ Len(stack[k].search) \in Int BY LevelIs
    <3>2. IsFiniteSet(stack[k].next_s .. Len(stack[k].search)) BY <3>1, Interval
    <3>3. PendingAt(k) \in SUBSET (stack[k].next_s .. Len(stack[k].search)) BY DEF PendingAt
    <3> QED BY <3>2, <3>3, FS_Subset
  <2>3. Cardinality(PendingAt(k)) \in Nat BY <2>2, FS_CardinalityType
  <2>4. IsFiniteSet(S) /\ Cardinality(S) = Cardinality(PendingAt(k))
    <3>1. IsFiniteSet({k}) /\ Cardinality({k}) = 1 BY FS_Singleton
    <3>2. IsFiniteSet(S) /\ Cardinality(S) = Cardinality({k}) * Cardinality(PendingAt(k))
      BY <2>2, <3>1, FS_Product
    <3> QED BY <2>3, <3>1, <3>2
  <2>5. PendingUpTo(k) \subseteq A \cup S
    <3> SUFFICES ASSUME NEW q \in PendingPairs, q[1] <= k, ~ (q[1] <= k - 1) PROVE q \in S
      BY DEF PendingUpTo
    <3>1. q = <<q[1], q[2]>> /\ q[1] \in Int /\ q[2] \in PendingAt(q[1]) BY DEF PendingPairs
    <3>2. q[1] = k BY <1>1, <3>1
    <3> QED BY <3>1, <3>2
  <2>6. v \in Nat /\ IsFiniteSet(A) /\ Cardinality(A) <= v BY <1>4 DEF CountTo
  <2> HIDE DEF A, S
  <2>7. IsFiniteSet(A \cup S) /\ Cardinality(A \cup S) <= Cardinality(A) + Cardinality(S)
    <3>1. /\ IsFiniteSet(A \cup S) /\ Cardinality(A \cap S) \in Nat
          /\ Cardinality(A \cup S) = Cardinality(A) + Cardinality(S) - Cardinality(A \cap S)
      BY <2>4, <2>6, FS_Union, FS_Intersection, FS_CardinalityType
    <3>2. Cardinality(A) \in Nat /\ Cardinality(S) \in Nat BY <2>4, <2>6, FS_CardinalityType
    <3> QED BY <3>1, <3>2
  <2>8. IsFiniteSet(PendingUpTo(k)) /\ Cardinality(PendingUpTo(k)) <= Cardinality(A \cup S)
    BY <2>5, <2>7, FS_Subset
  <2>9. Cardinality(PendingUpTo(k)) \in Nat /\ Cardinality(A \cup S) \in Nat /\ Cardinality(A) \in Nat
    BY <2>6, <2>7, <2>8, FS_CardinalityType
  <2>10. Cardinality(PendingUpTo(k)) <= v + Cardinality(PendingAt(k)) BY <2>3, <2>4, <2>6, <2>7, <2>8, <2>9
  <2> QED BY <2>1, <2>3, <2>6, <2>8, <2>10 DEF CountTo, CountOp
<1>5. CountTo(0, Top, g[DOMAIN Levels])
  <2>1. DOMAIN Levels = 1 .. Top BY DEF Levels
  <2>2. \A k \in 1 .. Top : \A v : CountTo(0, k - 1, v) => CountTo(0, k, CountOp(0, 0, v, Levels[k])) BY <1>4
  <2> QED BY <1>1, <1>2, <1>3, <2>1, <2>2, CountFold!FoldInduction
<1>6. PendingUpTo(Top) = PendingPairs BY <1>1 DEF PendingUpTo, PendingPairs
<1> QED BY <1>2, <1>5, <1>6 DEF CountTo

\* One level.
LEMMA EmitLevelIs ==
  ASSUME EngineInv, NEW max, NEW i \in 1 .. Top, NEW r, EmitAt(<<max, i>>, 0, r)
  PROVE  EmitAt(<<max, i>>, Len(stack[i].search) + 1 - stack[i].next_s, EmitLevel(max, r, i))
<1> DEFINE n == Len(stack[i].search) + 1 - stack[i].next_s
           x == <<max, i>>
<1>1. n \in Nat /\ stack[i].next_s \in Nat /\ Len(stack[i].search) \in Nat
  BY LevelIs
<1>2. PICK g : EmitFold!IsFold(max, i, r, Candidates(i), g) /\ EmitLevel(max, r, i) = g[DOMAIN Candidates(i)]
  BY <1>1, EmitFolds
<1>3. DOMAIN Candidates(i) = 1 .. n BY DEF Candidates
<1>4. ASSUME NEW k \in 1 .. n, NEW v, EmitAt(x, k - 1, v)
      PROVE  EmitAt(x, k, EmitOne(max, i, v, Candidates(i)[k]))
  <2> DEFINE s == Candidates(i)[k]
             q == EmitOne(max, i, v, s)
  <2>1. s = stack[i].next_s + k - 1 BY DEF Candidates
  <2>2. s \in Left(i) BY <1>1, <2>1 DEF Left
  <2>3. /\ EmitInv(v) /\ EmitCount(v)
        /\ Full(max, v) \/ (v.next[i] = stack[i].next_s + (k - 1)
                            /\ \A j \in i + 1 .. Top : v.next[j] = Len(stack[j].search) + 1)
        /\ \A j \in 1 .. i - 1 : v.next[j] = stack[j].next_s
    BY <1>4 DEF EmitAt
  <2>4. stack[i].next_s + (k - 1) = s /\ s + 1 = stack[i].next_s + k BY <1>1, <2>1
  <2>5. /\ EmitInv(q) /\ EmitCount(q)
        /\ Full(max, v) => q = v
        /\ ~ Full(max, v) => q.next[i] = s + 1
        /\ \A j \in 1 .. Top : j # i => q.next[j] = v.next[j]
    BY <2>2, <2>3, <2>4, EmitKeepsInv
  <2> HIDE DEF q, s, n
  <2>6. \A j \in 1 .. i - 1 : q.next[j] = stack[j].next_s
    BY <2>3, <2>5, StackIs
  <2>7. Full(max, q) \/ (q.next[i] = stack[i].next_s + k
                         /\ \A j \in i + 1 .. Top : q.next[j] = Len(stack[j].search) + 1)
    <3>1. CASE Full(max, v) BY <2>5, <3>1
    <3>2. CASE ~ Full(max, v)
      <4>1. \A j \in i + 1 .. Top : j \in 1 .. Top /\ j # i BY StackIs
      <4> QED BY <2>3, <2>4, <2>5, <3>2, <4>1
    <3> QED BY <3>1, <3>2
  <2> QED BY <2>5, <2>6, <2>7 DEF EmitAt, q, s
<1>5. \A k \in 1 .. n : \A v : EmitAt(x, k - 1, v) => EmitAt(x, k, EmitOne(max, i, v, Candidates(i)[k])) BY <1>4
<1> HIDE DEF n, x
<1>6. EmitAt(x, 0, r) BY DEF x
<1>7. EmitAt(x, n, g[DOMAIN Candidates(i)])
  BY <1>1, <1>2, <1>3, <1>5, <1>6, EmitFold!FoldInduction
<1> QED BY <1>2, <1>7 DEF n, x

\* All the levels.
LEMMA MaterializeIs ==
  ASSUME EngineInv, NEW max
  PROVE  LevelAt(max, Top, bt_materialize_pending(max))
<1>1. Top \in Nat BY StackIs
<1>2. PICK g : LevelFold!IsFold(max, 0, Untouched, Levels, g) /\ bt_materialize_pending(max) = g[DOMAIN Levels]
  BY <1>1, LevelFolds
<1>3. LevelAt(max, 0, Untouched)
  <2>1. /\ Untouched.out = {} /\ Untouched.solved = {} /\ Untouched \in EmitType
        /\ \A j \in 1 .. Top : Untouched.next[j] = stack[j].next_s
    <3>1. \A j \in 1 .. Top : stack[j].next_s \in Nat BY LevelIs
    <3> QED BY <3>1 DEF Untouched, EmitType
  <2>2. \A j \in 1 .. Top : \A s \in Left(j) : ~ Passed(Untouched, j, s)
    <3> SUFFICES ASSUME NEW j \in 1 .. Top, NEW s \in Left(j), s < Untouched.next[j] PROVE FALSE BY DEF Passed
    <3> QED BY <2>1, LevelIs DEF Left
  <2>3. \A j \in 1 .. Top : stack[j].next_s <= Untouched.next[j] /\ Untouched.next[j] <= Len(stack[j].search) + 1
    BY <2>1, LevelIs
  <2>4. EmitInv(Untouched) BY <2>1, <2>2, <2>3 DEF EmitInv
  <2>5. EmitCount(Untouched)
    <3>1. IsFiniteSet(Untouched.out) /\ Cardinality(Untouched.out) = 0 BY <2>1, FS_EmptySet
    <3>2. Cardinality({q \in PendingPairs : Passed(Untouched, q[1], q[2])}) \in Nat BY PairsFinite
    <3> QED BY <3>1, <3>2 DEF EmitCount
  <2> HIDE DEF Untouched
  <2> QED BY <1>1, <2>1, <2>4, <2>5 DEF LevelAt
<1>4. ASSUME NEW k \in 1 .. Top, NEW v, LevelAt(max, k - 1, v) PROVE LevelAt(max, k, LevelOp(max, 0, v, Levels[k]))
  <2> DEFINE i == Top + 1 - k
             q == EmitLevel(max, v, i)
  <2>1. i \in 1 .. Top /\ Levels[k] = k BY <1>1 DEF Levels
  <2>2. /\ EmitInv(v) /\ EmitCount(v)
        /\ Full(max, v) \/ \A j \in Top - (k - 1) + 1 .. Top : v.next[j] = Len(stack[j].search) + 1
        /\ \A j \in 1 .. Top - (k - 1) : v.next[j] = stack[j].next_s
    BY <1>4 DEF LevelAt
  <2>3. Top - (k - 1) = i /\ Top - (k - 1) + 1 = i + 1 BY <1>1
  <2>4. EmitAt(<<max, i>>, 0, v)
    <3>1. v.next[i] = stack[i].next_s + 0 BY <2>1, <2>2, <2>3, LevelIs
    <3>2. \A j \in 1 .. i - 1 : v.next[j] = stack[j].next_s BY <2>1, <2>2, <2>3
    <3> HIDE DEF i
    <3> QED BY <2>2, <2>3, <3>1, <3>2 DEF EmitAt
  <2>5. EmitAt(<<max, i>>, Len(stack[i].search) + 1 - stack[i].next_s, q) BY <2>1, <2>4, EmitLevelIs
  <2>6. /\ EmitInv(q) /\ EmitCount(q)
        /\ Full(max, q) \/ (q.next[i] = stack[i].next_s + (Len(stack[i].search) + 1 - stack[i].next_s)
                            /\ \A j \in i + 1 .. Top : q.next[j] = Len(stack[j].search) + 1)
        /\ \A j \in 1 .. i - 1 : q.next[j] = stack[j].next_s
    <3> HIDE DEF i, q
    <3> QED BY <2>5 DEF EmitAt
  <2>7. stack[i].next_s + (Len(stack[i].search) + 1 - stack[i].next_s) = Len(stack[i].search) + 1
    <3>1. PICK w \in Nat, u \in Nat : w = Len(stack[i].search) /\ u = stack[i].next_s BY <2>1, LevelIs
    <3>2. u + (w + 1 - u) = w + 1 OBVIOUS
    <3> QED BY <3>1, <3>2
  <2>8. Top - k = i - 1 /\ Top - k + 1 = i BY <1>1
  <2>9. LevelOp(max, 0, v, Levels[k]) = q BY <2>1 DEF LevelOp
  <2> HIDE DEF q, i
  <2>10. \A j \in i .. Top : j = i \/ j \in i + 1 .. Top BY <1>1, <2>1
  <2>11. LevelAt(max, k, q) BY <2>6, <2>7, <2>8, <2>10 DEF LevelAt
  <2> QED BY <2>9, <2>11
<1>5. LevelAt(max, Top, g[DOMAIN Levels])
  <2>1. DOMAIN Levels = 1 .. Top BY DEF Levels
  <2>2. \A k \in 1 .. Top : \A v : LevelAt(max, k - 1, v) => LevelAt(max, k, LevelOp(max, 0, v, Levels[k])) BY <1>4
  <2> QED BY <1>1, <1>2, <1>3, <2>1, <2>2, LevelFold!FoldInduction
<1> QED BY <1>2, <1>5

\* What is taken out of the levels leaves them, and only that: the complete
\* boards are solutions, the packets are good boards above the root, and a
\* solution is under what was taken exactly when its candidate was passed.
Taken(r) == r.solved \cup UNION {SolutionsBelow(b) : b \in r.out}
\* What a packet takes: boards that extend the one received, whose solutions are
\* those of the candidates passed, and solutions that are in no board.
LEMMA TakenIs ==
  ASSUME EngineInv, NEW r, EmitInv(r)
  PROVE  /\ \A b \in r.solved : b \in SolutionsBelow(root)
         /\ \A b \in r.out : GoodBoard(b) /\ Solves(b, root) /\ b # root
         /\ \A x : x \in Taken(r) <=> \E i \in 1 .. Top : \E s \in Left(i) :
                                        Passed(r, i, s) /\ x \in SolutionsBelow(Emitted(i, s))
         /\ r.solved \cap UNION {SolutionsBelow(b) : b \in r.out} = {}
<1>1. \A b \in r.out \cup r.solved :
        \E i \in 1 .. Top : \E s \in Left(i) : s \in PendingAt(i) /\ Passed(r, i, s) /\ b = Emitted(i, s)
  BY DEF EmitInv
<1>2. \A b \in r.out \cup r.solved : GoodBoard(b) /\ Solves(b, root) BY <1>1, PendingIs
<1>3. ASSUME NEW b \in r.solved PROVE b \in SolutionsBelow(root) /\ b \in SolutionsBelow(b)
  <2>1. Filled(b) /\ GoodBoard(b) /\ Solves(b, root) BY <1>2 DEF EmitInv
  <2>2. b \in [Cells -> Rotated] BY <2>1 DEF Filled, EmptyCells, GoodBoard, Board
  <2>3. Solves(b, b) BY DEF Solves
  <2> QED BY <2>1, <2>2, <2>3, BelowIs
<1>4. ASSUME NEW b \in r.out PROVE b # root
  <2>1. PICK i \in 1 .. Top : \E s \in Left(i) : s \in PendingAt(i) /\ Passed(r, i, s) /\ b = Emitted(i, s)
    BY <1>1
  <2>2. PICK s \in Left(i) : b = Emitted(i, s) BY <2>1
  <2>3. /\ Lifted(i)[stack[i].cell] = Empty /\ stack[i].search[s] # Empty /\ stack[i].cell \in Cells
        /\ Lifted(i) \in Board /\ Solves(Lifted(i), root)
    BY <2>2, RegionIs, LeftIs, LevelIs
  <2>4. b[stack[i].cell] # Empty BY <2>2, <2>3 DEF Emitted, Board
  <2>5. root[stack[i].cell] = Empty BY <2>3 DEF Solves
  <2> QED BY <2>4, <2>5
<1>5. ASSUME NEW x, x \in Taken(r)
      PROVE \E i \in 1 .. Top : \E s \in Left(i) : Passed(r, i, s) /\ x \in SolutionsBelow(Emitted(i, s))
  <2>1. \E b \in r.out \cup r.solved : x \in SolutionsBelow(b) BY <1>3, <1>5 DEF Taken
  <2> QED BY <1>1, <2>1
<1>6. ASSUME NEW i \in 1 .. Top, NEW s \in Left(i), Passed(r, i, s), NEW x \in SolutionsBelow(Emitted(i, s))
      PROVE x \in Taken(r)
  BY <1>6 DEF EmitInv, Taken
<1>7. ASSUME NEW x \in r.solved, NEW b \in r.out, x \in SolutionsBelow(b) PROVE FALSE
  <2>1. PICK i \in 1 .. Top : \E s \in Left(i) : x = Emitted(i, s) BY <1>1
  <2>2. PICK s \in Left(i) : x = Emitted(i, s) BY <2>1
  <2>3. PICK j \in 1 .. Top : \E t \in Left(j) : b = Emitted(j, t) BY <1>1
  <2>4. PICK t \in Left(j) : b = Emitted(j, t) BY <2>3
  <2>5. x \in SolutionsBelow(Emitted(i, s)) BY <1>3, <2>2
  <2>6. i = j /\ s = t BY <1>7, <2>4, <2>5, RegionsApart
  <2>7. x = b BY <2>2, <2>4, <2>6
  <2> QED BY <2>7 DEF EmitInv
<1> QED BY <1>2, <1>3, <1>4, <1>5, <1>6, <1>7

\* A flush passes every pending candidate.
LEMMA FlushIs ==
  ASSUME EngineInv
  PROVE  LET r == bt_materialize_pending(bt_count_pending)
         IN  /\ EmitInv(r)
             /\ \A i \in 1 .. Top : \A s \in Left(i) : \A x \in SolutionsBelow(Emitted(i, s)) : Passed(r, i, s)
<1> DEFINE max == bt_count_pending
           r == bt_materialize_pending(max)
           D == {q \in PendingPairs : Passed(r, q[1], q[2])}
<1>1. LevelAt(max, Top, r) BY MaterializeIs
<1>2. max \in Nat /\ Cardinality(PendingPairs) <= max BY CountIsEnough
<1> HIDE DEF r, max
<1>3. EmitInv(r) /\ EmitCount(r) BY <1>1 DEF LevelAt
<1>4. ASSUME NEW i \in 1 .. Top, NEW s \in Left(i), NEW x \in SolutionsBelow(Emitted(i, s)) PROVE Passed(r, i, s)
  <2>1. s \in PendingAt(i) BY PendingIs
  <2>2. s \in Nat /\ s <= Len(stack[i].search) /\ Len(stack[i].search) \in Nat BY RegionIs, LevelIs
  <2>3. CASE Full(max, r)
    <3>1. IsFiniteSet(D) /\ Cardinality(D) \in Nat /\ Cardinality(D) <= Cardinality(PendingPairs)
          /\ IsFiniteSet(PendingPairs)
      BY PairsFinite
    <3>2. IsFiniteSet(r.out) /\ Cardinality(r.out) <= Cardinality(D) /\ Cardinality(r.out) >= max
          /\ Cardinality(r.out) \in Nat /\ Cardinality(PendingPairs) \in Nat
      BY <1>3, <2>3, <3>1, FS_CardinalityType DEF EmitCount, Full
    <3>3. Cardinality(D) = Cardinality(PendingPairs) BY <1>2, <3>1, <3>2
    <3>4. D \subseteq PendingPairs OBVIOUS
    <3> HIDE DEF D
    <3>5. D = PendingPairs BY <3>1, <3>3, <3>4, FS_Subset
    <3>6. <<i, s>> \in PendingPairs BY <2>1, <2>2 DEF PendingPairs
    <3>7. <<i, s>> \in D BY <3>5, <3>6
    <3> QED BY <3>7 DEF D
  <2>4. CASE ~ Full(max, r)
    <3>1. \A j \in Top - Top + 1 .. Top : r.next[j] = Len(stack[j].search) + 1 BY <1>1, <2>4 DEF LevelAt
    <3>2. Top - Top + 1 = 1 BY StackIs
    <3>3. r.next[i] = Len(stack[i].search) + 1 BY <3>1, <3>2
    <3> QED BY <2>2, <3>3 DEF Passed
  <2> QED BY <2>3, <2>4
<1> QED BY <1>3, <1>4 DEF r, max

-----------------------------------------------------------------------------
(* The steps that report, delegate and flush. *)

\* Recording solutions ends the program at the first one, or records them all.
LEMMA RecordIs ==
  ASSUME NEW boards, NEW next, record_solution(boards, next)
  PROVE  \/ engPc' = "exit" /\ \E b \in boards : found' = found \cup {b}
         \/ engPc' = next /\ found' = found \cup boards
BY DEF record_solution

\* What becomes of the packets of an exchange: each is taken by the server or put
\* in the stock of the process; one that is in both is known to be doubled.
HandsTo(packets) ==
  /\ \E T, K : /\ T \cup K = packets /\ T \cap K \subseteq doubled'
               /\ sent' = sent \cup T /\ kept' = kept \cup K
  /\ doubled \subseteq doubled'

\* put_to_server gives each packet one place.
LEMMA PutIs ==
  ASSUME NEW packets, put_to_server(packets), doubled \subseteq doubled'
  PROVE  HandsTo(packets)
<1>1. PICK accepted \in SUBSET Chunks(packets) :
        /\ sent' = sent \cup {b \in packets : ChunkOf(b) \in accepted}
        /\ kept' = kept \cup {b \in packets : ChunkOf(b) \notin accepted}
  BY DEF put_to_server
<1> DEFINE T == {b \in packets : ChunkOf(b) \in accepted}
           K == {b \in packets : ChunkOf(b) \notin accepted}
<1>2. T \cup K = packets /\ T \cap K = {} OBVIOUS
<1>3. sent' = sent \cup T /\ kept' = kept \cup K BY <1>1
<1> HIDE DEF T, K
<1> QED BY <1>2, <1>3 DEF HandsTo

\* A broken exchange gives each packet at least one.
LEMMA BrokenIs ==
  ASSUME NEW packets, put_to_server_broken(packets), doubled \subseteq doubled',
         packets \cap sent' \cap kept' \subseteq doubled'
  PROVE  HandsTo(packets)
<1>1. PICK k \in Chunks(packets) : \E accepted \in SUBSET {j \in Chunks(packets) : j <= k} :
        /\ sent' = sent \cup {b \in packets : ChunkOf(b) \in accepted}
        /\ kept' = kept \cup {b \in packets : ChunkOf(b) \notin accepted \ {k}}
  BY DEF put_to_server_broken
<1>2. PICK accepted :
        /\ sent' = sent \cup {b \in packets : ChunkOf(b) \in accepted}
        /\ kept' = kept \cup {b \in packets : ChunkOf(b) \notin accepted \ {k}}
  BY <1>1
<1> DEFINE T == {b \in packets : ChunkOf(b) \in accepted}
           K == {b \in packets : ChunkOf(b) \notin accepted \ {k}}
<1>3. T \cup K = packets OBVIOUS
<1>4. sent' = sent \cup T /\ kept' = kept \cup K BY <1>2
<1> HIDE DEF T, K
<1>5. T \cap K \subseteq doubled' BY <1>3, <1>4
<1> QED BY <1>3, <1>4, <1>5 DEF HandsTo

\* What a flush changes (bt_flush_pending).
Flushed(r, next) ==
  \/ /\ engPc' = "exit" /\ \E b \in r.solved : found' = found \cup {b}
     /\ UNCHANGED <<sent, kept, doubled, lost, stack>>
  \/ /\ engPc' = next /\ found' = found \cup r.solved
     /\ \/ HandsTo(r.out \cup {board}) /\ lost' = lost
        \/ lost' = lost \cup (r.out \cup {board}) /\ UNCHANGED <<sent, kept, doubled>>
     /\ stack' = <<>>
LEMMA FlushStep ==
  ASSUME NEW next, next # "exit", bt_flush_pending(next)
  PROVE  /\ Flushed(bt_materialize_pending(bt_count_pending), next)
         /\ UNCHANGED <<root, opt, board, constraints, used, cell_mask, front, nodes, engRequest>>
<1> DEFINE r == bt_materialize_pending(bt_count_pending)
           packets == r.out \cup {board}
<1>1. /\ record_solution(r.solved, next)
      /\ IF engPc' = "exit" THEN UNCHANGED <<sent, kept, doubled, lost>>
         ELSE \/ put_to_server(packets) /\ UNCHANGED <<doubled, lost>>
              \/ /\ put_to_server_broken(packets) /\ lost' = lost
                 /\ doubled' = doubled \cup (packets \cap sent' \cap kept')
              \/ lost' = lost \cup packets /\ UNCHANGED <<sent, kept, doubled>>
      /\ stack' = IF engPc' = "exit" THEN stack ELSE <<>>
      /\ UNCHANGED <<root, opt, board, constraints, used, cell_mask, front, nodes, engRequest>>
  BY DEF bt_flush_pending
<1> HIDE DEF r
<1>2. \/ engPc' = "exit" /\ \E b \in r.solved : found' = found \cup {b}
      \/ engPc' = next /\ found' = found \cup r.solved
  BY <1>1, RecordIs
<1>3. CASE engPc' = "exit"
  <2>1. Flushed(r, next) BY <1>1, <1>2, <1>3 DEF Flushed
  <2> QED BY <1>1, <2>1 DEF r
<1>4. CASE engPc' # "exit"
  <2> HIDE DEF packets
  <2>1. \/ HandsTo(packets) /\ lost' = lost
        \/ lost' = lost \cup packets /\ UNCHANGED <<sent, kept, doubled>>
    <3>1. CASE put_to_server(packets) /\ UNCHANGED <<doubled, lost>> BY <3>1, PutIs
    <3>2. CASE /\ put_to_server_broken(packets) /\ lost' = lost
               /\ doubled' = doubled \cup (packets \cap sent' \cap kept')
      BY <3>2, BrokenIs
    <3> QED BY <1>1, <1>4, <3>1, <3>2
  <2>2. Flushed(r, next) BY <1>1, <1>2, <1>4, <2>1 DEF Flushed, packets
  <2> QED BY <1>1, <2>2 DEF r
<1> QED BY <1>3, <1>4

\* A flush keeps the invariant.
LEMMA FlushInv ==
  ASSUME EngineInv, NEW next \in {"stopped", "exhausted"}, engPc = "node", bt_flush_pending(next)
  PROVE  EngineInv'
<1>1. /\ (engPc' = "exit" /\ stack' = stack) \/ (engPc' = next /\ stack' = <<>>)
      /\ UNCHANGED <<root, opt, board, constraints, used, cell_mask, front, engRequest>>
  <2>1. next # "exit" OBVIOUS
  <2> DEFINE r == bt_materialize_pending(bt_count_pending)
  <2>2. Flushed(r, next) /\ UNCHANGED <<root, opt, board, constraints, used, cell_mask, front, nodes, engRequest>>
    BY <2>1, FlushStep
  <2> HIDE DEF r
  <2> QED BY <2>2 DEF Flushed
<1>2. BoardInv' /\ KeptInv' BY <1>1 DEF EngineInv, BoardInv, KeptInv
<1>3. PcInv' BY <1>1 DEF EngineInv, PcInv, Results
<1>4. StackOK(root, board, <<>>) /\ AllPlaced(<<>>)
  <2>1. Len(<<>>) = 0 /\ <<>> \in Seq(Level) BY EmptySeq
  <2> QED BY <2>1 DEF StackOK, AllPlaced
<1>5. StackOK(root, board, stack) /\ AllPlaced(stack) BY DEF EngineInv, LevelsInv
<1>6. LevelsInv' BY <1>1, <1>4, <1>5 DEF LevelsInv
<1> QED BY <1>2, <1>3, <1>6 DEF EngineInv

\* The levels after a delegation: their next candidates move on.
Moved(r) == [i \in 1 .. Top |-> [stack[i] EXCEPT !.next_s = r.next[i]]]
\* Once the packet is accepted the levels only have fewer candidates.
LEMMA MovedIs ==
  ASSUME EngineInv, NEW r, EmitInv(r)
  PROVE  /\ Moved(r) \in Seq(Level) /\ Len(Moved(r)) = Top
         /\ \A i \in 1 .. Top : /\ Moved(r)[i].cell = stack[i].cell /\ Moved(r)[i].search = stack[i].search
                                /\ Moved(r)[i].placed = stack[i].placed /\ Moved(r)[i].next_s = r.next[i]
         /\ StackOK(root, board, Moved(r)) /\ (AllPlaced(stack) => AllPlaced(Moved(r)))
         /\ \A i \in 1 .. Top : LiftedOf(board, Moved(r), i) = LiftedOf(board, stack, i)
<1>1. Top \in Nat /\ Top = Len(stack) /\ stack \in Seq(Level) /\ StackOK(root, board, stack)
      /\ root \in Board /\ board \in Board
  BY StackIs
<1>2. ASSUME NEW i \in 1 .. Top
      PROVE /\ Moved(r)[i] \in Level
            /\ Moved(r)[i].cell = stack[i].cell /\ Moved(r)[i].search = stack[i].search
            /\ Moved(r)[i].placed = stack[i].placed /\ Moved(r)[i].next_s = r.next[i]
            /\ stack[i].next_s <= Moved(r)[i].next_s
            /\ Moved(r)[i].next_s <= Len(stack[i].search) + 1
  <2>1. stack[i] \in Level BY <1>1
  <2>2. stack[i].next_s <= r.next[i] /\ r.next[i] <= Len(stack[i].search) + 1 /\ r.next[i] \in Nat
    BY DEF EmitInv, EmitType
  <2>3. stack[i].next_s \in Nat \ {0} BY LevelIs
  <2>4. r.next[i] \in Nat \ {0} BY <2>2, <2>3
  <2> DEFINE lv == stack[i]
             v == r.next[i]
  <2>5. Moved(r)[i] = [lv EXCEPT !.next_s = v] BY DEF Moved
  <2>6. lv \in Level /\ v \in Nat \ {0} BY <2>1, <2>4
  <2> HIDE DEF lv, v
  <2>7. /\ [lv EXCEPT !.next_s = v] \in Level
        /\ [lv EXCEPT !.next_s = v].cell = lv.cell /\ [lv EXCEPT !.next_s = v].search = lv.search
        /\ [lv EXCEPT !.next_s = v].placed = lv.placed /\ [lv EXCEPT !.next_s = v].next_s = v
    BY <2>6 DEF Level
  <2> QED BY <2>2, <2>5, <2>7 DEF lv, v
<1>3. DOMAIN Moved(r) = 1 .. Top BY DEF Moved
<1>4. Moved(r) \in Seq(Level) /\ Len(Moved(r)) = Top
  <2>1. Moved(r) = [i \in 1 .. Top |-> Moved(r)[i]] BY DEF Moved
  <2>2. \A i \in 1 .. Top : Moved(r)[i] \in Level BY <1>2
  <2> HIDE DEF Moved
  <2>3. Moved(r) \in [1 .. Top -> Level] BY <2>1, <2>2
  <2> QED BY <1>1, <1>3, <2>3
<1>5. /\ StackOK(root, board, Moved(r))
      /\ \A i \in 1 .. Top : LiftedOf(board, Moved(r), i) = LiftedOf(board, stack, i)
  <2>1. \A i \in 1 .. Len(stack) : /\ Moved(r)[i].cell = stack[i].cell /\ Moved(r)[i].search = stack[i].search
                                   /\ Moved(r)[i].placed = stack[i].placed
                                   /\ stack[i].next_s <= Moved(r)[i].next_s
                                   /\ Moved(r)[i].next_s <= Len(stack[i].search) + 1
    BY <1>1, <1>2
  <2> QED BY <1>1, <1>4, <2>1, StackNext
<1>6. AllPlaced(stack) => AllPlaced(Moved(r)) BY <1>1, <1>2, <1>4 DEF AllPlaced
<1> QED BY <1>2, <1>4, <1>5, <1>6

\* What a delegation changes (bt_delegate_if_needed): when the exchange breaks the
\* stack stays as it was, whatever has become of the packets.
Delegated(r) ==
  /\ \/ engPc' = "exit" /\ \E b \in r.solved : found' = found \cup {b}
     \/ engPc' = "choose" /\ found' = found \cup r.solved
     \/ engPc' = "choose" /\ found' = found
  /\ \/ /\ engPc' = "choose" /\ found' = found \cup r.solved /\ HandsTo(r.out)
        /\ stack' = Moved(r) \/ (stack' = stack /\ r.out \subseteq doubled')
     \/ UNCHANGED <<sent, kept, doubled, stack>>
LEMMA DelegateStep ==
  ASSUME bt_delegate_if_needed
  PROVE  /\ engPc = "node" /\ ~ Complete
         /\ UNCHANGED <<root, opt, board, constraints, used, cell_mask, front, nodes, engRequest, lost>>
         /\ \E max : Delegated(bt_materialize_pending(max))
<1>1. PICK quota : \E r \in {bt_materialize_pending(quota)} :
        /\ record_solution(IF quota > 0 THEN r.solved ELSE {}, "choose")
        /\ \/ /\ quota > 0 /\ r.out # {} /\ engPc' # "exit"
              /\ \/ /\ put_to_server(r.out) /\ doubled' = doubled
                    /\ stack' = Moved(r)
                 \/ /\ put_to_server_broken(r.out) /\ doubled' = doubled \cup r.out
                    /\ stack' = stack
           \/ UNCHANGED <<sent, kept, doubled, stack>>
  BY DEF bt_delegate_if_needed, Moved
<1> DEFINE r == bt_materialize_pending(quota)
<1>2. /\ record_solution(IF quota > 0 THEN r.solved ELSE {}, "choose")
      /\ \/ /\ quota > 0 /\ r.out # {} /\ engPc' # "exit"
            /\ \/ /\ put_to_server(r.out) /\ doubled' = doubled
                  /\ stack' = Moved(r)
               \/ /\ put_to_server_broken(r.out) /\ doubled' = doubled \cup r.out
                  /\ stack' = stack
         \/ UNCHANGED <<sent, kept, doubled, stack>>
  BY <1>1
<1>3. /\ engPc = "node" /\ ~ Complete
      /\ UNCHANGED <<root, opt, board, constraints, used, cell_mask, front, nodes, engRequest, lost>>
  BY DEF bt_delegate_if_needed, CheckDue
<1> HIDE DEF r
<1>4. \/ engPc' = "exit" /\ \E b \in (IF quota > 0 THEN r.solved ELSE {}) : found' = found \cup {b}
      \/ engPc' = "choose" /\ found' = found \cup (IF quota > 0 THEN r.solved ELSE {})
  BY <1>2, RecordIs
<1>5. CASE quota > 0
  <2>1. \/ engPc' = "exit" /\ \E b \in r.solved : found' = found \cup {b}
        \/ engPc' = "choose" /\ found' = found \cup r.solved
    BY <1>4, <1>5
  <2>2. put_to_server(r.out) /\ doubled' = doubled => HandsTo(r.out) BY PutIs
  <2>3. put_to_server_broken(r.out) /\ doubled' = doubled \cup r.out => HandsTo(r.out) /\ r.out \subseteq doubled'
    BY BrokenIs
  <2>4. Delegated(r) BY <1>2, <2>1, <2>2, <2>3 DEF Delegated
  <2> QED BY <1>3, <2>4 DEF r
<1>6. CASE ~ (quota > 0)
  <2>1. engPc' = "choose" /\ found' = found BY <1>4, <1>6
  <2>2. UNCHANGED <<sent, kept, doubled, stack>> BY <1>2, <1>6
  <2>3. Delegated(r) BY <2>1, <2>2 DEF Delegated
  <2> QED BY <1>3, <2>3 DEF r
<1> QED BY <1>5, <1>6

\* A delegation keeps the invariant.
LEMMA DelegateInv == EngineInv /\ bt_delegate_if_needed => EngineInv'
<1> SUFFICES ASSUME EngineInv, bt_delegate_if_needed PROVE EngineInv' OBVIOUS
<1>1. PICK max : Delegated(bt_materialize_pending(max)) BY DelegateStep
<1>2. engPc = "node" /\ ~ Complete
      /\ UNCHANGED <<root, opt, board, constraints, used, cell_mask, front, nodes, engRequest, lost>>
  BY DelegateStep
<1> DEFINE r == bt_materialize_pending(max)
<1>3. EmitInv(r) /\ Delegated(r) BY <1>1, MaterializeIs DEF LevelAt
<1> HIDE DEF r
<1>4. StackOK(root, board, stack) /\ AllPlaced(stack) BY <1>2 DEF EngineInv, LevelsInv
<1>5. StackOK(root, board, Moved(r)) /\ AllPlaced(Moved(r)) BY <1>3, <1>4, MovedIs
<1>6. /\ stack' = Moved(r) \/ stack' = stack
      /\ engPc' \in {"choose", "exit"}
  BY <1>3 DEF Delegated
<1>7. StackOK(root, board, stack') /\ AllPlaced(stack') BY <1>4, <1>5, <1>6
<1>8. LevelsInv' BY <1>2, <1>7, CompleteIs DEF LevelsInv
<1>9. BoardInv' /\ KeptInv' BY <1>2 DEF EngineInv, BoardInv, KeptInv
<1>10. PcInv' BY <1>2, <1>6 DEF EngineInv, PcInv, Results
<1> QED BY <1>8, <1>9, <1>10 DEF EngineInv

\* Every step of the search keeps the invariant.
LEMMA EngineInvNext == EngineInv /\ [SearchNext]_engineVars => EngineInv'
<1> SUFFICES ASSUME EngineInv, [SearchNext]_engineVars PROVE EngineInv' OBVIOUS
<1>1. CASE Descend BY <1>1, DescendInv
<1>2. CASE Undo BY <1>2, UndoInv
<1>3. CASE TryCandidate BY <1>3, TryInv
<1>4. CASE PopLevel BY <1>4, PopInv
<1>5. ASSUME /\ UNCHANGED <<root, opt, board, constraints, used, cell_mask, front, stack, engRequest>>
             /\ engPc' \in Results \/ engPc' = "backtrack"
             /\ engPc = "node" \/ (engPc = "backtrack" /\ AllPlaced(stack))
      PROVE  EngineInv'
  <2>1. BoardInv' /\ KeptInv' BY <1>5 DEF EngineInv, BoardInv, KeptInv
  <2>2. PcInv' BY <1>5 DEF EngineInv, PcInv
  <2>3. StackOK(root, board, stack) /\ AllPlaced(stack) BY <1>5 DEF EngineInv, LevelsInv
  <2>4. engPc' # "choose" BY <1>5 DEF Results
  <2>5. LevelsInv' BY <1>5, <2>3, <2>4 DEF LevelsInv
  <2> QED BY <2>1, <2>2, <2>5 DEF EngineInv
<1>6. CASE Exhaust
  <2>1. AllPlaced(stack) BY <1>6, StackIs DEF Exhaust, AllPlaced
  <2> QED BY <1>5, <1>6, <2>1 DEF Exhaust, engine, Results
<1>7. CASE SolutionReached
  <2>1. engPc' = "exit" \/ engPc' = "backtrack" BY <1>7, RecordIs DEF SolutionReached
  <2> QED BY <1>5, <1>7, <2>1 DEF SolutionReached, engine, Results
<1>8. CASE StopRequested
  <2>1. CASE opt.delegate BY <1>8, <2>1, FlushInv DEF StopRequested
  <2>2. CASE ~ opt.delegate BY <1>5, <1>8, <2>2 DEF StopRequested, engine, Results
  <2> QED BY <2>1, <2>2
<1>9. CASE bt_abandon_shallow_root BY <1>9, FlushInv DEF bt_abandon_shallow_root, CheckDue
<1>10. CASE bt_delegate_if_needed BY <1>10, DelegateInv
<1>11. CASE RequestChanges
  <2>1. /\ UNCHANGED <<root, opt, board, constraints, used, cell_mask, front, stack, engPc>>
        /\ engRequest' \in {"continue", "pause", "stop"}
    BY <1>11 DEF RequestChanges, engine
  <2> QED BY <2>1 DEF EngineInv, BoardInv, KeptInv, LevelsInv, PcInv
<1>12. CASE UNCHANGED engineVars
  <2>1. UNCHANGED <<root, opt, board, constraints, used, cell_mask, front, stack, engPc, engRequest>>
    BY <1>12 DEF engineVars, engine
  <2> QED BY <2>1 DEF EngineInv, BoardInv, KeptInv, LevelsInv, PcInv
<1> QED BY <1>1, <1>2, <1>3, <1>4, <1>6, <1>7, <1>8, <1>9, <1>10, <1>11, <1>12 DEF SearchNext, EngineStep

\* The invariant implies that everything the engine keeps is exact.
LEMMA EngineInvExact == EngineInv => EngineStateExact
<1> SUFFICES ASSUME EngineInv PROVE EngineStateExact OBVIOUS
<1>1. /\ root \in Roots /\ opt \in Options /\ board \in Board /\ GoodBoard(board)
      /\ constraints = bt_init_constraints(board) /\ used = Used(board)
      /\ cell_mask = bt_mask_init(constraints)
      /\ front.weight \in Weights /\ front = FrontOf(board, front.weight)
      /\ engPc \in Results \cup {"node", "choose", "backtrack"}
      /\ engRequest \in {"continue", "pause", "stop"}
  BY DEF EngineInv, BoardInv, KeptInv, PcInv, GoodBoard
<1>2. /\ front.empty = EmptyCells(board) /\ front.empty \subseteq Cells /\ front.constrained \subseteq Cells
      /\ front.nconstr \in [Cells -> 0 .. 4]
      /\ [front EXCEPT !.weight = 0] = [bt_frontier_init(board) EXCEPT !.weight = 0]
  BY <1>1, FrontType
<1>3. Len(stack) <= Parts BY <1>1, StackBound DEF EngineInv, LevelsInv
<1>4. used \subseteq 1 .. Parts BY <1>1, UsedType
<1>5. constraints \in [Cells -> Keys] /\ cell_mask \in [Cells -> SUBSET (1 .. Parts)]
  <2>1. <<0, 0>> \in Cells BY PuzzleAssumption DEF Cells
  <2> QED BY <1>1, <2>1, MaskIs
<1>6. SearchTypeOK BY <1>1, <1>2, <1>3, <1>4, <1>5 DEF SearchTypeOK, Board, Weights
<1>7. IncrementalStateExact BY <1>1, <1>2 DEF IncrementalStateExact
<1>8. FastChoiceAgrees BY ChoiceIs DEF FastChoiceAgrees
<1> QED BY <1>6, <1>7, <1>8 DEF EngineStateExact

\* What the engine keeps up to date piece by piece - keys, used pieces, masks,
\* frontier - is at every step what bt_init_constraints, bt_mask_init and
\* bt_frontier_init would compute from the board, and the packed comparison of
\* mrv_choose_cell_fast chooses the cell of mrv_choose_cell.
THEOREM EngineExact == SearchSpec => []EngineStateExact
<1>1. SearchInit => EngineInv BY EngineInvInit
<1>2. EngineInv /\ [SearchNext]_engineVars => EngineInv' BY EngineInvNext
<1>3. EngineInv => EngineStateExact BY EngineInvExact
<1> QED BY <1>1, <1>2, <1>3, PTL DEF SearchSpec

-----------------------------------------------------------------------------
(* The refinement: the solutions still open, step by step. *)

\* x is under a candidate left to level i.
StillAt(b, st, i, x) ==
  /\ Solves(x, LiftedOf(b, st, i))
  /\ \E s \in st[i].next_s .. Len(st[i].search) : st[i].search[s] = x[st[i].cell]
StillOpen(b, st, x) == \E i \in 1 .. Len(st) : StillAt(b, st, i, x)
\* The engine has still to expand its board.
Live == \/ engPc \in {"node", "choose", "budget", "exit"}
        \/ engPc = "stopped" /\ ~opt.delegate

\* A solution is open when the board still leads to it or a candidate does.
LEMMA OpenIs ==
  /\ \A x : x \in OpenSolutions <=>
        x \in SolutionsBelow(root) /\ ((Live /\ Solves(x, board)) \/ StillOpen(board, stack, x))
  /\ \A x : x \in OpenSolutions' <=>
        x \in SolutionsBelow(root') /\ ((Live' /\ Solves(x, board')) \/ StillOpen(board', stack', x))
<1>1. \A x : x \in OpenSolutions <=>
        x \in SolutionsBelow(root) /\ ((Live /\ Solves(x, board)) \/ StillOpen(board, stack, x))
  BY LiftedIs DEF OpenSolutions, Live, StillOpen, StillAt, Top
<1>2. \A x : x \in OpenSolutions' <=>
        x \in SolutionsBelow(root') /\ ((Live' /\ Solves(x, board')) \/ StillOpen(board', stack', x))
  BY LiftedIs DEF OpenSolutions, Live, StillOpen, StillAt, Top
<1> QED BY <1>1, <1>2

\* The candidates still to try are those whose boards the engine would hand out.
LEMMA StillIsRegion ==
  ASSUME EngineInv, NEW x \in AllSolutions
  PROVE  StillOpen(board, stack, x) <=>
           \E i \in 1 .. Top : \E s \in Left(i) : x \in SolutionsBelow(Emitted(i, s))
<1>1. \A i \in 1 .. Top : StillAt(board, stack, i, x) <=> \E s \in Left(i) : x \in SolutionsBelow(Emitted(i, s))
  BY RegionIs, LevelIs DEF StillAt, Left
<1> QED BY <1>1, StackIs DEF StillOpen

\* A level that keeps its fields keeps its candidates.
LEMMA StillSame ==
  ASSUME NEW b, NEW d, NEW st, NEW sp, NEW i, NEW x, LiftedOf(d, sp, i) = LiftedOf(b, st, i),
         sp[i].cell = st[i].cell, sp[i].search = st[i].search, sp[i].next_s = st[i].next_s
  PROVE  StillAt(d, sp, i, x) <=> StillAt(b, st, i, x)
BY DEF StillAt

\* The top level and those below it.
LEMMA StillBelowTop ==
  ASSUME NEW b, NEW st, Len(st) \in Nat, Len(st) > 0, NEW x
  PROVE  StillOpen(b, st, x) <=> (\E i \in 1 .. Len(st) - 1 : StillAt(b, st, i, x)) \/ StillAt(b, st, Len(st), x)
<1>1. \A i \in 1 .. Len(st) : i \in 1 .. Len(st) - 1 \/ i = Len(st) OBVIOUS
<1>2. Len(st) \in 1 .. Len(st) /\ \A i \in 1 .. Len(st) - 1 : i \in 1 .. Len(st) OBVIOUS
<1> QED BY <1>1, <1>2 DEF StillOpen

Holds(search, p) == \E s \in 1 .. Len(search) : search[s] = p
NewLevel(c, search) == [cell |-> c, search |-> search, next_s |-> 1, placed |-> Empty]
\* A level pushed on the stack opens the solutions of its candidates.
LEMMA StillPushed ==
  ASSUME NEW r \in Board, NEW b \in Board, NEW st, StackOK(r, b, st), AllPlaced(st),
         NEW c \in Cells, NEW search,
         \/ search = <<>>
         \/ b[c] = Empty /\ search = buildBigArray[what_search_in_grid_to_key(b, c)],
         NEW sp, sp = Append(st, NewLevel(c, search)), NEW x
  PROVE  StillOpen(b, sp, x) <=>
           StillOpen(b, st, x) \/ (Solves(x, b) /\ Holds(search, x[c]))
<1> DEFINE lvl == [cell |-> c, search |-> search, next_s |-> 1, placed |-> Empty]
           n == Len(st)
<1>1. /\ Len(sp) = n + 1 /\ sp[Len(sp)] = lvl /\ LiftedOf(b, sp, Len(sp)) = b
      /\ \A i \in 1 .. n : sp[i] = st[i] /\ LiftedOf(b, sp, i) = LiftedOf(b, st, i)
  BY StackPush DEF NewLevel
<1>2. n \in Nat BY DEF StackOK
<1>3. lvl.cell = c /\ lvl.search = search /\ lvl.next_s = 1 OBVIOUS
<1> HIDE DEF lvl
<1>4. ASSUME NEW i \in 1 .. n PROVE StillAt(b, sp, i, x) <=> StillAt(b, st, i, x)
  <2>1. sp[i] = st[i] /\ LiftedOf(b, sp, i) = LiftedOf(b, st, i) BY <1>1
  <2> QED BY <2>1, StillSame
<1>5. StillAt(b, sp, n + 1, x) <=> Solves(x, b) /\ Holds(search, x[c])
  BY <1>1, <1>3 DEF StillAt, Holds
<1>6. Len(sp) \in Nat /\ Len(sp) > 0 /\ Len(sp) - 1 = n BY <1>1, <1>2
<1>7. StillOpen(b, sp, x) <=> (\E i \in 1 .. n : StillAt(b, sp, i, x)) \/ StillAt(b, sp, n + 1, x)
  BY <1>1, <1>6, StillBelowTop
<1> QED BY <1>4, <1>5, <1>7 DEF StillOpen

\* The new level takes over every solution under the board: its compartment
\* holds the piece of each, and a board without a cell to choose has none.
LEMMA DescendOpen == EngineInv /\ Descend => OpenSolutions' = OpenSolutions
<1> SUFFICES ASSUME EngineInv, Descend PROVE OpenSolutions' = OpenSolutions OBVIOUS
<1> SUFFICES ASSUME NEW x \in SolutionsBelow(root)
             PROVE  ((Live' /\ Solves(x, board')) \/ StillOpen(board', stack', x))
                      <=> ((Live /\ Solves(x, board)) \/ StillOpen(board, stack, x))
  <2>1. root' = root BY DEF Descend
  <2> QED BY <2>1, OpenIs
<1> DEFINE c == mrv_choose_cell_fast
           cell == IF c = NoCell THEN <<0, 0>> ELSE c
           search == IF c = NoCell THEN <<>> ELSE buildBigArray[constraints[c]]
<1>1. /\ stack' = Append(stack, NewLevel(cell, search)) /\ engPc' = "backtrack" /\ board' = board
      /\ engPc = "node" \/ engPc = "choose"
      /\ EmptyCells(board) # {}
  BY CompleteIs DEF Descend, EngineInv, LevelsInv, NewLevel
<1>2. ~ Live' /\ Live BY <1>1 DEF Live
<1>3. root \in Board /\ board \in Board /\ GoodBoard(board) /\ StackOK(root, board, stack) /\ AllPlaced(stack)
  BY <1>1, StackIs DEF EngineInv, LevelsInv
<1>4. \A d \in Cells : constraints[d] = what_search_in_grid_to_key(board, d)
  BY DEF EngineInv, KeptInv, bt_init_constraints
<1>5. c # NoCell => c \in Cells /\ board[c] = Empty /\ search = buildBigArray[what_search_in_grid_to_key(board, c)]
  BY <1>4, ChoiceIs
<1>6. cell \in Cells /\ (search = <<>> \/ (board[cell] = Empty /\ search = buildBigArray[what_search_in_grid_to_key(board, cell)]))
  <2>1. <<0, 0>> \in Cells BY PuzzleAssumption DEF Cells
  <2> QED BY <1>5, <2>1
<1>7. x \in [Cells -> Rotated] /\ GoodBoard(x) BY BelowIs
<1>8. Solves(x, board) => Holds(search, x[cell])
  <2> SUFFICES ASSUME Solves(x, board) PROVE Holds(search, x[cell]) OBVIOUS
  <2>1. CASE c # NoCell
    <3>1. cell = c /\ c \in Cells /\ board[c] = Empty /\ x[c] # Empty BY <1>5, <1>7, <2>1, PieceType
    <3>2. x[c] \in Compartment(what_search_in_grid_to_key(board, c)) BY <1>3, <1>7, <3>1, SolutionFits
    <3>3. what_search_in_grid_to_key(board, c) \in Keys BY <1>3, <3>1, KeyType
    <3> HIDE DEF search, cell, c
    <3> QED BY <1>5, <2>1, <3>1, <3>2, <3>3, BucketIs DEF Holds
  <2>2. CASE c = NoCell
    <3>1. ~ Complete BY <1>1, CompleteIs
    <3>2. PICK d \in EmptyCells(board) : cell_mask[d] \subseteq used BY <2>2, <3>1, ChoiceIs
    <3>3. d \in Cells /\ board[d] = Empty BY DEF EmptyCells
    <3>4. x[d] # Empty BY <1>7, <3>3, PieceType
    <3>5. x[d] \in Compartment(what_search_in_grid_to_key(board, d)) /\ x[d][1] \notin Used(board)
      BY <1>3, <1>7, <3>3, <3>4, SolutionFits
    <3>6. cell_mask = bt_mask_init(bt_init_constraints(board)) /\ used = Used(board) BY DEF EngineInv, KeptInv
    <3>7. x[d][1] \in cell_mask[d] BY <1>3, <3>3, <3>5, <3>6, MaskIs
    <3> QED BY <3>2, <3>5, <3>6, <3>7
  <2> QED BY <2>1, <2>2
<1> HIDE DEF cell, search
<1>9. StillOpen(board, stack', x) <=>
        StillOpen(board, stack, x) \/ (Solves(x, board) /\ Holds(search, x[cell]))
  <2> DEFINE sp == stack'
             st == stack
  <2>1. /\ root \in Board /\ board \in Board /\ StackOK(root, board, st) /\ AllPlaced(st) /\ cell \in Cells
        /\ search = <<>> \/ (board[cell] = Empty /\ search = buildBigArray[what_search_in_grid_to_key(board, cell)])
        /\ sp = Append(st, NewLevel(cell, search))
    BY <1>1, <1>3, <1>6
  <2> HIDE DEF sp, st
  <2>2. StillOpen(board, sp, x) <=>
          StillOpen(board, st, x) \/ (Solves(x, board) /\ Holds(search, x[cell]))
    BY <2>1, StillPushed
  <2> QED BY <2>2 DEF sp, st
<1> QED BY <1>1, <1>2, <1>8, <1>9

\* Lifting a piece changes no level.
LEMMA UndoOpen == EngineInv /\ Undo => OpenSolutions' = OpenSolutions
<1> SUFFICES ASSUME EngineInv, Undo PROVE OpenSolutions' = OpenSolutions OBVIOUS
<1> DEFINE n == Len(stack)
           d == Put(board, stack[n].cell, Empty)
           sp == TopLifts(stack)
<1>1. /\ engPc = "backtrack" /\ engPc' = "backtrack" /\ n > 0 /\ stack[n].placed # Empty
      /\ board' = d /\ stack' = sp /\ root' = root
  BY DEF Undo, Top, Put, TopLifts
<1>2. /\ root \in Board /\ board \in Board /\ Solves(board, root) /\ StackOK(root, board, stack)
      /\ stack \in Seq(Level) /\ n \in Nat
  BY StackIs
<1>3. Len(sp) = n /\ \A i \in 1 .. n : LiftedOf(d, sp, i) = LiftedOf(board, stack, i)
  BY <1>1, <1>2, StackUndo
<1>4. ASSUME NEW i \in 1 .. n
      PROVE  sp[i].cell = stack[i].cell /\ sp[i].search = stack[i].search /\ sp[i].next_s = stack[i].next_s
  <2>1. stack[n] \in Level /\ n \in 1 .. n BY <1>1, <1>2
  <2>2. sp = [stack EXCEPT ![n] = [stack[n] EXCEPT !.placed = Empty]] BY <1>1, <1>2 DEF TopLifts
  <2> DEFINE t == [stack[n] EXCEPT !.placed = Empty]
  <2>3. t.cell = stack[n].cell /\ t.search = stack[n].search /\ t.next_s = stack[n].next_s BY <2>1 DEF Level
  <2> HIDE DEF t, sp
  <2>4. sp[i] = IF i = n THEN t ELSE stack[i] BY <1>2, <2>2 DEF t
  <2> QED BY <2>3, <2>4
<1> HIDE DEF sp, d
<1>5. \A x : \A i \in 1 .. n : StillAt(d, sp, i, x) <=> StillAt(board, stack, i, x) BY <1>3, <1>4, StillSame
<1>6. \A x : StillOpen(d, sp, x) <=> StillOpen(board, stack, x) BY <1>3, <1>5 DEF StillOpen
<1>7. ~ Live /\ ~ Live' BY <1>1 DEF Live
<1> QED BY <1>1, <1>6, <1>7, OpenIs

\* Nothing is under the candidates of the top level whose pieces are used.
LEMMA UsedIsDead ==
  ASSUME EngineInv, Top > 0, stack[Top].placed = Empty,
         NEW x \in AllSolutions, Solves(x, board),
         NEW t \in 1 .. Len(stack[Top].search), stack[Top].search[t] = x[TopCell]
  PROVE  stack[Top].search[t][1] \notin used
<1>1. Top \in 1 .. Top /\ Top \in 1 .. Len(stack) BY StackIs
<1>2. LiftedOf(board, stack, Top) = board
  <2>1. ~ \E j \in Top .. Len(stack) : stack[j].placed # Empty BY StackIs
  <2> QED BY <2>1, StackIs DEF LiftedOf, Board
<1>3. board[TopCell] = Empty /\ stack[Top].search[t] # Empty /\ TopCell \in Cells
  BY <1>1, <1>2, LeftIs, LevelIs DEF TopCell
<1>4. GoodBoard(x) BY SolutionIs
<1>5. x[TopCell][1] \notin Used(board) BY <1>3, <1>4, StackIs, SolutionFits
<1> QED BY <1>5 DEF EngineInv, KeptInv

\* The solutions under the top level are those under the board that is tried
\* and under the candidates after it.
LEMMA TriedIs ==
  ASSUME EngineInv, Top > 0, stack[Top].placed = Empty, TopFree # {}, NEW x \in AllSolutions
  PROVE  StillAt(board, stack, Top, x) <=>
           \/ Solves(x, TriedBoard)
           \/ Solves(x, board) /\ \E t \in FirstFree + 1 .. Len(stack[Top].search) : stack[Top].search[t] = x[TopCell]
<1> DEFINE c == TopCell
           p == TopPiece
           s == FirstFree
<1>1. /\ Top \in 1 .. Top /\ s \in TopFree /\ \A y \in TopFree : s <= y
      /\ stack[Top].next_s \in Nat \ {0} /\ Len(stack[Top].search) \in Nat /\ s \in Nat
  BY FirstFreeIs, StackIs
<1>2. s \in stack[Top].next_s .. Len(stack[Top].search) BY <1>1 DEF TopFree
<1>3. LiftedOf(board, stack, Top) = board
  <2>1. ~ \E j \in Top .. Len(stack) : stack[j].placed # Empty BY StackIs
  <2> QED BY <2>1, StackIs DEF LiftedOf, Board
<1>4. s \in 1 .. Len(stack[Top].search) BY <1>1, <1>2
<1>5. board[c] = Empty /\ p # Empty /\ c \in Cells BY <1>1, <1>3, <1>4, LeftIs, LevelIs DEF TopCell, TopPiece
<1>6. Solves(x, TriedBoard) <=> Solves(x, board) /\ x[c] = p
  BY <1>5, StackIs DEF TriedBoard, Put, Solves, Board
<1>7. StillAt(board, stack, Top, x) <=>
        Solves(x, board) /\ \E t \in stack[Top].next_s .. Len(stack[Top].search) : stack[Top].search[t] = x[c]
  BY <1>3 DEF StillAt, TopCell
<1>8. stack[Top].search[s] = p BY DEF TopPiece
<1> HIDE DEF c, p, s
<1>9. ASSUME Solves(x, board), NEW t \in stack[Top].next_s .. Len(stack[Top].search), stack[Top].search[t] = x[c]
      PROVE  t = s \/ t \in s + 1 .. Len(stack[Top].search)
  <2>1. t \in 1 .. Len(stack[Top].search) BY <1>1
  <2>2. t \in TopFree BY <1>9, <2>1, UsedIsDead DEF TopFree, c
  <2> QED BY <1>1, <2>1, <2>2
<1>10. \A t \in s + 1 .. Len(stack[Top].search) : t \in stack[Top].next_s .. Len(stack[Top].search)
  BY <1>1, <1>2
<1>11. StillAt(board, stack, Top, x) =>
         Solves(x, TriedBoard) \/ (Solves(x, board) /\ \E t \in s + 1 .. Len(stack[Top].search) : stack[Top].search[t] = x[c])
  BY <1>6, <1>7, <1>8, <1>9
<1>12. Solves(x, TriedBoard) => StillAt(board, stack, Top, x) BY <1>2, <1>6, <1>7, <1>8
<1>13. (Solves(x, board) /\ \E t \in s + 1 .. Len(stack[Top].search) : stack[Top].search[t] = x[c])
         => StillAt(board, stack, Top, x)
  BY <1>7, <1>10
<1> QED BY <1>11, <1>12, <1>13 DEF c, s

\* Both forward checks are right: no solution is under a board they condemn. A
\* neighbour has no free candidate, or two neighbours need the same piece.
LEMMA DeadIsRight ==
  ASSUME EngineInv, Top > 0, stack[Top].placed = Empty, TopFree # {}, DeadCell # NoCell,
         NEW x \in AllSolutions
  PROVE  ~ Solves(x, TriedBoard)
<1> SUFFICES ASSUME Solves(x, TriedBoard) PROVE FALSE OBVIOUS
<1> DEFINE c == TopCell
           p == TopPiece
           b == TriedBoard
           key(k) == what_search_in_grid_to_key(b, Neighbour(c, k))
           us == used \cup {p[1]}
<1>1. /\ FirstFree \in TopFree /\ Top \in 1 .. Len(stack)
      /\ FirstFree \in stack[Top].next_s .. Len(stack[Top].search)
  BY FirstFreeIs DEF TopFree
<1>2. /\ board[c] = Empty /\ c \in Cells /\ p \in Rotated
      /\ p \in Compartment(what_search_in_grid_to_key(board, c))
  BY <1>1, StackIs, StackPlace DEF Top, TopCell, TopPiece
<1>3. /\ constraints = bt_init_constraints(board) /\ used = Used(board) /\ cell_mask = bt_mask_init(constraints)
  BY DEF EngineInv, KeptInv
<1>4. p[1] \notin Used(board) BY <1>1, <1>3 DEF TopFree, TopPiece
<1>5. /\ b \in Board /\ us = Used(b)
  <2>1. b = [board EXCEPT ![c] = p] BY DEF TriedBoard, Put
  <2>2. GoodBoard(board) /\ p \in Rotated /\ p[1] \notin Used(board) BY <1>2, <1>4, StackIs
  <2>3. [board EXCEPT ![c] = p] \in Board /\ Used([board EXCEPT ![c] = p]) = Used(board) \cup {p[1]}
    <3> HIDE DEF c, p, b
    <3> QED BY <1>2, <2>2, PlaceUsed
  <2> QED BY <1>3, <2>1, <2>3
<1>6. TriedKeys = bt_init_constraints(b)
  BY <1>2, <1>3, StackIs, PlaceKeys DEF TriedKeys, TriedBoard, Put
<1>7. TriedMask = bt_mask_init(bt_init_constraints(b))
  BY <1>2, <1>3, <1>6, StackIs, RefreshMask DEF TriedMask, TriedBoard, Put
<1>8. x \in [Cells -> Rotated] /\ GoodBoard(x) BY SolutionIs
<1> HIDE DEF c, p, b, us
<1>9. ASSUME NEW k \in EmptySides(b, c)
      PROVE  /\ k \in NeighbourSides(c) /\ Neighbour(c, k) \in Cells
             /\ x[Neighbour(c, k)] \in FreePieces(TriedKeys[Neighbour(c, k)], us)
             /\ ~ (TriedMask[Neighbour(c, k)] \subseteq us)
  <2> DEFINE e == Neighbour(c, k)
  <2>1. k \in NeighbourSides(c) /\ e \in Cells /\ b[e] = Empty BY DEF EmptySides, NeighbourSides
  <2>2. x[e] # Empty BY <1>8, <2>1, PieceType
  <2>3. x[e] \in Compartment(what_search_in_grid_to_key(b, e)) /\ x[e][1] \notin Used(b)
    BY <1>5, <1>8, <2>1, <2>2, SolutionFits DEF b
  <2>4. TriedKeys[e] = what_search_in_grid_to_key(b, e) BY <1>6, <2>1 DEF bt_init_constraints
  <2>5. what_search_in_grid_to_key(b, e) \in Keys BY <1>5, <2>1, KeyType
  <2>6. Range(buildBigArray[TriedKeys[e]]) = Compartment(what_search_in_grid_to_key(b, e)) BY <2>4, <2>5, BucketIs
  <2>7. x[e] \in FreePieces(TriedKeys[e], us) BY <1>5, <2>3, <2>6 DEF FreePieces
  <2>8. x[e][1] \in TriedMask[e] BY <1>5, <1>7, <2>1, <2>3, MaskIs
  <2> QED BY <1>5, <2>1, <2>3, <2>7, <2>8
<1>10. DeadCell = IF possibility_placed_count(b) >= Parts THEN NoCell
                  ELSE IF opt.singleton THEN bt_forward_check(b, TriedKeys, us, c)
                  ELSE bt_forward_check_fast(b, TriedMask, us, c)
  BY DEF DeadCell, b, us, c, p
<1>11. CASE bt_forward_check_fast(b, TriedMask, us, c) # NoCell
  <2> DEFINE D == {k \in EmptySides(b, c) : TriedMask[Neighbour(c, k)] \subseteq us}
  <2>1. FirstDead(D, c) # NoCell BY <1>11 DEF bt_forward_check_fast
  <2>2. D # {} BY <2>1 DEF FirstDead
  <2> QED BY <1>9, <2>2
<1>12. CASE bt_forward_check(b, TriedKeys, us, c) # NoCell
  <2> DEFINE free(k) == FreePieces(TriedKeys[Neighbour(c, k)], us)
             dead(k) == \/ free(k) = {}
                        \/ \E j \in EmptySides(b, c) :
                             /\ j < k
                             /\ \E v \in free(k), q \in free(j) :
                                  free(k) = {v} /\ free(j) = {q} /\ v[1] = q[1]
             D == {k \in EmptySides(b, c) : dead(k)}
  <2>1. FirstDead(D, c) # NoCell BY <1>12 DEF bt_forward_check
  <2>2. D # {} BY <2>1 DEF FirstDead
  <2>3. PICK k \in EmptySides(b, c) : dead(k) BY <2>2
  <2>4. x[Neighbour(c, k)] \in free(k) /\ k \in NeighbourSides(c) /\ Neighbour(c, k) \in Cells BY <1>9
  <2>5. PICK j \in EmptySides(b, c) : j < k /\ \E v \in free(k), q \in free(j) :
                                  free(k) = {v} /\ free(j) = {q} /\ v[1] = q[1]
    BY <2>3, <2>4
  <2>6. x[Neighbour(c, j)] \in free(j) /\ j \in NeighbourSides(c) /\ Neighbour(c, j) \in Cells BY <1>9
  <2> HIDE DEF free
  <2>7. x[Neighbour(c, k)][1] = x[Neighbour(c, j)][1] BY <2>4, <2>5, <2>6
  <2>8. x[Neighbour(c, k)] # Empty /\ x[Neighbour(c, j)] # Empty BY <1>8, <2>4, <2>6, PieceType
  <2>9. Neighbour(c, k) = Neighbour(c, j) BY <1>8, <2>4, <2>6, <2>7, <2>8 DEF GoodBoard, Apart
  <2>10. k \in Sides /\ j \in Sides /\ k \in Int /\ j \in Int BY <2>4, <2>6 DEF NeighbourSides, Sides
  <2>11. k = j BY <1>2, <2>9, <2>10, NeighbourOnce
  <2> QED BY <2>5, <2>10, <2>11
<1> QED BY <1>10, <1>11, <1>12

\* A trial moves the solutions of the candidate from its level to the board, or
\* drops a candidate without any.
LEMMA TryOpen == EngineInv /\ TryCandidate => OpenSolutions' = OpenSolutions
<1> SUFFICES ASSUME EngineInv, TryCandidate PROVE OpenSolutions' = OpenSolutions OBVIOUS
<1> DEFINE n == Top
           s == FirstFree
           Later(x) == \E t \in s + 1 .. Len(stack[n].search) : stack[n].search[t] = x[TopCell]
<1>1. /\ engPc = "backtrack" /\ Top > 0 /\ stack[Top].placed = Empty /\ TopFree # {}
      /\ UNCHANGED <<root, opt, engRequest>>
  BY TryIs
<1>2. /\ s \in TopFree /\ n \in 1 .. Len(stack) /\ s \in Nat /\ stack[n] \in Level
      /\ s \in stack[n].next_s .. Len(stack[n].search)
      /\ stack[n].next_s \in Nat \ {0} /\ Len(stack[n].search) \in Nat
  BY <1>1, FirstFreeIs DEF TopFree
<1>3. /\ n = Len(stack) /\ n \in Nat /\ n > 0 /\ stack \in Seq(Level)
      /\ root \in Board /\ board \in Board /\ Solves(board, root) /\ StackOK(root, board, stack)
  BY <1>1, StackIs
<1>4. \A x \in AllSolutions : StillAt(board, stack, n, x) <=> Solves(x, TriedBoard) \/ (Solves(x, board) /\ Later(x))
  BY <1>1, TriedIs
<1>5. \A x : StillOpen(board, stack, x) <=>
        (\E i \in 1 .. n - 1 : StillAt(board, stack, i, x)) \/ StillAt(board, stack, n, x)
  BY <1>3, StillBelowTop
<1>6. LiftedOf(board, stack, n) = board
  <2>1. ~ \E j \in n .. Len(stack) : stack[j].placed # Empty BY <1>1, <1>3
  <2> QED BY <2>1, <1>3 DEF LiftedOf, Board
<1>7. ~ Live BY <1>1 DEF Live
<1>8. CASE DeadCell # NoCell
  <2>1. /\ stack' = TopPasses /\ board' = board /\ engPc' = "backtrack" /\ root' = root
    BY <1>1, <1>8, TryIs
  <2> DEFINE sp == TopPasses
             t == [stack[n] EXCEPT !.next_s = s + 1]
  <2>2. t.cell = stack[n].cell /\ t.search = stack[n].search /\ t.next_s = s + 1 /\ t.placed = stack[n].placed
    BY <1>2 DEF Level
  <2>3. sp = [stack EXCEPT ![n] = t] BY <1>2 DEF TopPasses
  <2> HIDE DEF sp, t
  <2>4. Len(sp) = n /\ sp[n] = t /\ \A i \in 1 .. n : i # n => sp[i] = stack[i] BY <1>2, <1>3, <2>3
  <2>5. \A i \in 1 .. n : sp[i].cell = stack[i].cell /\ sp[i].search = stack[i].search /\ sp[i].placed = stack[i].placed
    BY <2>2, <2>4
  <2>6. ASSUME NEW i \in 1 .. n PROVE LiftedOf(board, sp, i) = LiftedOf(board, stack, i)
    <3>1. \A j \in i .. n : j \in 1 .. n BY <1>3
    <3>2. \A e \in Cells : (\E j \in i .. Len(sp) : sp[j].placed # Empty /\ sp[j].cell = e)
            <=> (\E j \in i .. Len(stack) : stack[j].placed # Empty /\ stack[j].cell = e)
      BY <1>3, <2>4, <2>5, <3>1
    <3> QED BY <3>2 DEF LiftedOf
  <2>7. \A x : \A i \in 1 .. n - 1 : StillAt(board, sp, i, x) <=> StillAt(board, stack, i, x)
    <3>1. \A i \in 1 .. n - 1 : i \in 1 .. n /\ i # n BY <1>3
    <3>2. \A i \in 1 .. n - 1 : LiftedOf(board, sp, i) = LiftedOf(board, stack, i) /\ sp[i] = stack[i] BY <2>4, <2>6, <3>1
    <3> QED BY <3>2, StillSame
  <2>8. \A x : StillAt(board, sp, n, x) <=> Solves(x, board) /\ Later(x)
    <3>1. n \in 1 .. n BY <1>3
    <3>2. LiftedOf(board, sp, n) = board BY <1>6, <2>6, <3>1
    <3> QED BY <2>2, <2>4, <3>2 DEF StillAt, TopCell
  <2>9. \A x : StillOpen(board, sp, x) <=>
          (\E i \in 1 .. n - 1 : StillAt(board, sp, i, x)) \/ StillAt(board, sp, n, x)
    BY <1>3, <2>4, StillBelowTop
  <2>10. \A x \in AllSolutions : ~ Solves(x, TriedBoard) BY <1>1, <1>8, DeadIsRight
  <2>11. \A x \in AllSolutions : StillOpen(board, sp, x) <=> StillOpen(board, stack, x)
    BY <1>4, <1>5, <2>7, <2>8, <2>9, <2>10
  <2>12. ~ Live' BY <2>1 DEF Live
  <2>13. \A x \in SolutionsBelow(root) : x \in AllSolutions BY DEF SolutionsBelow
  <2> QED BY <1>7, <2>1, <2>11, <2>12, <2>13, OpenIs DEF sp
<1>9. CASE DeadCell = NoCell
  <2> DEFINE sp == TopPlaces(stack, s)
             d == TriedBoard
  <2>1. /\ stack' = sp /\ board' = d /\ engPc' \in {"budget", "node"} /\ root' = root
    BY <1>1, <1>9, TryIs
  <2>2. Len(sp) = n /\ \A i \in 1 .. n : LiftedOf(d, sp, i) = LiftedOf(board, stack, i)
    BY <1>1, <1>2, <1>3, StackPlace DEF TriedBoard, TopCell, TopPiece
  <2> DEFINE t == [stack[n] EXCEPT !.next_s = s + 1, !.placed = stack[n].search[s]]
  <2>3. t.cell = stack[n].cell /\ t.search = stack[n].search /\ t.next_s = s + 1
    BY <1>2 DEF Level
  <2>4. sp = [stack EXCEPT ![n] = t] BY <1>2, <1>3 DEF TopPlaces
  <2> HIDE DEF sp, t, d
  <2>5. sp[n] = t /\ \A i \in 1 .. n : i # n => sp[i] = stack[i] BY <1>2, <1>3, <2>4
  <2>6. \A x : \A i \in 1 .. n - 1 : StillAt(d, sp, i, x) <=> StillAt(board, stack, i, x)
    <3>1. \A i \in 1 .. n - 1 : i \in 1 .. n /\ i # n BY <1>3
    <3>2. \A i \in 1 .. n - 1 : LiftedOf(d, sp, i) = LiftedOf(board, stack, i) /\ sp[i] = stack[i] BY <2>2, <2>5, <3>1
    <3> QED BY <3>2, StillSame
  <2>7. \A x : StillAt(d, sp, n, x) <=> Solves(x, board) /\ Later(x)
    <3>1. n \in 1 .. n BY <1>3
    <3>2. LiftedOf(d, sp, n) = board BY <1>6, <2>2, <3>1
    <3> QED BY <2>3, <2>5, <3>2 DEF StillAt, TopCell
  <2>8. \A x : StillOpen(d, sp, x) <=>
          (\E i \in 1 .. n - 1 : StillAt(d, sp, i, x)) \/ StillAt(d, sp, n, x)
    BY <1>3, <2>2, StillBelowTop
  <2>9. \A x \in AllSolutions : Solves(x, d) \/ StillOpen(d, sp, x) <=> StillOpen(board, stack, x)
    BY <1>4, <1>5, <2>6, <2>7, <2>8 DEF d
  <2>10. Live' BY <2>1 DEF Live
  <2>11. \A x \in SolutionsBelow(root) : x \in AllSolutions BY DEF SolutionsBelow
  <2> QED BY <1>7, <2>1, <2>9, <2>10, <2>11, OpenIs
<1> QED BY <1>8, <1>9

\* A level is left only when nothing is under it.
LEMMA PopOpen == EngineInv /\ PopLevel => OpenSolutions' = OpenSolutions
<1> SUFFICES ASSUME EngineInv, PopLevel PROVE OpenSolutions' = OpenSolutions OBVIOUS
<1> DEFINE n == Len(stack)
           sp == SubSeq(stack, 1, n - 1)
<1>1. /\ engPc = "backtrack" /\ engPc' = "backtrack" /\ Top > 0 /\ stack[Top].placed = Empty
      /\ \A t \in stack[Top].next_s .. Len(stack[Top].search) : stack[Top].search[t][1] \in used
      /\ stack' = sp /\ board' = board /\ root' = root
  BY DEF PopLevel, Top
<1>2. /\ root \in Board /\ board \in Board /\ StackOK(root, board, stack) /\ n \in Nat /\ Top = n
  BY StackIs
<1>3. /\ Len(sp) = n - 1
      /\ \A i \in 1 .. n - 1 : sp[i] = stack[i] /\ LiftedOf(board, sp, i) = LiftedOf(board, stack, i)
  BY <1>1, <1>2, StackPop
<1> HIDE DEF sp
<1>4. \A x : \A i \in 1 .. n - 1 : StillAt(board, sp, i, x) <=> StillAt(board, stack, i, x) BY <1>3, StillSame
<1>5. \A x : StillOpen(board, stack, x) <=>
        (\E i \in 1 .. n - 1 : StillAt(board, stack, i, x)) \/ StillAt(board, stack, n, x)
  BY <1>1, <1>2, StillBelowTop
<1>6. ASSUME NEW x \in AllSolutions, StillAt(board, stack, n, x) PROVE FALSE
  <2>1. LiftedOf(board, stack, n) = board
    <3>1. ~ \E j \in n .. Len(stack) : stack[j].placed # Empty BY <1>1, <1>2
    <3> QED BY <3>1, <1>2 DEF LiftedOf, Board
  <2>2. PICK t \in stack[n].next_s .. Len(stack[n].search) : stack[n].search[t] = x[stack[n].cell]
    BY <1>6 DEF StillAt
  <2>3. Solves(x, board) BY <1>6, <2>1 DEF StillAt
  <2>4. n \in 1 .. Top BY <1>1, <1>2
  <2>5. t \in 1 .. Len(stack[Top].search) BY <1>2, <2>4, LevelIs
  <2>6. stack[Top].search[t] = x[TopCell] BY <1>2, <2>2 DEF TopCell
  <2>7. stack[Top].search[t][1] \notin used BY <1>1, <2>3, <2>5, <2>6, UsedIsDead
  <2> QED BY <1>1, <1>2, <2>2, <2>7
<1>7. \A x \in AllSolutions : StillOpen(board, sp, x) <=> StillOpen(board, stack, x)
  BY <1>3, <1>4, <1>5, <1>6 DEF StillOpen
<1>8. ~ Live /\ ~ Live' BY <1>1 DEF Live
<1>9. \A x \in SolutionsBelow(root) : x \in AllSolutions BY DEF SolutionsBelow
<1> QED BY <1>1, <1>7, <1>8, <1>9, OpenIs

\* What the levels and the board hold, and what the moved levels hold.
LEMMA MovedOpen ==
  ASSUME EngineInv, AllPlaced(stack), NEW r, EmitInv(r), NEW x \in SolutionsBelow(root)
  PROVE  /\ StillOpen(board, Moved(r), x) <=> StillOpen(board, stack, x) /\ x \notin Taken(r)
         /\ x \in Taken(r) => StillOpen(board, stack, x) /\ ~ Solves(x, board)
<1>1. x \in AllSolutions BY DEF SolutionsBelow
<1>2. StillOpen(board, stack, x) <=> \E i \in 1 .. Top : \E s \in Left(i) : x \in SolutionsBelow(Emitted(i, s))
  BY <1>1, StillIsRegion
<1>3. x \in Taken(r) <=> \E i \in 1 .. Top : \E s \in Left(i) : Passed(r, i, s) /\ x \in SolutionsBelow(Emitted(i, s))
  BY TakenIs
<1>4. \A i \in 1 .. Top : /\ Moved(r)[i].cell = stack[i].cell /\ Moved(r)[i].search = stack[i].search
                          /\ Moved(r)[i].next_s = r.next[i]
                          /\ LiftedOf(board, Moved(r), i) = LiftedOf(board, stack, i)
  BY MovedIs
<1>5. Len(Moved(r)) = Top BY MovedIs
<1>6. ASSUME NEW i \in 1 .. Top
      PROVE  StillAt(board, Moved(r), i, x) <=> \E s \in Left(i) : ~ Passed(r, i, s) /\ x \in SolutionsBelow(Emitted(i, s))
  <2>1. /\ stack[i].next_s \in Nat /\ Len(stack[i].search) \in Nat /\ Lifted(i) = LiftedOf(board, stack, i) BY LevelIs
  <2>2. stack[i].next_s <= r.next[i] /\ r.next[i] \in Nat BY DEF EmitInv, EmitType
  <2>3. \A s : s \in r.next[i] .. Len(stack[i].search) <=> s \in Left(i) /\ ~ Passed(r, i, s)
    BY <2>1, <2>2 DEF Left, Passed
  <2>4. \A s \in Left(i) : x \in SolutionsBelow(Emitted(i, s)) <=> Solves(x, Lifted(i)) /\ x[stack[i].cell] = stack[i].search[s]
    BY <1>1, RegionIs
  <2>5. StillAt(board, Moved(r), i, x) <=>
          Solves(x, Lifted(i)) /\ \E s \in r.next[i] .. Len(stack[i].search) : stack[i].search[s] = x[stack[i].cell]
    BY <1>4, <2>1 DEF StillAt
  <2> QED BY <2>3, <2>4, <2>5
<1>7. StillOpen(board, Moved(r), x) <=>
        \E i \in 1 .. Top : \E s \in Left(i) : ~ Passed(r, i, s) /\ x \in SolutionsBelow(Emitted(i, s))
  BY <1>5, <1>6 DEF StillOpen
<1>8. ASSUME NEW i \in 1 .. Top, NEW s \in Left(i), NEW j \in 1 .. Top, NEW t \in Left(j),
             x \in SolutionsBelow(Emitted(i, s)), x \in SolutionsBelow(Emitted(j, t))
      PROVE  Passed(r, i, s) <=> Passed(r, j, t)
  <2>1. i = j /\ s = t BY <1>8, RegionsApart
  <2> QED BY <2>1
<1>9. x \in Taken(r) => StillOpen(board, stack, x) BY <1>2, <1>3
<1>10. x \in Taken(r) => ~ Solves(x, board) BY <1>3, RegionApartFromBoard
<1>11. StillOpen(board, Moved(r), x) => StillOpen(board, stack, x) /\ x \notin Taken(r)
  BY <1>2, <1>3, <1>7, <1>8
<1>12. StillOpen(board, stack, x) /\ x \notin Taken(r) => StillOpen(board, Moved(r), x) BY <1>2, <1>3, <1>7
<1> QED BY <1>9, <1>10, <1>11, <1>12

-----------------------------------------------------------------------------
(* The refinement: the steps of Exploration. *)

Under(boards) == UNION {SolutionsBelow(b) : b \in boards}
Verdict == CASE engPc \in {"node", "choose", "backtrack"} -> "running"
             [] engPc = "budget" -> "unknown"
             [] OTHER -> engPc

\* Packets are good boards below the root, that share no solution.
PacketsGood(boards) ==
  /\ \A b \in boards : GoodBoard(b) /\ Solves(b, root)
  /\ \A b, d \in boards : \A x : x \in SolutionsBelow(b) /\ x \in SolutionsBelow(d) => b = d
\* A step hands out no packet, or packets whose solutions it closes here, or (when
\* the exchange breaks) leaves open and known to be doubled.
HandsOut ==
  \/ UNCHANGED <<sent, kept, doubled>>
  \/ \E boards : /\ HandsTo(boards) /\ PacketsGood(boards)
                 /\ Under(boards) \subseteq OpenSolutions
                 /\ Under(boards) \cap OpenSolutions' = {} \/ boards \subseteq doubled'

\* The boards of a packet are those of different candidates.
LEMMA PacketsApart ==
  ASSUME EngineInv, NEW r, EmitInv(r)
  PROVE  PacketsGood(r.out)
<1>1. \A b \in r.out : \E i \in 1 .. Top : \E s \in Left(i) : b = Emitted(i, s) BY DEF EmitInv
<1>2. \A b \in r.out : GoodBoard(b) /\ Solves(b, root) BY TakenIs
<1>3. ASSUME NEW b \in r.out, NEW d \in r.out, NEW x, x \in SolutionsBelow(b), x \in SolutionsBelow(d)
      PROVE b = d
  <2>1. PICK i \in 1 .. Top : \E s \in Left(i) : b = Emitted(i, s) BY <1>1
  <2>2. PICK s \in Left(i) : b = Emitted(i, s) BY <2>1
  <2>3. PICK j \in 1 .. Top : \E t \in Left(j) : d = Emitted(j, t) BY <1>1
  <2>4. PICK t \in Left(j) : d = Emitted(j, t) BY <2>3
  <2>5. i = j /\ s = t BY <1>3, <2>2, <2>4, RegionsApart
  <2> QED BY <2>2, <2>4, <2>5
<1> QED BY <1>2, <1>3 DEF PacketsGood

\* How the state of the engine is seen from the exploration.
LEMMA VerdictIs ==
  /\ engPc \in {"node", "choose", "backtrack"} => Verdict = "running"
  /\ engPc = "budget" => Verdict = "unknown"
  /\ engPc \notin {"node", "choose", "backtrack", "budget"} => Verdict = engPc
  /\ engPc' \in {"node", "choose", "backtrack"} => Verdict' = "running"
  /\ engPc' = "budget" => Verdict' = "unknown"
  /\ engPc' \notin {"node", "choose", "backtrack", "budget"} => Verdict' = engPc'
  /\ engPc' = engPc => Verdict' = Verdict
BY DEF Verdict

\* A step that changes nothing the exploration sees is a stutter of it.
LEMMA ExplorationStutters ==
  ASSUME OpenSolutions' = OpenSolutions, found' = found, sent' = sent, kept' = kept, lost' = lost,
         Verdict' = Verdict
  PROVE  UNCHANGED Abstract!exploration
BY DEF Abstract!exploration, Verdict

\* A step that reports open solutions is one of the exploration.
LEMMA ExplorationReports ==
  ASSUME Verdict = "running", NEW F \in SUBSET OpenSolutions, found' = found \cup F,
         OpenSolutions' \in {OpenSolutions, OpenSolutions \ F},
         sent' = sent, kept' = kept, lost' = lost, Verdict' \in {"running", "exit"}
  PROVE  Abstract!ExplorationNext
<1>1. Abstract!Report
  BY DEF Abstract!Report, Abstract!Share, Abstract!Receives
<1> QED BY <1>1 DEF Abstract!ExplorationNext, Verdict

\* The solutions below the boards of two sets.
LEMMA UnderBoth ==
  ASSUME NEW S, NEW T
  PROVE  UNION {SolutionsBelow(b) : b \in S \cup T} = (UNION {SolutionsBelow(b) : b \in S}) \cup Under(T)
<1> DEFINE L == UNION {SolutionsBelow(b) : b \in S \cup T}
           M == UNION {SolutionsBelow(b) : b \in S}
<1>1. \A x : x \in L <=> \E b \in S \cup T : x \in SolutionsBelow(b) OBVIOUS
<1>2. \A x : x \in M <=> \E b \in S : x \in SolutionsBelow(b) OBVIOUS
<1>3. \A x : x \in Under(T) <=> \E b \in T : x \in SolutionsBelow(b) BY DEF Under
<1> HIDE DEF L, M
<1>4. \A x : x \in L <=> x \in M \cup Under(T) BY <1>1, <1>2, <1>3
<1>5. L = M \cup Under(T) BY <1>4
<1> QED BY <1>5 DEF L, M

\* What each place receives of the packets of an exchange.
LEMMA HandsToIs ==
  ASSUME NEW boards, HandsTo(boards)
  PROVE  \E T, K : /\ Under(T) \cup Under(K) = Under(boards)
                   /\ Under(sent') = Under(sent) \cup Under(T)
                   /\ Under(kept') = Under(kept) \cup Under(K)
<1>1. PICK T, K : T \cup K = boards /\ sent' = sent \cup T /\ kept' = kept \cup K BY DEF HandsTo
<1>2. ASSUME NEW A, NEW B PROVE Under(A \cup B) = Under(A) \cup Under(B) BY UnderBoth DEF Under
<1>3. Under(T \cup K) = Under(T) \cup Under(K) BY <1>2
<1>4. Under(sent \cup T) = Under(sent) \cup Under(T) BY <1>2
<1>5. Under(kept \cup K) = Under(kept) \cup Under(K) BY <1>2
<1> QED BY <1>1, <1>3, <1>4, <1>5

\* A step that hands out boards, and reports solutions apart from them, shares
\* what is open.
LEMMA ExplorationShare ==
  ASSUME NEW F \in SUBSET OpenSolutions, NEW boards, HandsTo(boards),
         Under(boards) \subseteq OpenSolutions, F \cap Under(boards) = {},
         found' = found \cup F, lost' = lost,
         OpenSolutions' \subseteq OpenSolutions,
         OpenSolutions \ OpenSolutions' \subseteq F \cup Under(boards)
  PROVE  Abstract!Share
<1>1. PICK T, K : /\ Under(T) \cup Under(K) = Under(boards)
                  /\ Under(sent') = Under(sent) \cup Under(T)
                  /\ Under(kept') = Under(kept) \cup Under(K)
  BY HandsToIs
<1>2. /\ Under(sent) = UNION {SolutionsBelow(b) : b \in sent}
      /\ Under(kept) = UNION {SolutionsBelow(b) : b \in kept}
      /\ Under(sent') = UNION {SolutionsBelow(b) : b \in sent'}
      /\ Under(kept') = UNION {SolutionsBelow(b) : b \in kept'}
  BY DEF Under
<1> DEFINE S == UNION {SolutionsBelow(b) : b \in sent}
           S2 == UNION {SolutionsBelow(b) : b \in sent'}
           R == UNION {SolutionsBelow(b) : b \in kept}
           R2 == UNION {SolutionsBelow(b) : b \in kept'}
           U == Under(boards)
           UT == Under(T)
           UK == Under(K)
<1>3. UT \cup UK = U /\ S2 = S \cup UT /\ R2 = R \cup UK BY <1>1, <1>2
<1>4. F \cap U = {} /\ U \subseteq OpenSolutions OBVIOUS
<1>5. OpenSolutions \ OpenSolutions' \subseteq F \cup U OBVIOUS
<1> HIDE DEF S, S2, R, R2, U, UT, UK
<1>6. /\ found \subseteq found' /\ found' \ found \subseteq OpenSolutions
      /\ S \subseteq S2 /\ S2 \ S \subseteq OpenSolutions
      /\ R \subseteq R2 /\ R2 \ R \subseteq OpenSolutions
      /\ (found' \ found) \cap ((S2 \ S) \cup (R2 \ R)) = {}
      /\ OpenSolutions \ OpenSolutions' \subseteq found' \cup S2 \cup R2
  BY <1>3, <1>4, <1>5
<1>7. (UNION {SolutionsBelow(b) : b \in lost})' = UNION {SolutionsBelow(b) : b \in lost} OBVIOUS
<1> QED BY <1>6, <1>7 DEF Abstract!Share, Abstract!Receives, S, S2, R, R2

\* Such a step is one of the exploration.
LEMMA ExplorationShares ==
  ASSUME Verdict = "running", NEW F \in SUBSET OpenSolutions, NEW boards, HandsTo(boards),
         Under(boards) \subseteq OpenSolutions, F \cap Under(boards) = {},
         found' = found \cup F, lost' = lost,
         OpenSolutions' \in {OpenSolutions, OpenSolutions \ (F \cup Under(boards))}, Verdict' = "running"
  PROVE  Abstract!ExplorationNext
<1>1. OpenSolutions' \subseteq OpenSolutions /\ OpenSolutions \ OpenSolutions' \subseteq F \cup Under(boards)
  OBVIOUS
<1>2. Abstract!Share BY <1>1, ExplorationShare
<1> QED BY <1>2 DEF Abstract!ExplorationNext, Verdict

\* A step that gives back all that is open is one of the exploration.
LEMMA ExplorationGivesBack ==
  ASSUME Verdict = "running", NEW F \in SUBSET OpenSolutions, NEW boards,
         Under(boards) = OpenSolutions \ F,
         found' = found \cup F,
         \/ HandsTo(boards) /\ lost' = lost
         \/ lost' = lost \cup boards /\ sent' = sent /\ kept' = kept,
         OpenSolutions' = {}, Verdict' \in {"stopped", "exhausted"}
  PROVE  Abstract!ExplorationNext
<1>1. CASE HandsTo(boards) /\ lost' = lost
  <2>1. /\ OpenSolutions' \subseteq OpenSolutions /\ Under(boards) \subseteq OpenSolutions
        /\ OpenSolutions \ OpenSolutions' \subseteq F \cup Under(boards) /\ F \cap Under(boards) = {}
    OBVIOUS
  <2>2. Abstract!Share BY <1>1, <2>1, ExplorationShare
  <2> QED BY <2>2 DEF Abstract!ExplorationNext, Abstract!GiveBack, Verdict
<1>2. CASE lost' = lost \cup boards /\ sent' = sent /\ kept' = kept
  <2>1. UNION {SolutionsBelow(b) : b \in lost'} = (UNION {SolutionsBelow(b) : b \in lost}) \cup (OpenSolutions \ F)
    BY <1>2, UnderBoth
  <2>2. Abstract!GiveBack BY <1>2, <2>1 DEF Abstract!GiveBack, Abstract!Receives
  <2> QED BY <2>2 DEF Abstract!ExplorationNext, Verdict
<1> QED BY <1>1, <1>2

\* A step that gives up, or ends with nothing open, is one of the exploration.
LEMMA ExplorationEnds ==
  ASSUME Verdict = "running", OpenSolutions' = OpenSolutions, found' = found, sent' = sent, kept' = kept, lost' = lost,
         Verdict' \in {"stopped", "unknown"} \/ (OpenSolutions = {} /\ Verdict' = "exhausted")
  PROVE  Abstract!ExplorationNext
BY DEF Abstract!ExplorationNext, Verdict

\* A flush gives back all that is open.
LEMMA FlushExplores ==
  ASSUME EngineInv, NEW next \in {"stopped", "exhausted"}, engPc = "node",
         next = "stopped" => opt.delegate, bt_flush_pending(next)
  PROVE  Abstract!ExplorationNext /\ HandsOut
<1> DEFINE r == bt_materialize_pending(bt_count_pending)
<1>1. /\ EmitInv(r)
      /\ \A i \in 1 .. Top : \A s \in Left(i) : \A x \in SolutionsBelow(Emitted(i, s)) : Passed(r, i, s)
  BY FlushIs
<1>2. next # "exit" OBVIOUS
<1>3. Flushed(r, next) BY <1>2, FlushStep
<1>4. UNCHANGED <<root, opt, board>> BY <1>2, FlushStep
<1> HIDE DEF r
<1>5. AllPlaced(stack) /\ Live BY DEF EngineInv, LevelsInv, Live
<1>6. \A x : x \in Taken(r) <=> x \in r.solved \/ x \in Under(r.out) BY DEF Taken, Under
<1>7. \A x \in AllSolutions : StillOpen(board, stack, x) <=> x \in Taken(r)
  <2> TAKE x \in AllSolutions
  <2>1. StillOpen(board, stack, x) <=> \E i \in 1 .. Top : \E s \in Left(i) : x \in SolutionsBelow(Emitted(i, s))
    BY StillIsRegion
  <2>2. x \in Taken(r) <=> \E i \in 1 .. Top : \E s \in Left(i) : Passed(r, i, s) /\ x \in SolutionsBelow(Emitted(i, s))
    BY <1>1, TakenIs
  <2> QED BY <1>1, <2>1, <2>2
<1>8. \A x \in SolutionsBelow(root) : x \in AllSolutions BY DEF SolutionsBelow
<1>9. r.solved \subseteq SolutionsBelow(root) BY <1>1, TakenIs
<1>10. r.solved \in SUBSET OpenSolutions
  <2>1. \A x \in r.solved : x \in SolutionsBelow(root) /\ StillOpen(board, stack, x) BY <1>6, <1>7, <1>8, <1>9
  <2> QED BY <2>1, OpenIs
<1>11. Verdict = "running" BY VerdictIs
<1>12. CASE /\ engPc' = "exit" /\ \E b \in r.solved : found' = found \cup {b}
            /\ UNCHANGED <<sent, kept, doubled, lost, stack>>
  <2>1. PICK b \in r.solved : found' = found \cup {b} BY <1>12
  <2>2. Live' BY <1>12 DEF Live
  <2>3. OpenSolutions' = OpenSolutions BY <1>4, <1>5, <1>12, <2>2, OpenIs
  <2>4. {b} \in SUBSET OpenSolutions BY <1>10, <2>1
  <2>5. Verdict' = "exit" BY <1>12, VerdictIs
  <2>6. Abstract!ExplorationNext BY <1>11, <1>12, <2>1, <2>3, <2>4, <2>5, ExplorationReports
  <2> QED BY <1>12, <2>6 DEF HandsOut
<1>13. CASE /\ engPc' = next /\ found' = found \cup r.solved
            /\ \/ HandsTo(r.out \cup {board}) /\ lost' = lost
               \/ lost' = lost \cup (r.out \cup {board}) /\ UNCHANGED <<sent, kept, doubled>>
            /\ stack' = <<>>
  <2> DEFINE boards == r.out \cup {board}
  <2>1. ~ Live' BY <1>4, <1>13 DEF Live
  <2>2. ~ \E x : StillOpen(board', stack', x)
    <3>1. Len(<<>>) = 0 BY EmptySeq
    <3> QED BY <1>13, <3>1 DEF StillOpen
  <2>3. OpenSolutions' = {} BY <2>1, <2>2, OpenIs
  <2>4. Under(boards) = OpenSolutions \ r.solved
    <3>1. \A x : x \in Under(boards) <=> x \in Under(r.out) \/ x \in SolutionsBelow(board) BY DEF Under
    <3>2. \A b \in r.out : Solves(b, root) BY <1>1, TakenIs
    <3>3. \A x : x \in Under(r.out) => x \in SolutionsBelow(root)
      <4> SUFFICES ASSUME NEW b \in r.out, NEW x \in SolutionsBelow(b) PROVE x \in SolutionsBelow(root) BY DEF Under
      <4> QED BY <3>2, StackIs DEF SolutionsBelow, Solves, GoodBoard, Board
    <3>4. \A x : x \in SolutionsBelow(board) <=> x \in SolutionsBelow(root) /\ Solves(x, board)
      BY StackIs DEF SolutionsBelow, Solves, Board
    <3>5. \A x : ~ (x \in r.solved /\ x \in Under(r.out)) BY <1>1, TakenIs DEF Under
    <3>6. \A x \in SolutionsBelow(root) : x \in Taken(r) => ~ Solves(x, board) BY <1>1, <1>5, MovedOpen
    <3>7. ASSUME NEW x PROVE x \in Under(boards) <=> x \in OpenSolutions \ r.solved
      <4>1. x \in OpenSolutions <=> x \in SolutionsBelow(root) /\ (Solves(x, board) \/ StillOpen(board, stack, x))
        BY <1>5, OpenIs
      <4> QED BY <1>6, <1>7, <1>8, <3>1, <3>3, <3>4, <3>5, <3>6, <4>1
    <3> QED BY <3>7
  <2>5. Verdict' = next BY <1>13, VerdictIs
  <2> HIDE DEF boards
  <2>6. \/ HandsTo(boards) /\ lost' = lost
        \/ lost' = lost \cup boards /\ UNCHANGED <<sent, kept, doubled>>
    BY <1>13 DEF boards
  <2>7. Abstract!ExplorationNext BY <1>10, <1>11, <1>13, <2>3, <2>4, <2>5, <2>6, ExplorationGivesBack
  <2>8. PacketsGood(boards)
    <3>1. PacketsGood(r.out) /\ GoodBoard(board) /\ Solves(board, root) BY <1>1, PacketsApart, StackIs
    <3>2. ASSUME NEW b \in r.out, NEW x, x \in SolutionsBelow(b), x \in SolutionsBelow(board) PROVE FALSE
      <4>1. x \in Taken(r) BY <1>6, <3>2 DEF Under
      <4>2. Solves(x, board) BY <3>2, BelowIs
      <4>3. x \in SolutionsBelow(root) BY <3>1, <3>2, StackIs DEF SolutionsBelow, Solves, Board
      <4> QED BY <1>1, <1>5, <4>1, <4>2, <4>3, MovedOpen
    <3> QED BY <3>1, <3>2 DEF PacketsGood, boards
  <2>9. HandsOut BY <2>3, <2>4, <2>6, <2>8 DEF HandsOut
  <2> QED BY <2>7, <2>9
<1> QED BY <1>3, <1>12, <1>13 DEF Flushed

\* A delegation shares out the candidates it takes from the levels.
LEMMA DelegateExplores ==
  ASSUME EngineInv, bt_delegate_if_needed
  PROVE  Abstract!ExplorationNext /\ HandsOut
<1>1. /\ engPc = "node" /\ ~ Complete /\ UNCHANGED <<root, board, lost>> BY DelegateStep
<1>2. PICK max : Delegated(bt_materialize_pending(max)) BY DelegateStep
<1> DEFINE r == bt_materialize_pending(max)
<1>3. EmitInv(r) /\ Delegated(r) BY <1>2, MaterializeIs DEF LevelAt
<1> HIDE DEF r
<1>4. AllPlaced(stack) /\ Live BY <1>1 DEF EngineInv, LevelsInv, Live
<1>5. engPc' \in {"exit", "choose"} BY <1>3 DEF Delegated
<1>6. Live' BY <1>5 DEF Live
<1>7. \A x : x \in Taken(r) <=> x \in r.solved \/ x \in Under(r.out) BY DEF Taken, Under
<1>8. \A x \in SolutionsBelow(root) :
        /\ StillOpen(board, Moved(r), x) <=> StillOpen(board, stack, x) /\ x \notin Taken(r)
        /\ x \in Taken(r) => StillOpen(board, stack, x) /\ ~ Solves(x, board)
  BY <1>3, <1>4, MovedOpen
<1>9. \A x \in Taken(r) : x \in SolutionsBelow(root)
  <2>1. \A b \in r.out : Solves(b, root) BY <1>3, TakenIs
  <2>2. ASSUME NEW b \in r.out, NEW x \in SolutionsBelow(b) PROVE x \in SolutionsBelow(root)
    BY <2>1, StackIs DEF SolutionsBelow, Solves, GoodBoard, Board
  <2>3. \A x \in r.solved : x \in SolutionsBelow(root) BY <1>3, TakenIs
  <2> QED BY <2>2, <2>3 DEF Taken
<1>10. Taken(r) \subseteq OpenSolutions BY <1>8, <1>9, OpenIs
<1>11. r.solved \in SUBSET OpenSolutions /\ Under(r.out) \subseteq OpenSolutions BY <1>7, <1>10
<1>12. r.solved \cap Under(r.out) = {} BY <1>3, TakenIs DEF Under
<1>13. Verdict = "running" /\ Verdict' \in {"running", "exit"} /\ (engPc' = "choose" => Verdict' = "running")
  BY <1>1, <1>5, VerdictIs
<1>14. CASE /\ engPc' = "choose" /\ found' = found \cup r.solved
            /\ HandsTo(r.out) /\ stack' = Moved(r)
  <2>1. \A x : x \in OpenSolutions' <=> x \in OpenSolutions /\ x \notin Taken(r)
    <3> TAKE x
    <3>1. x \in OpenSolutions' <=> x \in SolutionsBelow(root) /\ (Solves(x, board) \/ StillOpen(board, Moved(r), x))
      BY <1>1, <1>6, <1>14, OpenIs
    <3>2. x \in OpenSolutions <=> x \in SolutionsBelow(root) /\ (Solves(x, board) \/ StillOpen(board, stack, x))
      BY <1>4, OpenIs
    <3> QED BY <1>8, <3>1, <3>2
  <2>2. OpenSolutions' = OpenSolutions \ (r.solved \cup Under(r.out)) BY <1>7, <2>1
  <2>3. Abstract!ExplorationNext BY <1>1, <1>11, <1>12, <1>13, <1>14, <2>2, ExplorationShares
  <2>4. PacketsGood(r.out) BY <1>3, PacketsApart
  <2>5. Under(r.out) \cap OpenSolutions' = {} BY <2>2
  <2> QED BY <1>11, <1>14, <2>3, <2>4, <2>5 DEF HandsOut
<1>15. CASE /\ engPc' = "choose" /\ found' = found \cup r.solved
            /\ HandsTo(r.out) /\ r.out \subseteq doubled' /\ stack' = stack
  <2>1. OpenSolutions' = OpenSolutions BY <1>1, <1>4, <1>6, <1>15, OpenIs
  <2>2. OpenSolutions' \in {OpenSolutions, OpenSolutions \ (r.solved \cup Under(r.out))} BY <2>1
  <2>3. Abstract!ExplorationNext BY <1>1, <1>11, <1>12, <1>13, <1>15, <2>2, ExplorationShares
  <2>4. PacketsGood(r.out) BY <1>3, PacketsApart
  <2> QED BY <1>11, <1>15, <2>3, <2>4 DEF HandsOut
<1>16. CASE UNCHANGED <<sent, kept, doubled, stack>>
  <2>1. OpenSolutions' = OpenSolutions BY <1>1, <1>4, <1>6, <1>16, OpenIs
  <2>2. \E F \in SUBSET OpenSolutions : found' = found \cup F
    <3>1. \/ \E b \in r.solved : found' = found \cup {b}
          \/ found' = found \cup r.solved
          \/ found' = found
      BY <1>3 DEF Delegated
    <3>2. CASE \E b \in r.solved : found' = found \cup {b}
      <4>1. PICK b \in r.solved : found' = found \cup {b} BY <3>2
      <4>2. {b} \in SUBSET OpenSolutions BY <1>11
      <4> QED BY <4>1, <4>2
    <3>3. CASE found' = found \cup r.solved BY <1>11, <3>3
    <3>4. CASE found' = found
      <4>1. found' = found \cup {} BY <3>4
      <4> QED BY <4>1
    <3> QED BY <3>1, <3>2, <3>3, <3>4
  <2>3. PICK F \in SUBSET OpenSolutions : found' = found \cup F BY <2>2
  <2>4. OpenSolutions' \in {OpenSolutions, OpenSolutions \ F} BY <2>1
  <2>5. Abstract!ExplorationNext BY <1>1, <1>13, <1>16, <2>3, <2>4, ExplorationReports
  <2> QED BY <1>16, <2>5 DEF HandsOut
<1> QED BY <1>3, <1>14, <1>15, <1>16 DEF Delegated

\* A complete board is reported once: the levels hold its brothers only.
LEMMA SolutionExplores ==
  ASSUME EngineInv, SolutionReached
  PROVE  Abstract!ExplorationNext
<1>1. /\ engPc = "node" /\ Complete /\ UNCHANGED <<root, opt, board, stack, sent, kept, lost>>
      /\ engPc' \in {"exit", "backtrack"} /\ found' = found \cup {board}
  <2>1. engPc = "node" /\ Complete /\ record_solution({board}, "backtrack")
        /\ UNCHANGED <<root, opt, board, stack, sent, kept, lost>>
    BY DEF SolutionReached, engine
  <2>2. \/ engPc' = "exit" /\ \E b \in {board} : found' = found \cup {b}
        \/ engPc' = "backtrack" /\ found' = found \cup {board}
    BY <2>1, RecordIs
  <2> QED BY <2>1, <2>2
<1>2. AllPlaced(stack) /\ Live BY <1>1 DEF EngineInv, LevelsInv, Live
<1>3. /\ board \in [Cells -> Rotated] /\ GoodBoard(board) /\ Solves(board, root)
      /\ \A x : x \in SolutionsBelow(root) /\ Solves(x, board) => x = board
  <2>1. EmptyCells(board) = {} /\ GoodBoard(board) /\ board \in Board /\ Solves(board, root)
    BY <1>1, CompleteIs, StackIs
  <2>2. \A x : x \in SolutionsBelow(root) => x \in Board BY BelowIs DEF GoodBoard
  <2> QED BY <2>1, <2>2 DEF EmptyCells, Solves, Board
<1>4. board \in SolutionsBelow(root) /\ Solves(board, board)
  BY <1>3, BelowIs DEF Solves
<1>5. {board} \in SUBSET OpenSolutions BY <1>2, <1>4, OpenIs
<1>6. Verdict = "running" /\ Verdict' \in {"running", "exit"} BY <1>1, VerdictIs
<1>7. ~ StillOpen(board, stack, board)
  <2>1. board \in AllSolutions BY <1>4 DEF SolutionsBelow
  <2>2. StillOpen(board, stack, board) => \E i \in 1 .. Top : \E s \in Left(i) : board \in SolutionsBelow(Emitted(i, s))
    BY <2>1, StillIsRegion
  <2> QED BY <1>2, <1>4, <2>2, RegionApartFromBoard
<1>8. OpenSolutions' \in {OpenSolutions, OpenSolutions \ {board}}
  <2>1. CASE engPc' = "exit"
    <3>1. Live' BY <2>1 DEF Live
    <3>2. OpenSolutions' = OpenSolutions BY <1>1, <1>2, <3>1, OpenIs
    <3> QED BY <3>2
  <2>2. CASE engPc' = "backtrack"
    <3>1. ~ Live' BY <2>2 DEF Live
    <3>2. ASSUME NEW x PROVE x \in OpenSolutions' <=> x \in OpenSolutions \ {board}
      <4>1. x \in OpenSolutions' <=> x \in SolutionsBelow(root) /\ StillOpen(board, stack, x)
        BY <1>1, <3>1, OpenIs
      <4>2. x \in OpenSolutions <=> x \in SolutionsBelow(root) /\ (Solves(x, board) \/ StillOpen(board, stack, x))
        BY <1>2, OpenIs
      <4> QED BY <1>3, <1>7, <4>1, <4>2
    <3> QED BY <3>2
  <2> QED BY <1>1, <2>1, <2>2
<1> QED BY <1>1, <1>5, <1>6, <1>8, ExplorationReports

\* Every step of the engine is a step of Exploration, or changes nothing of it.
LEMMA SearchExplores ==
  EngineInv /\ [SearchNext]_engineVars => [Abstract!ExplorationNext]_(Abstract!exploration)
<1> SUFFICES ASSUME EngineInv, [SearchNext]_engineVars
             PROVE  Abstract!ExplorationNext \/ UNCHANGED Abstract!exploration
  OBVIOUS
<1>1. CASE Descend
  <2>1. engPc \in {"node", "choose"} /\ engPc' = "backtrack" /\ UNCHANGED outcome BY <1>1 DEF Descend
  <2>2. Verdict' = Verdict BY <2>1, VerdictIs
  <2> QED BY <1>1, <2>1, <2>2, DescendOpen, ExplorationStutters DEF outcome
<1>2. CASE Undo
  <2>1. engPc' = engPc /\ UNCHANGED outcome BY <1>2 DEF Undo
  <2>2. Verdict' = Verdict BY <2>1, VerdictIs
  <2> QED BY <1>2, <2>1, <2>2, UndoOpen, ExplorationStutters DEF outcome
<1>3. CASE TryCandidate
  <2>1. engPc = "backtrack" /\ engPc' \in {"backtrack", "budget", "node"} /\ UNCHANGED outcome BY <1>3, TryIs
  <2>2. OpenSolutions' = OpenSolutions BY <1>3, TryOpen
  <2>3. Verdict = "running" /\ Verdict' \in {"running", "unknown"} BY <2>1, VerdictIs
  <2>4. CASE Verdict' = "running" BY <2>1, <2>2, <2>3, <2>4, ExplorationStutters DEF outcome
  <2>5. CASE Verdict' = "unknown" BY <2>1, <2>2, <2>3, <2>5, ExplorationEnds DEF outcome
  <2> QED BY <2>3, <2>4, <2>5
<1>4. CASE PopLevel
  <2>1. engPc' = engPc /\ UNCHANGED outcome BY <1>4 DEF PopLevel
  <2>2. Verdict' = Verdict BY <2>1, VerdictIs
  <2> QED BY <1>4, <2>1, <2>2, PopOpen, ExplorationStutters DEF outcome
<1>5. CASE Exhaust
  <2>1. engPc = "backtrack" /\ Top = 0 /\ engPc' = "exhausted" /\ UNCHANGED <<root, opt, board, stack, outcome>>
    BY <1>5 DEF Exhaust, engine
  <2>2. ~ Live /\ ~ Live' BY <2>1 DEF Live
  <2>3. ~ \E x : StillOpen(board, stack, x) BY <2>1, StackIs DEF StillOpen
  <2>4. OpenSolutions = {} BY <2>2, <2>3, OpenIs
  <2>5. OpenSolutions' = {} BY <2>1, <2>2, <2>3, OpenIs
  <2>6. Verdict = "running" /\ Verdict' = "exhausted" BY <2>1, VerdictIs
  <2> QED BY <2>1, <2>4, <2>5, <2>6, ExplorationEnds DEF outcome
<1>6. CASE SolutionReached BY <1>6, SolutionExplores
<1>7. CASE StopRequested
  <2>1. CASE opt.delegate BY <1>7, <2>1, FlushExplores DEF StopRequested
  <2>2. CASE ~ opt.delegate
    <3>1. engPc = "node" /\ engPc' = "stopped" /\ UNCHANGED <<root, opt, board, stack, outcome>>
      BY <1>7, <2>2 DEF StopRequested, engine
    <3>2. Live /\ Live' BY <2>2, <3>1 DEF Live
    <3>3. OpenSolutions' = OpenSolutions BY <3>1, <3>2, OpenIs
    <3>4. Verdict = "running" /\ Verdict' = "stopped" BY <3>1, VerdictIs
    <3> QED BY <3>1, <3>3, <3>4, ExplorationEnds DEF outcome
  <2> QED BY <2>1, <2>2
<1>8. CASE bt_abandon_shallow_root BY <1>8, FlushExplores DEF bt_abandon_shallow_root, CheckDue
<1>9. CASE bt_delegate_if_needed BY <1>9, DelegateExplores
<1>10. ASSUME UNCHANGED <<root, opt, board, stack, engPc, outcome>> PROVE UNCHANGED Abstract!exploration
  <2>1. Live' <=> Live BY <1>10 DEF Live
  <2>2. OpenSolutions' = OpenSolutions BY <1>10, <2>1, OpenIs
  <2>3. Verdict' = Verdict BY <1>10, VerdictIs
  <2> QED BY <1>10, <2>2, <2>3, ExplorationStutters DEF outcome
<1>11. CASE RequestChanges BY <1>10, <1>11 DEF RequestChanges, engine
<1>12. CASE UNCHANGED engineVars BY <1>10, <1>12 DEF engineVars, engine
<1> QED BY <1>1, <1>2, <1>3, <1>4, <1>5, <1>6, <1>7, <1>8, <1>9, <1>11, <1>12 DEF SearchNext, EngineStep

\* search_packet_backtracking_mrv explores: no pruning, no delegation, no flush
\* and no short proof closes a solution that was not reported or sent, and a
\* root is exhausted only when nothing is open under it.
THEOREM SearchIsExploration == SearchSpec => ImplementsExploration
<1>1. SearchInit => Abstract!ExplorationInit
  <2> SUFFICES ASSUME SearchInit PROVE Abstract!ExplorationInit OBVIOUS
  <2>1. OpenSolutions \in SUBSET AllSolutions BY DEF OpenSolutions, SolutionsBelow
  <2>2. found = {} /\ sent = {} /\ kept = {} /\ lost = {} /\ engPc = "node" BY DEF SearchInit
  <2>3. Verdict = "running" BY <2>2, VerdictIs
  <2>4. /\ UNION {SolutionsBelow(b) : b \in sent} = {} /\ UNION {SolutionsBelow(b) : b \in kept} = {}
        /\ UNION {SolutionsBelow(b) : b \in lost} = {}
    BY <2>2
  <2> QED BY <2>1, <2>2, <2>3, <2>4 DEF Abstract!ExplorationInit, Verdict
<1>2. SearchInit => EngineInv BY EngineInvInit
<1>3. EngineInv /\ [SearchNext]_engineVars => EngineInv' BY EngineInvNext
<1>4. EngineInv /\ [SearchNext]_engineVars => [Abstract!ExplorationNext]_(Abstract!exploration) BY SearchExplores
<1> QED BY <1>1, <1>2, <1>3, <1>4, PTL DEF SearchSpec, ImplementsExploration, Abstract!ExplorationSpec

-----------------------------------------------------------------------------
(* The judgements of the pruner and of the expansion. *)

\* The free pieces of a cell are those of its compartment that are not used.
LEMMA FreeIs ==
  ASSUME NEW b \in Board, NEW c \in Cells, NEW us
  PROVE  /\ what_search_in_grid_to_key(b, c) \in Keys
         /\ \A p : p \in FreePieces(what_search_in_grid_to_key(b, c), us)
                     <=> p \in Compartment(what_search_in_grid_to_key(b, c)) /\ p[1] \notin us
<1> DEFINE key == what_search_in_grid_to_key(b, c)
<1>1. key \in Keys BY KeyType
<1> HIDE DEF key
<1>2. Range(buildBigArray[key]) = Compartment(key) BY <1>1, BucketIs
<1>3. \A p : p \in FreePieces(key, us) <=> p \in Compartment(key) /\ p[1] \notin us BY <1>2 DEF FreePieces
<1> QED BY <1>1, <1>3 DEF key

\* A solution puts a free piece on every empty cell of a board it extends.
LEMMA SolutionFree ==
  ASSUME NEW b \in Board, NEW c \in Cells, b[c] = Empty, NEW x \in SolutionsBelow(b)
  PROVE  x[c] \in FreePieces(what_search_in_grid_to_key(b, c), Used(b)) /\ x[c] \in Rotated
<1>1. x \in [Cells -> Rotated] /\ GoodBoard(x) /\ Solves(x, b) BY BelowIs
<1>2. x[c] # Empty /\ x[c] \in Rotated BY <1>1, PieceType
<1>3. x[c] \in Compartment(what_search_in_grid_to_key(b, c)) /\ x[c][1] \notin Used(b) BY <1>1, <1>2, SolutionFits
<1> QED BY <1>2, <1>3, FreeIs

\* light_free_count is 0 when no piece is free, and 1 only when one piece is,
\* although the rotations of a piece may be apart in their compartment.
LEMMA CountIs ==
  ASSUME NEW key \in Keys, NEW us
  PROVE  /\ light_free_count(key, us) = 0 <=> FreePieces(key, us) = {}
         /\ light_free_count(key, us) = 1 => \A p, q \in FreePieces(key, us) : p[1] = q[1]
<1> DEFINE bucket == buildBigArray[key]
           free == {i \in DOMAIN bucket : bucket[i][1] \notin us}
           C == CountedEntries(bucket, us)
<1>1. bucket \in Seq(Rotated) BY BucketIs
<1>2. DOMAIN bucket = 1 .. Len(bucket) /\ Len(bucket) \in Nat BY <1>1
<1>3. \A p : p \in FreePieces(key, us) <=> \E i \in free : bucket[i] = p BY DEF FreePieces, Range
<1>4. \A i : i \in C <=> i \in free /\ ~ \E j \in free : /\ j < i /\ bucket[j][1] = bucket[i][1]
                                                        /\ ~ \E m \in free : j < m /\ m < i
  BY DEF CountedEntries
<1>5. light_free_count(key, us) = Cardinality(C) BY DEF light_free_count
<1>6. free \in SUBSET Nat BY <1>2
<1>7. IsFiniteSet(C)
  <2>1. IsFiniteSet(1 .. Len(bucket)) BY <1>2, Interval
  <2>2. C \in SUBSET (1 .. Len(bucket)) BY <1>2, <1>4
  <2> HIDE DEF C, bucket
  <2> QED BY <2>1, <2>2, FS_Subset
<1> HIDE DEF C, bucket, free
<1>8. ASSUME NEW i \in free, \A j \in free : i <= j PROVE i \in C BY <1>4, <1>6, <1>8
<1>9. C = {} <=> free = {}
  <2>1. CASE free # {}
    <3>1. PICK i \in free : \A j \in free : i <= j BY <1>6, <2>1, Least
    <3> QED BY <1>8, <2>1, <3>1
  <2> QED BY <1>4, <2>1
<1>10. ASSUME Cardinality(C) = 1, NEW i \in free, NEW j \in free PROVE bucket[i][1] = bucket[j][1]
  <2>1. PICK k : C = {k} BY <1>7, <1>10, FS_Singleton
  <2>2. PICK f \in free : \A m \in free : f <= m BY <1>6, <1>10, Least
  <2>3. f \in C BY <1>8, <2>2
  <2> DEFINE D == {m \in free : bucket[m][1] # bucket[f][1]}
  <2>4. D = {}
    <3> SUFFICES ASSUME D # {} PROVE FALSE OBVIOUS
    <3>1. D \in SUBSET Nat BY <1>6
    <3> HIDE DEF D
    <3>2. PICK l \in D : \A m \in D : l <= m BY <3>1, Least
    <3>3. l \in free /\ bucket[l][1] # bucket[f][1] BY DEF D
    <3>4. ASSUME NEW m \in free, m < l, bucket[m][1] = bucket[l][1] PROVE FALSE
      <4>1. m \in D BY <3>3, <3>4 DEF D
      <4> QED BY <1>6, <3>1, <3>2, <3>4, <4>1
    <3>5. l \in C BY <1>4, <3>3, <3>4
    <3> QED BY <2>1, <2>3, <3>3, <3>5
  <2> QED BY <2>4
<1>11. Cardinality(C) = 0 <=> C = {} BY <1>7, FS_EmptySet
<1> QED BY <1>3, <1>5, <1>9, <1>10, <1>11

\* The board a forcing pass has reached keeps the solutions it started from; a
\* board it has condemned has none.
Forced == [b : Board, alive : BOOLEAN, forced : BOOLEAN]
Sound(b, n, r) ==
  /\ r \in Forced
  /\ r.alive => SolutionsBelow(r.b) = SolutionsBelow(b)
  /\ ~ r.alive => SolutionsBelow(b) = {}

\* A visit of one cell (possibility_all_has_a_next_counted).
LEMMA ForceSound ==
  ASSUME NEW b, NEW n, NEW m, NEW r, Sound(b, n, r), NEW c \in Cells
  PROVE  Sound(b, m, ForceAt(r, c))
<1> DEFINE key == what_search_in_grid_to_key(r.b, c)
           bucket == buildBigArray[key]
           free == FreePieces(key, Used(r.b))
           forced == [r EXCEPT !.b[c] = bucket[1], !.forced = TRUE]
           stuck == [r EXCEPT !.alive = FALSE]
<1>1. r \in Forced /\ r.b \in Board BY DEF Sound, Forced
<1>2. key \in Keys BY <1>1, KeyType
<1>3. ForceAt(r, c) = IF ~ r.alive \/ r.b[c] # Empty \/ key = Unconstrained THEN r
                      ELSE IF free = {} THEN stuck
                      ELSE IF Len(bucket) = 1 THEN forced ELSE r
  BY DEF ForceAt
<1>4. CASE r.alive /\ r.b[c] = Empty /\ free = {} /\ ForceAt(r, c) = stuck
  <2>1. SolutionsBelow(r.b) = {}
    <3> SUFFICES ASSUME NEW x \in SolutionsBelow(r.b) PROVE FALSE OBVIOUS
    <3> QED BY <1>1, <1>4, SolutionFree
  <2>2. stuck \in Forced /\ stuck.alive = FALSE BY <1>1 DEF Forced
  <2> HIDE DEF stuck
  <2> QED BY <1>4, <2>1, <2>2 DEF Sound
<1>5. CASE r.alive /\ r.b[c] = Empty /\ free # {} /\ Len(bucket) = 1 /\ ForceAt(r, c) = forced
  <2> DEFINE d == Put(r.b, c, bucket[1])
  <2>1. forced.b = d /\ forced.alive = TRUE /\ forced \in [b : {d}, alive : BOOLEAN, forced : BOOLEAN]
    BY <1>1, <1>5 DEF Forced, Put
  <2>2. \A p \in Compartment(key) : \E s \in 1 .. Len(bucket) : bucket[s] = p BY <1>2, BucketIs
  <2>3. bucket[1] \in Compartment(key) /\ Compartment(key) \subseteq Rotated BY <1>2, <1>5, BucketIs
  <2>4. d \in Board BY <1>1, <2>3 DEF Board, Put
  <2>5. \A p \in Compartment(key) : p = bucket[1] BY <1>5, <2>2
  <2>6. \A p \in free : p \in Compartment(key) BY <1>1, FreeIs
  <2> HIDE DEF bucket
  <2>7. ASSUME NEW x \in SolutionsBelow(r.b) PROVE Solves(x, d)
    <3>1. x[c] = bucket[1] BY <1>1, <1>5, <2>5, <2>6, SolutionFree
    <3>2. Solves(x, r.b) BY <2>7, BelowIs
    <3> QED BY <1>1, <3>1, <3>2 DEF Solves, Put, Board
  <2>8. ASSUME NEW x, Solves(x, d) PROVE Solves(x, r.b) BY <1>1, <1>5, <2>8 DEF Solves, Put, Board
  <2>9. SolutionsBelow(d) = SolutionsBelow(r.b) BY <2>7, <2>8 DEF SolutionsBelow
  <2>10. forced \in Forced BY <2>1, <2>4 DEF Forced
  <2> HIDE DEF forced, d
  <2> QED BY <1>5, <2>1, <2>9, <2>10 DEF Sound
<1>6. CASE ForceAt(r, c) = r BY <1>6 DEF Sound
<1> HIDE DEF free, stuck, forced, bucket, key
<1> QED BY <1>3, <1>4, <1>5, <1>6

\* A pass visits the cells in their order; the passes go on while they force.
ForceOp(x, y, r, c) == ForceAt(r, c)
ForceFold == INSTANCE Iteration WITH Op <- ForceOp, P <- Sound
PassOp(x, y, r, i) == IF r.alive /\ r.forced THEN ForcePass(r.b) ELSE r
PassFold == INSTANCE Iteration WITH Op <- PassOp, P <- Sound
InOrder == [i \in 1 .. Parts |-> CellAt(i - 1)]
AllPasses == [i \in 1 .. Parts + 1 |-> i]

\* One pass over the cells.
LEMMA PassSound ==
  ASSUME NEW b \in Board, NEW n
  PROVE  Sound(b, n, ForcePass(b))
<1> DEFINE start == [b |-> b, alive |-> TRUE, forced |-> FALSE]
           g == CHOOSE g : ForceFold!IsFold(0, 0, start, InOrder, g)
<1>1. Parts \in Nat /\ DOMAIN InOrder = 1 .. Parts BY CellsFinite DEF InOrder
<1>2. ForceFold!IsFold(0, 0, start, InOrder, g) BY <1>1, ForceFold!FoldExists
<1>3. ForcePass(b) = g[DOMAIN InOrder]
  BY DEF ForcePass, FoldLeft, MapThenFoldSet, ForceFold!IsFold, ForceFold!Step, ForceOp,
         ForceFold!Last, Max, InOrder
<1>4. Sound(b, 0, start)
  <2>1. start \in Forced /\ start.alive = TRUE /\ start.b = b BY DEF Forced
  <2> HIDE DEF start
  <2> QED BY <2>1 DEF Sound
<1> HIDE DEF g, start
<1>5. \A k \in 1 .. Parts : \A v : Sound(b, k - 1, v) => Sound(b, k, ForceOp(0, 0, v, InOrder[k]))
  <2> SUFFICES ASSUME NEW k \in 1 .. Parts, NEW v, Sound(b, k - 1, v) PROVE Sound(b, k, ForceAt(v, InOrder[k]))
    BY DEF ForceOp
  <2>1. InOrder[k] = CellAt(k - 1) /\ k - 1 \in 0 .. Parts - 1 BY <1>1 DEF InOrder
  <2>2. InOrder[k] \in Cells BY <2>1, PosIs
  <2> QED BY <2>2, ForceSound
<1>6. Sound(b, Parts, g[DOMAIN InOrder]) BY <1>1, <1>2, <1>4, <1>5, ForceFold!FoldInduction
<1> QED BY <1>3, <1>6 DEF Sound

\* possibility_all_has_a_next loses no solution of a board it forces pieces on,
\* and condemns only boards that have none.
LEMMA ForcingSound ==
  ASSUME NEW b \in Board
  PROVE  LET r == possibility_all_has_a_next(b)
         IN  /\ r.alive => SolutionsBelow(r.b) = SolutionsBelow(b)
             /\ ~ r.alive => SolutionsBelow(b) = {}
<1> DEFINE start == [b |-> b, alive |-> TRUE, forced |-> TRUE]
           g == CHOOSE g : PassFold!IsFold(0, 0, start, AllPasses, g)
<1>1. Parts + 1 \in Nat /\ DOMAIN AllPasses = 1 .. Parts + 1 BY CellsFinite DEF AllPasses
<1>2. PassFold!IsFold(0, 0, start, AllPasses, g) BY <1>1, PassFold!FoldExists
<1>3. possibility_all_has_a_next(b) = g[DOMAIN AllPasses]
  BY DEF possibility_all_has_a_next, FoldLeft, MapThenFoldSet, PassFold!IsFold, PassFold!Step, PassOp,
         PassFold!Last, Max, AllPasses
<1>4. Sound(b, 0, start)
  <2>1. start \in Forced /\ start.alive = TRUE /\ start.b = b BY DEF Forced
  <2> HIDE DEF start
  <2> QED BY <2>1 DEF Sound
<1> HIDE DEF g, start
<1>5. \A k \in 1 .. Parts + 1 : \A v : Sound(b, k - 1, v) => Sound(b, k, PassOp(0, 0, v, AllPasses[k]))
  <2> SUFFICES ASSUME NEW k \in 1 .. Parts + 1, NEW v, Sound(b, k - 1, v)
               PROVE  Sound(b, k, PassOp(0, 0, v, AllPasses[k]))
    OBVIOUS
  <2>1. CASE v.alive /\ v.forced
    <3>1. v.b \in Board /\ SolutionsBelow(v.b) = SolutionsBelow(b) BY <2>1 DEF Sound, Forced
    <3>2. Sound(v.b, k, ForcePass(v.b)) BY <3>1, PassSound
    <3>3. PassOp(0, 0, v, AllPasses[k]) = ForcePass(v.b) BY <2>1 DEF PassOp
    <3> QED BY <3>1, <3>2, <3>3 DEF Sound
  <2>2. CASE ~ (v.alive /\ v.forced)
    <3>1. PassOp(0, 0, v, AllPasses[k]) = v BY <2>2 DEF PassOp
    <3> QED BY <3>1 DEF Sound
  <2> QED BY <2>1, <2>2
<1>6. Sound(b, Parts + 1, g[DOMAIN AllPasses]) BY <1>1, <1>2, <1>4, <1>5, PassFold!FoldInduction
<1> QED BY <1>3, <1>6 DEF Sound

\* light_choose_cell gives up only on a board without solutions, or complete.
LEMMA LightChoice ==
  ASSUME NEW b \in Board
  PROVE  /\ light_choose_cell(b) # NoCell => light_choose_cell(b) \in EmptyCells(b)
         /\ light_choose_cell(b) = NoCell => SolutionsBelow(b) = {} \/ EmptyCells(b) = {}
<1> DEFINE key(c) == what_search_in_grid_to_key(b, c)
           count(c) == light_free_count(key(c), Used(b))
           bound == {c \in EmptyCells(b) : key(c) # Unconstrained}
           fewest == {c \in bound : \A d \in bound : count(c) <= count(d)}
<1>1. /\ bound \in SUBSET EmptyCells(b) /\ EmptyCells(b) \in SUBSET Cells /\ fewest \in SUBSET bound
      /\ \A c \in EmptyCells(b) : b[c] = Empty
  BY DEF EmptyCells
<1>2. light_choose_cell(b) = CASE \E c \in bound : count(c) = 0 -> NoCell
                               [] bound = {} -> IF EmptyCells(b) = {} THEN NoCell ELSE FirstCell(EmptyCells(b))
                               [] OTHER -> FirstCell(fewest)
  BY DEF light_choose_cell
<1>3. \A c \in Cells : count(c) \in Nat
  <2> SUFFICES ASSUME NEW c \in Cells PROVE count(c) \in Nat OBVIOUS
  <2> DEFINE bucket == buildBigArray[key(c)]
  <2>1. key(c) \in Keys BY KeyType
  <2>2. bucket \in Seq(Rotated) BY <2>1, BucketIs
  <2> HIDE DEF bucket
  <2>3. DOMAIN bucket = 1 .. Len(bucket) /\ Len(bucket) \in Nat BY <2>2
  <2>4. IsFiniteSet(1 .. Len(bucket)) BY <2>3, Interval
  <2>5. CountedEntries(bucket, Used(b)) \in SUBSET (1 .. Len(bucket)) BY <2>3 DEF CountedEntries
  <2>6. Cardinality(CountedEntries(bucket, Used(b))) \in Nat BY <2>4, <2>5, FS_Subset, FS_CardinalityType
  <2> QED BY <2>6 DEF light_free_count, bucket
<1>4. ASSUME NEW c \in bound, count(c) = 0 PROVE SolutionsBelow(b) = {}
  <2>1. c \in Cells /\ b[c] = Empty /\ key(c) \in Keys BY <1>1, KeyType
  <2>2. FreePieces(key(c), Used(b)) = {} BY <1>4, <2>1, CountIs
  <2> QED BY <2>1, <2>2, SolutionFree
<1>5. ASSUME bound # {} PROVE fewest # {}
  <2> DEFINE S == {count(c) : c \in bound}
  <2>1. S \in SUBSET Nat BY <1>1, <1>3
  <2>2. S # {} BY <1>5
  <2> HIDE DEF S
  <2>3. PICK n \in S : \A m \in S : n <= m BY <2>1, <2>2, Least
  <2>4. PICK c \in bound : n = count(c) BY <2>3 DEF S
  <2>5. \A d \in bound : count(d) \in S BY DEF S
  <2>6. c \in fewest BY <2>3, <2>4, <2>5
  <2> QED BY <2>6
<1>6. NoCell \notin Cells BY DEF NoCell, Cells
<1> HIDE DEF count, bound, fewest, key
<1>7. CASE \E c \in bound : count(c) = 0 BY <1>2, <1>4, <1>7
<1>8. CASE bound # {} /\ ~ \E c \in bound : count(c) = 0
  <2>1. light_choose_cell(b) = FirstCell(fewest) BY <1>2, <1>8
  <2>2. FirstCell(fewest) \in fewest
    <3>1. fewest \in SUBSET Cells /\ fewest # {} BY <1>1, <1>5, <1>8
    <3> QED BY <3>1, FirstCellIs
  <2>3. light_choose_cell(b) \in EmptyCells(b) BY <1>1, <2>1, <2>2
  <2> QED BY <1>1, <1>6, <2>3
<1>9. CASE bound = {}
  <2>1. light_choose_cell(b) = IF EmptyCells(b) = {} THEN NoCell ELSE FirstCell(EmptyCells(b)) BY <1>2, <1>9
  <2>2. EmptyCells(b) # {} => FirstCell(EmptyCells(b)) \in EmptyCells(b) BY <1>1, FirstCellIs
  <2> QED BY <1>1, <1>6, <2>1, <2>2
<1> QED BY <1>7, <1>8, <1>9

\* The child that holds the piece a solution puts on the chosen cell is not
\* dropped: light_child_is_dead judges right, with the singles of the parent.
LEMMA ChildLives ==
  ASSUME NEW b \in Board, NEW c \in Cells, b[c] = Empty, NEW x \in SolutionsBelow(b)
  PROVE  ~ light_child_is_dead(Put(b, c, x[c]), c, x[c][1], LightSingles(b))
<1> DEFINE d == Put(b, c, x[c])
<1>1. x \in [Cells -> Rotated] /\ GoodBoard(x) /\ Solves(x, b) BY BelowIs
<1>2. x[c] \in Rotated BY <1>1
<1>3. d \in Board BY <1>2 DEF Board, Put
<1>4. Solves(x, d) BY <1>1 DEF Solves, Put, Board
<1>5. x \in SolutionsBelow(d) BY <1>1, <1>4, BelowIs
<1>6. ASSUME NEW s \in LightSingles(b), s[2] = x[c][1], s[1] # c PROVE FALSE
  <2> DEFINE e == s[1]
             key == what_search_in_grid_to_key(b, e)
  <2>1. e \in EmptyCells(b) /\ light_free_count(key, Used(b)) = 1
        /\ \E p \in FreePieces(key, Used(b)) : p[1] = s[2]
    BY DEF LightSingles
  <2>2. e \in Cells /\ b[e] = Empty BY <2>1 DEF EmptyCells
  <2>3. key \in Keys BY <2>2, KeyType
  <2>4. x[e] \in FreePieces(key, Used(b)) BY <2>2, SolutionFree
  <2> HIDE DEF key
  <2>5. x[e][1] = x[c][1] BY <1>6, <2>1, <2>3, <2>4, CountIs
  <2>6. x[e] # Empty /\ x[c] # Empty BY <1>1, <2>2, PieceType
  <2> QED BY <1>1, <1>6, <2>2, <2>5, <2>6 DEF GoodBoard, Apart
<1>7. ASSUME NEW k \in NeighbourSides(c), d[Neighbour(c, k)] = Empty,
             light_free_count(what_search_in_grid_to_key(d, Neighbour(c, k)), Used(d)) = 0
      PROVE FALSE
  <2> DEFINE e == Neighbour(c, k)
             key == what_search_in_grid_to_key(d, e)
  <2>1. e \in Cells BY DEF NeighbourSides
  <2> HIDE DEF d, e
  <2>2. key \in Keys BY <1>3, <2>1, KeyType
  <2>3. x[e] \in FreePieces(key, Used(d)) BY <1>3, <1>5, <1>7, <2>1, SolutionFree DEF e
  <2>4. light_free_count(key, Used(d)) = 0 BY <1>7 DEF e
  <2> HIDE DEF key
  <2> QED BY <2>2, <2>3, <2>4, CountIs
<1> HIDE DEF d
<1> QED BY <1>6, <1>7 DEF light_child_is_dead, d

\* The pruned children of a board share out its solutions
\* (search_possiblity_light_pruned).
LEMMA ChildrenShare ==
  ASSUME NEW b \in Board, EmptyCells(b) # {}
  PROVE  UNION {SolutionsBelow(d) : d \in search_possiblity_light(b, TRUE)} = SolutionsBelow(b)
<1> DEFINE c == light_choose_cell(b)
           kids == search_possiblity_light(b, TRUE)
<1>1. kids = IF c = NoCell THEN {} ELSE ChildrenAt(b, c, TRUE) BY DEF search_possiblity_light
<1>2. CASE c = NoCell
  <2>1. SolutionsBelow(b) = {} BY <1>2, LightChoice
  <2> QED BY <1>1, <1>2, <2>1
<1>3. CASE c # NoCell
  <2> DEFINE key == what_search_in_grid_to_key(b, c)
  <2>1. c \in Cells /\ b[c] = Empty BY <1>3, LightChoice DEF EmptyCells
  <2>2. \A d : d \in kids <=> \E p \in FreePieces(key, Used(b)) :
                                 /\ ~ light_child_is_dead(Put(b, c, p), c, p[1], LightSingles(b))
                                 /\ d = Put(b, c, p)
    BY <1>1, <1>3 DEF ChildrenAt, Put
  <2> HIDE DEF c, kids, key
  <2>3. ASSUME NEW d \in kids, NEW x \in SolutionsBelow(d) PROVE x \in SolutionsBelow(b)
    <3>1. PICK p : d = Put(b, c, p) BY <2>2
    <3>2. x \in [Cells -> Rotated] /\ GoodBoard(x) /\ Solves(x, d) BY BelowIs
    <3>3. Solves(x, b) BY <2>1, <3>1, <3>2 DEF Solves, Put, Board
    <3> QED BY <3>2, <3>3, BelowIs
  <2>4. ASSUME NEW x \in SolutionsBelow(b) PROVE \E d \in kids : x \in SolutionsBelow(d)
    <3>1. x[c] \in FreePieces(key, Used(b)) BY <2>1, SolutionFree DEF key
    <3>2. ~ light_child_is_dead(Put(b, c, x[c]), c, x[c][1], LightSingles(b)) BY <2>1, ChildLives
    <3>3. Put(b, c, x[c]) \in kids BY <2>2, <3>1, <3>2
    <3>4. x \in [Cells -> Rotated] /\ GoodBoard(x) /\ Solves(x, b) BY BelowIs
    <3>5. Solves(x, Put(b, c, x[c])) BY <2>1, <3>4 DEF Solves, Put, Board
    <3>6. x \in SolutionsBelow(Put(b, c, x[c])) BY <3>4, <3>5, BelowIs
    <3> QED BY <3>3, <3>6
  <2> QED BY <2>3, <2>4 DEF kids
<1> QED BY <1>2, <1>3

-----------------------------------------------------------------------------
(* A short proof. *)

\* Emptier boards hold fewer pieces.
LEMMA PlacedLess ==
  ASSUME NEW b, NEW d, EmptyCells(b) \subseteq EmptyCells(d)
  PROVE  /\ possibility_placed_count(d) <= possibility_placed_count(b)
         /\ EmptyCells(b) # EmptyCells(d) => possibility_placed_count(d) < possibility_placed_count(b)
<1>1. /\ IsFiniteSet(EmptyCells(b)) /\ Cardinality(EmptyCells(b)) \in Nat
      /\ IsFiniteSet(EmptyCells(d)) /\ Cardinality(EmptyCells(d)) \in Nat
  BY EmptyCount, CellsFinite
<1>2. Cardinality(EmptyCells(b)) <= Cardinality(EmptyCells(d))
      /\ (Cardinality(EmptyCells(b)) = Cardinality(EmptyCells(d)) => EmptyCells(b) = EmptyCells(d))
  BY <1>1, FS_Subset
<1> QED BY <1>1, <1>2, CellsFinite DEF possibility_placed_count

\* A piece adds one to the count.
LEMMA PlacedMore ==
  ASSUME NEW b, NEW c, NEW p
  PROVE  possibility_placed_count(Put(b, c, p)) <= possibility_placed_count(b) + 1
<1> DEFINE E == EmptyCells(b)
           F == EmptyCells(Put(b, c, p))
<1>1. /\ IsFiniteSet(E) /\ Cardinality(E) \in Nat /\ IsFiniteSet(F) /\ Cardinality(F) \in Nat
  BY EmptyCount, CellsFinite
<1>2. E \subseteq F \cup {c} BY DEF EmptyCells, Put
<1> HIDE DEF E, F
<1>3. IsFiniteSet(F \cup {c}) /\ Cardinality(F \cup {c}) <= Cardinality(F) + 1
  <2>1. CASE c \in F
    <3>1. F \cup {c} = F BY <2>1
    <3>2. Cardinality(F) <= Cardinality(F) + 1 BY <1>1
    <3> QED BY <1>1, <3>1, <3>2, Zenon
  <2>2. CASE c \notin F
    <3>1. IsFiniteSet(F \cup {c}) /\ Cardinality(F \cup {c}) = Cardinality(F) + 1 BY <1>1, <2>2, FS_AddElement
    <3> QED BY <1>1, <3>1
  <2> QED BY <2>1, <2>2
<1>4. Cardinality(E) <= Cardinality(F \cup {c}) BY <1>2, <1>3, FS_Subset
<1>5. Cardinality(F \cup {c}) \in Nat BY <1>3, FS_CardinalityType
<1> QED BY <1>1, <1>3, <1>4, <1>5, CellsFinite DEF possibility_placed_count, E, F

\* A proof within a budget never places its last piece: it placed at most one
\* piece for each node it counted, and there are more cells to fill than nodes.
ProofInv ==
  ~ opt.delegate =>
    /\ found = {} /\ nodes \in Nat /\ opt.budget \in Nat \ {0}
    /\ opt.budget < Parts - possibility_placed_count(root)
    /\ possibility_placed_count(board) < possibility_placed_count(root) + nodes
    /\ engPc \in {"node", "choose", "backtrack"} => nodes <= opt.budget

\* It starts with a budget that cannot reach a complete board.
LEMMA ProofInit == SearchInit => ProofInv
<1> SUFFICES ASSUME SearchInit, ~ opt.delegate
             PROVE  /\ found = {} /\ nodes \in Nat /\ opt.budget \in Nat \ {0}
                    /\ opt.budget < Parts - possibility_placed_count(root)
                    /\ possibility_placed_count(board) < possibility_placed_count(root) + nodes
                    /\ engPc \in {"node", "choose", "backtrack"} => nodes <= opt.budget
  BY DEF ProofInv
<1>1. /\ opt \in Options /\ board = root /\ nodes = 1 /\ found = {}
      /\ opt.budget > 0 => ShortProofAllowed(root, opt.budget)
  BY DEF SearchInit
<1>2. opt.budget \in Nat /\ opt.budget > 0 BY <1>1, SearchAssumption
<1>3. possibility_placed_count(root) \in 0 .. Parts BY EmptyCount
<1>4. opt.budget < Parts - possibility_placed_count(root)
  BY <1>1, <1>2, <1>3, CellsFinite DEF ShortProofAllowed
<1> QED BY <1>1, <1>2, <1>3, <1>4, CellsFinite

\* Its board is never complete.
LEMMA ProofNotComplete ==
  ASSUME ProofInv, ~ opt.delegate, engPc \in {"node", "choose", "backtrack"}
  PROVE  ~ Complete
<1>1. possibility_placed_count(board) \in 0 .. Parts /\ possibility_placed_count(root) \in 0 .. Parts BY EmptyCount
<1> QED BY <1>1, CellsFinite DEF ProofInv, Complete

\* Every step keeps it so; only a placement counts a node.
LEMMA ProofNext == EngineInv /\ ProofInv /\ [SearchNext]_engineVars => ProofInv'
<1> SUFFICES ASSUME EngineInv, ProofInv, [SearchNext]_engineVars PROVE ProofInv' OBVIOUS
<1> DEFINE count == possibility_placed_count(board)
<1>1. opt' = opt /\ root' = root
  <2>1. CASE Descend BY <2>1 DEF Descend
  <2>2. CASE Undo BY <2>2 DEF Undo
  <2>3. CASE TryCandidate BY <2>3, TryIs
  <2>4. CASE PopLevel BY <2>4 DEF PopLevel
  <2>5. CASE Exhaust BY <2>5 DEF Exhaust
  <2>6. CASE SolutionReached BY <2>6 DEF SolutionReached
  <2>7. CASE StopRequested BY <2>7 DEF StopRequested, bt_flush_pending
  <2>8. CASE bt_abandon_shallow_root BY <2>8 DEF bt_abandon_shallow_root, bt_flush_pending
  <2>9. CASE bt_delegate_if_needed BY <2>9, DelegateStep
  <2>10. CASE RequestChanges BY <2>10 DEF RequestChanges
  <2>11. CASE UNCHANGED engineVars BY <2>11 DEF engineVars
  <2> QED BY <2>1, <2>2, <2>3, <2>4, <2>5, <2>6, <2>7, <2>8, <2>9, <2>10, <2>11 DEF SearchNext, EngineStep
<1>2. CASE opt.delegate BY <1>1, <1>2 DEF ProofInv
<1>3. CASE ~ opt.delegate
  <2>0. count \in Nat /\ possibility_placed_count(root) \in Nat BY EmptyCount, CellsFinite
  <2>1. ASSUME found' = found, nodes' = nodes, engPc' \in {"node", "choose", "backtrack"} => engPc \in {"node", "choose", "backtrack"},
               possibility_placed_count(board') <= count, possibility_placed_count(board') \in Nat
        PROVE  ProofInv'
    BY <1>1, <1>3, <2>0, <2>1 DEF ProofInv
  <2>2. board' = board => possibility_placed_count(board') <= count /\ possibility_placed_count(board') \in Nat
    BY <2>0
  <2>3. CASE Descend BY <2>1, <2>2, <2>3 DEF Descend, outcome
  <2>4. CASE Undo
    <3>1. board' = Put(board, stack[Top].cell, Empty) /\ board \in Board BY <2>4, StackIs DEF Undo, Put
    <3>2. EmptyCells(board) \subseteq EmptyCells(board') BY <3>1 DEF EmptyCells, Put, Board
    <3>3. possibility_placed_count(board') <= count BY <3>2, PlacedLess
    <3>4. possibility_placed_count(board') \in Nat BY EmptyCount, CellsFinite
    <3> QED BY <2>1, <2>4, <3>3, <3>4 DEF Undo, outcome
  <2>5. CASE TryCandidate
    <3>1. CASE DeadCell # NoCell BY <2>1, <2>2, <2>5, <3>1, TryIs DEF outcome
    <3>2. CASE DeadCell = NoCell
      <4>1. board' = TriedBoard /\ found' = found /\ engPc = "backtrack" BY <2>5, <3>2, TryIs DEF outcome
      <4>2. possibility_placed_count(board') <= count + 1 BY <4>1, PlacedMore DEF TriedBoard
      <4>3. possibility_placed_count(board') \in Nat BY EmptyCount, CellsFinite
      <4>4. nodes' = nodes + 1 /\ engPc' = IF nodes' >= opt.budget THEN "budget" ELSE "node"
        <5>1. opt.budget > 0 BY <1>3 DEF ProofInv
        <5> QED BY <2>5, <3>2, <5>1, TryNodes
      <4> QED BY <1>1, <1>3, <2>0, <4>1, <4>2, <4>3, <4>4 DEF ProofInv
    <3> QED BY <3>1, <3>2
  <2>6. CASE PopLevel BY <2>1, <2>2, <2>6 DEF PopLevel, outcome
  <2>7. CASE Exhaust BY <2>1, <2>2, <2>7 DEF Exhaust, outcome, engine
  <2>8. CASE SolutionReached BY <1>3, <2>8, ProofNotComplete DEF SolutionReached
  <2>9. CASE StopRequested BY <1>3, <2>1, <2>2, <2>9 DEF StopRequested, outcome, engine
  <2>10. CASE bt_abandon_shallow_root BY <1>3, <2>10 DEF bt_abandon_shallow_root, CheckDue
  <2>11. CASE bt_delegate_if_needed BY <1>3, <2>11 DEF bt_delegate_if_needed, CheckDue
  <2>12. CASE RequestChanges BY <2>1, <2>2, <2>12 DEF RequestChanges, outcome, engine
  <2>13. CASE UNCHANGED engineVars BY <2>1, <2>2, <2>13 DEF engineVars, outcome, engine
  <2> QED BY <2>3, <2>4, <2>5, <2>6, <2>7, <2>8, <2>9, <2>10, <2>11, <2>12, <2>13 DEF SearchNext, EngineStep
<1> QED BY <1>2, <1>3

\* What the pruner and the expansion judge of any board the engine meets is true
\* of its solutions: the pieces possibility_all_has_a_next forces lose none, a
\* board it or forward_check_next_k condemns has none, the pruned children of
\* search_possiblity_light share out those of their parent; and the proof of a
\* closure within a budget meets no complete board.
THEOREM JudgementsHold == SearchSpec => []PruningSound
<1>1. SearchInit => EngineInv BY EngineInvInit
<1>2. EngineInv /\ [SearchNext]_engineVars => EngineInv' BY EngineInvNext
<1>3. SearchInit => ProofInv BY ProofInit
<1>4. EngineInv /\ ProofInv /\ [SearchNext]_engineVars => ProofInv' BY ProofNext
<1>5. EngineInv /\ ProofInv => PruningSound
  <2> SUFFICES ASSUME EngineInv, ProofInv PROVE PruningSound OBVIOUS
  <2>1. board \in Board BY StackIs
  <2>2. possibility_all_has_a_next(board).alive => SolutionsBelow(possibility_all_has_a_next(board).b) = SolutionsBelow(board)
    BY <2>1, ForcingSound
  <2>3. ~ possibility_all_has_a_next(board).alive => SolutionsBelow(board) = {} BY <2>1, ForcingSound
  <2>4. ~ forward_check_next_k(board) => SolutionsBelow(board) = {} BY <2>1, RefusedIsDead
  <2>5. ~ Complete => UNION {SolutionsBelow(d) : d \in search_possiblity_light(board, TRUE)} = SolutionsBelow(board)
    BY <2>1, CompleteIs, ChildrenShare
  <2>6. JudgementsSound BY <2>2, <2>3, <2>4, <2>5 DEF JudgementsSound
  <2>7. ShortProofNeverSolves BY DEF ProofInv, ShortProofNeverSolves
  <2> QED BY <2>6, <2>7 DEF PruningSound
<1> QED BY <1>1, <1>2, <1>3, <1>4, <1>5, PTL DEF SearchSpec

-----------------------------------------------------------------------------
(* Work is in one place. *)

\* The packets handed out share no solution, with each other or with what is still
\* open here, and none is both with the server and in the stock of the process:
\* but for those of a broken exchange.
SharedInv ==
  LET single == (sent \cup kept) \ doubled
  IN  /\ \A b \in sent \cup kept : GoodBoard(b) /\ Solves(b, root)
      /\ \A b, d \in single : \A x : x \in SolutionsBelow(b) /\ x \in SolutionsBelow(d) => b = d
      /\ \A b \in single : \A x \in SolutionsBelow(b) : x \notin OpenSolutions
      /\ \A b \in single \cap sent \cap kept : \A x : x \notin SolutionsBelow(b)

\* The exploration closes solutions and never reopens one.
LEMMA OpenShrinks ==
  ASSUME EngineInv, [SearchNext]_engineVars
  PROVE  OpenSolutions' \subseteq OpenSolutions
<1>1. Abstract!ExplorationNext \/ UNCHANGED Abstract!exploration BY SearchExplores
<1> QED BY <1>1 DEF Abstract!ExplorationNext, Abstract!Report, Abstract!Share, Abstract!GiveBack, Abstract!Receives,
               Abstract!exploration

\* Only a delegation and a flush hand out packets.
LEMMA StepHandsOut ==
  ASSUME EngineInv, [SearchNext]_engineVars
  PROVE  HandsOut /\ root' = root
<1>1. CASE Descend BY <1>1 DEF Descend, outcome, HandsOut
<1>2. CASE Undo BY <1>2 DEF Undo, outcome, HandsOut
<1>3. CASE TryCandidate BY <1>3, TryIs DEF outcome, HandsOut
<1>4. CASE PopLevel BY <1>4 DEF PopLevel, outcome, HandsOut
<1>5. CASE Exhaust BY <1>5 DEF Exhaust, outcome, HandsOut
<1>6. CASE SolutionReached BY <1>6 DEF SolutionReached, HandsOut
<1>7. CASE StopRequested
  <2>1. CASE opt.delegate
    <3>1. engPc = "node" /\ bt_flush_pending("stopped") BY <1>7, <2>1 DEF StopRequested
    <3>2. root' = root BY <3>1 DEF bt_flush_pending
    <3> QED BY <2>1, <3>1, <3>2, FlushExplores
  <2>2. CASE ~ opt.delegate BY <1>7, <2>2 DEF StopRequested, outcome, HandsOut
  <2> QED BY <2>1, <2>2
<1>8. CASE bt_abandon_shallow_root
  <2>1. engPc = "node" /\ bt_flush_pending("exhausted") BY <1>8 DEF bt_abandon_shallow_root, CheckDue
  <2>2. root' = root BY <2>1 DEF bt_flush_pending
  <2> QED BY <2>1, <2>2, FlushExplores
<1>9. CASE bt_delegate_if_needed BY <1>9, DelegateExplores, DelegateStep
<1>10. CASE RequestChanges BY <1>10 DEF RequestChanges, outcome, HandsOut
<1>11. CASE UNCHANGED engineVars BY <1>11 DEF engineVars, outcome, HandsOut
<1> QED BY <1>1, <1>2, <1>3, <1>4, <1>5, <1>6, <1>7, <1>8, <1>9, <1>10, <1>11 DEF SearchNext, EngineStep

\* A new packet is taken out of what was open, from which the old ones are apart.
LEMMA SharedNext == EngineInv /\ SharedInv /\ [SearchNext]_engineVars => SharedInv'
<1> SUFFICES ASSUME EngineInv, SharedInv, [SearchNext]_engineVars PROVE SharedInv' OBVIOUS
<1>1. OpenSolutions' \subseteq OpenSolutions BY OpenShrinks
<1>2. root' = root BY StepHandsOut
<1>3. CASE UNCHANGED <<sent, kept, doubled>> BY <1>1, <1>2, <1>3 DEF SharedInv
<1>4. ASSUME NEW boards, HandsTo(boards), PacketsGood(boards), Under(boards) \subseteq OpenSolutions,
             Under(boards) \cap OpenSolutions' = {} \/ boards \subseteq doubled'
      PROVE  SharedInv'
  <2> DEFINE old == (sent \cup kept) \ doubled
             single == ((sent \cup kept) \ doubled)'
  <2>1. PICK T, K : /\ T \cup K = boards /\ T \cap K \subseteq doubled'
                    /\ sent' = sent \cup T /\ kept' = kept \cup K
    BY <1>4 DEF HandsTo
  <2>2. doubled \subseteq doubled' BY <1>4 DEF HandsTo
  <2>3. \A b \in boards : \A x \in SolutionsBelow(b) : x \in OpenSolutions BY <1>4 DEF Under
  <2>4. \A b \in single : b \in old \/ b \in boards BY <2>1, <2>2
  <2>5. \A b \in old : \A x \in SolutionsBelow(b) : x \notin OpenSolutions BY DEF SharedInv
  <2>6. \A b \in boards \ doubled' : \A x \in SolutionsBelow(b) : x \notin OpenSolutions' BY <1>4 DEF Under
  <2>7. \A b \in single : b \notin doubled' OBVIOUS
  <2>8. ASSUME NEW b \in (sent \cup kept)' PROVE GoodBoard(b) /\ Solves(b, root)
    BY <1>4, <2>1, <2>8 DEF SharedInv, PacketsGood
  <2>9. ASSUME NEW b \in single, NEW x, x \in SolutionsBelow(b), x \in OpenSolutions' PROVE FALSE
    <3> HIDE DEF single, old
    <3> QED BY <1>1, <2>4, <2>5, <2>6, <2>7, <2>9
  <2>10. ASSUME NEW b \in single \cap sent' \cap kept', NEW x, x \in SolutionsBelow(b) PROVE FALSE
    <3>1. CASE b \in sent /\ b \in kept
      <4>1. b \in old BY <2>2, <3>1
      <4> QED BY <2>10, <3>1, <4>1 DEF SharedInv
    <3>2. CASE b \in T /\ b \in K BY <2>1, <2>10, <3>2
    <3>3. CASE b \in boards /\ b \in sent \cup kept
      <4>1. b \in old BY <2>2, <3>3
      <4> HIDE DEF old
      <4> QED BY <2>3, <2>5, <2>10, <3>3, <4>1
    <3> QED BY <2>1, <3>1, <3>2, <3>3
  <2>11. ASSUME NEW b \in single, NEW d \in single, NEW x, x \in SolutionsBelow(b), x \in SolutionsBelow(d)
         PROVE  b = d
    <3>1. CASE b \in old /\ d \in old BY <2>11, <3>1 DEF SharedInv
    <3> HIDE DEF single, old
    <3>2. CASE b \in boards /\ d \in boards BY <1>4, <2>11, <3>2 DEF PacketsGood
    <3>3. CASE b \in old /\ d \in boards BY <2>3, <2>5, <2>11, <3>3
    <3>4. CASE b \in boards /\ d \in old BY <2>3, <2>5, <2>11, <3>4
    <3> QED BY <2>4, <2>11, <3>1, <3>2, <3>3, <3>4
  <2> QED BY <1>2, <2>8, <2>9, <2>10, <2>11 DEF SharedInv
<1> QED BY <1>3, <1>4, StepHandsOut DEF HandsOut

\* A good board passes the check of DEBUG_CHECK_POSSIBILITY: each of its pieces
\* is counted once, and shows what its neighbours ask for.
LEMMA GoodIsChecked ==
  ASSUME NEW b, GoodBoard(b)
  PROVE  check_possibility(b)
<1> DEFINE full == Cells \ EmptyCells(b)
           f == [c \in full |-> b[c][1]]
<1>1. b \in Board /\ Apart(b) BY DEF GoodBoard
<1>2. \A c : c \in full <=> c \in Cells /\ b[c] # Empty BY DEF EmptyCells
<1>3. Used(b) = {b[c][1] : c \in full} BY DEF Used
<1>4. f \in Injection(full, Used(b))
  <2>1. f \in [full -> Used(b)] BY <1>3
  <2>2. \A c, d \in full : f[c] = f[d] => c = d BY <1>1, <1>2 DEF Apart
  <2> HIDE DEF f, full
  <2> QED BY <2>1, <2>2, Fun_IsInj
<1>5. IsFiniteSet(Used(b))
  <2>1. Used(b) \in SUBSET (1 .. Parts) BY <1>1, UsedType
  <2>2. IsFiniteSet(1 .. Parts) BY CellsFinite, Interval
  <2> QED BY <2>1, <2>2, FS_Subset
<1>6. possibility_placed_count(b) = Cardinality(full)
  <2>1. IsFiniteSet(Cells) /\ EmptyCells(b) \in SUBSET Cells BY CellsFinite DEF EmptyCells
  <2>2. Cardinality(Cells \ EmptyCells(b)) = Cardinality(Cells) - Cardinality(Cells \cap EmptyCells(b))
    BY <2>1, FS_Difference, EmptyCount
  <2>3. Cells \cap EmptyCells(b) = EmptyCells(b) BY <2>1
  <2> QED BY <2>2, <2>3, CellsFinite DEF possibility_placed_count
<1>7. Cardinality(full) <= Cardinality(Used(b)) BY <1>4, <1>5, FS_Injection
<1>8. Cardinality(Used(b)) >= possibility_placed_count(b)
  <2>1. Cardinality(Used(b)) \in Nat BY <1>5, FS_CardinalityType
  <2>2. possibility_placed_count(b) \in Nat BY EmptyCount, CellsFinite
  <2> QED BY <1>6, <1>7, <2>1, <2>2
<1>9. ASSUME NEW c \in full, NEW k \in Sides
      PROVE  what_search_in_grid_to_key(b, c)[k] \in {AllFace, Side(b[c], k)}
  <2>1. AgreesAt(b, c) BY <1>2 DEF GoodBoard
  <2> QED BY <2>1 DEF AgreesAt, what_search_in_grid_to_key
<1> QED BY <1>8, <1>9 DEF check_possibility

\* A board that keeps the pieces of the root is the root or has more of them.
LEMMA BelowRoot ==
  ASSUME NEW a \in Board, NEW b \in Board, Solves(b, a)
  PROVE  is_origin_of(a, b) \/ b = a
<1>1. EmptyCells(b) \subseteq EmptyCells(a)
  <2> SUFFICES ASSUME NEW c \in Cells, b[c] = Empty, a[c] # Empty PROVE FALSE BY DEF EmptyCells
  <2> QED BY DEF Solves
<1>2. CASE EmptyCells(b) = EmptyCells(a)
  <2>1. \A c \in Cells : b[c] = a[c] BY <1>2 DEF EmptyCells, Solves
  <2>2. b = a BY <2>1 DEF Board
  <2> QED BY <2>2
<1>3. CASE EmptyCells(b) # EmptyCells(a) BY <1>1, <1>3, PlacedLess DEF is_origin_of, Solves
<1> QED BY <1>2, <1>3

\* Whatever it delegates (bt_delegate_if_needed) and gives back when it stops or
\* abandons a shallow root (bt_flush_pending), and however the server takes, refuses
\* or breaks off the chunks of put_to_server: only the packets of an exchange that
\* broke can be in two places. No solution is under two other packets, nor under one
\* that both the server and the stock of the process have, nor under one and still
\* open here; and every packet is a board that check_possibility accepts, with the
\* pieces of the root.
THEOREM WorkIsInOnePlace == SearchSpec => []SharedWorkIsDisjoint
<1>1. SearchInit => EngineInv BY EngineInvInit
<1>2. EngineInv /\ [SearchNext]_engineVars => EngineInv' BY EngineInvNext
<1>3. SearchInit => SharedInv BY DEF SearchInit, SharedInv
<1>4. EngineInv /\ SharedInv /\ [SearchNext]_engineVars => SharedInv' BY SharedNext
<1>5. EngineInv /\ SharedInv => SharedWorkIsDisjoint
  <2> SUFFICES ASSUME EngineInv, SharedInv PROVE SharedWorkIsDisjoint OBVIOUS
  <2>1. ASSUME NEW b \in sent \cup kept PROVE check_possibility(b) /\ (is_origin_of(root, b) \/ b = root)
    <3>1. GoodBoard(b) /\ Solves(b, root) BY DEF SharedInv
    <3>2. b \in Board /\ root \in Board BY <3>1, StackIs DEF GoodBoard
    <3> QED BY <3>1, <3>2, GoodIsChecked, BelowRoot
  <2>2. ASSUME NEW x \in AllSolutions, NEW b, Solves(x, b) PROVE x \in SolutionsBelow(b) BY <2>2 DEF SolutionsBelow
  <2> QED BY <2>1, <2>2 DEF SharedWorkIsDisjoint, SharedInv
<1> QED BY <1>1, <1>2, <1>3, <1>4, <1>5, PTL DEF SearchSpec
=============================================================================
