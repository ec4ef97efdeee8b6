--------------------------- MODULE FourInRow_proofs ---------------------------
(***************************************************************************)
(* For grids of every size and every number of markers that wins: the      *)
(* players alternate whatever is clicked, the end of a game is announced   *)
(* when it has come and with the right result, and the computer misses     *)
(* neither a win nor a defence.                                            *)
(***************************************************************************)
EXTENDS FourInRow, FiniteSetTheorems, WellFoundedInduction, TLAPS

LEMMA Sizes ==
    /\ Width \in Nat /\ Height \in Nat /\ Need \in Nat
    /\ Width > 0 /\ Height > 0 /\ Need > 0
    /\ Width = 2 * Middle + 1 /\ Middle \in Nat
<1>1. Width \in Nat /\ Height \in Nat /\ Need \in Nat /\ Width > 0 /\ Height > 0 /\ Need > 0
  BY SizesAssumption
<1>2. Width % 2 = 1
  BY SizesAssumption
<1> QED
  BY <1>1, <1>2 DEF Middle

LEMMA LeastNatural ==
    ASSUME NEW S \in SUBSET Nat, S # {}
    PROVE  \E x \in S : \A y \in S : x <= y
<1> DEFINE R == {ss \in Nat \X Nat : ss[1] < ss[2]}
<1>1. IsWellFoundedOn(R, Nat)
  BY NatLessThanWellFounded DEF OpToRel
<1>2. \A i, j \in Nat : i < j => <<i, j>> \in R
  OBVIOUS
<1> HIDE DEF R
<1>3. PICK x \in S : \A y \in S : ~ (<<y, x>> \in R)
  BY <1>1, WFMin
<1>4. \A y \in S : ~ (y < x)
  BY <1>2, <1>3
<1> QED
  BY <1>4

LEMMA MinIs ==
    ASSUME NEW S \in SUBSET Nat, S # {}
    PROVE  Min(S) \in S /\ \A y \in S : Min(S) <= y
  BY LeastNatural DEF Min

LEMMA MaxIs ==
    ASSUME NEW n \in Nat, NEW S \in SUBSET (0 .. n), S # {}
    PROVE  Max(S) \in S /\ \A y \in S : Max(S) >= y
<1> DEFINE B == {m \in Nat : \A y \in S : y <= m}
<1>1. n \in B
  OBVIOUS
<1>2. PICK m \in B : \A b \in B : m <= b
  <2>1. B \in SUBSET Nat /\ B # {}
    BY <1>1
  <2> HIDE DEF B
  <2> QED
    BY <2>1, LeastNatural
<1>3. m \in S
  <2> SUFFICES ASSUME m \notin S PROVE FALSE
    OBVIOUS
  <2>1. PICK y \in S : TRUE
    OBVIOUS
  <2>2. \A z \in S : z \in Nat /\ z <= m /\ z # m
    OBVIOUS
  <2>3. m \in Nat /\ m > 0
    BY <2>1, <2>2
  <2>4. m - 1 \in B
    BY <2>2, <2>3
  <2> QED
    BY <1>2, <2>3, <2>4
<1>4. \A y \in S : m >= y
  OBVIOUS
<1> QED
  BY <1>3, <1>4 DEF Max
-----------------------------------------------------------------------------
(* A marker that is put. *)

LEMMA FreePosition ==
    ASSUME TypeOK, NEW c \in Playable
    PROVE  /\ c \in Column /\ LookupPosition(c) \in Row
           /\ GameMatrix[c][LookupPosition(c)] = 0
<1> DEFINE S == {r \in Row : GameMatrix[c][r] = 0}
<1>1. c \in Column /\ GameMatrix[c][0] = 0
  BY DEF Playable
<1>2. Height - 1 \in Nat /\ S \in SUBSET (0 .. Height - 1) /\ 0 \in S
  BY <1>1, Sizes DEF Row
<1>3. Max(S) \in S
  <2> HIDE DEF S
  <2> QED
    BY <1>2, MaxIs
<1> QED
  BY <1>1, <1>3 DEF LookupPosition

LEMMA PutMarker ==
    ASSUME TypeOK, NEW c \in Column, NEW r \in Row, NEW color \in Color, NEW matrix,
           matrix = [GameMatrix EXCEPT ![c][r] = color]
    PROVE  /\ matrix \in [Column -> [Row -> {0} \cup Color]]
           /\ \A cc \in Column, rr \in Row :
                matrix[cc][rr] = IF cc = c /\ rr = r THEN color ELSE GameMatrix[cc][rr]
  BY DEF TypeOK, Color

Steps == 0 .. Width + Height

(* Of the markers of a colour beside a position, n is as far as they go. *)
LEMMA RayIs ==
    ASSUME NEW c, NEW r, NEW dc, NEW dr, NEW color
    PROVE  /\ Ray(c, r, dc, dr, color) \in Steps
           /\ \A j \in 1 .. Ray(c, r, dc, dr, color) : checkBounds(c + j * dc, r + j * dr) = color
           /\ \A k \in Steps :
                (\A j \in 1 .. k : checkBounds(c + j * dc, r + j * dr) = color) =>
                    k <= Ray(c, r, dc, dr, color)
<1> DEFINE At(j) == checkBounds(c + j * dc, r + j * dr)
           S == {k \in Steps : \A j \in 1 .. k : At(j) = color}
<1> HIDE DEF At
<1>1. Width + Height \in Nat /\ S \in SUBSET (0 .. Width + Height) /\ 0 \in S
  BY Sizes DEF Steps
<1>2. Max(S) \in S /\ \A k \in S : Max(S) >= k
  <2> HIDE DEF S
  <2> QED
    BY <1>1, MaxIs
<1>3. Ray(c, r, dc, dr, color) = Max(S)
  BY DEF Ray, At, Steps
<1>4. \A k \in S : k \in Int
  BY DEF Steps
<1> QED
  BY <1>2, <1>3, <1>4 DEF At

LEMMA Marked ==
    ASSUME NEW c, NEW r, NEW color \in Color, checkBounds(c, r) = color
    PROVE  c \in Column /\ r \in Row /\ GameMatrix[c][r] = color
  BY DEF checkBounds, Color

LEMMA Direction ==
    ASSUME NEW d \in Directions
    PROVE  d[1] \in {0, 1} /\ d[2] \in {-1, 0, 1} /\ (d[1] = 0 => d[2] = 1)
  BY DEF Directions

(* Going on along a line, and back. *)
LEMMA Shift ==
    ASSUME NEW x \in Int, NEW d \in {-1, 0, 1}, NEW m \in Int, NEW k \in Int
    PROVE  (x + m * d) + k * d = x + (m + k) * d
<1>1. CASE d = -1
  BY <1>1
<1>2. CASE d = 0
  BY <1>2
<1>3. CASE d = 1
  BY <1>3
<1> QED
  BY <1>1, <1>2, <1>3

LEMMA ShiftBack ==
    ASSUME NEW x \in Int, NEW d \in {-1, 0, 1}, NEW m \in Int
    PROVE  x + m * (-d) = x + (-m) * d
<1>1. CASE d = -1
  BY <1>1
<1>2. CASE d = 0
  BY <1>2
<1>3. CASE d = 1
  BY <1>3
<1> QED
  BY <1>1, <1>2, <1>3

(* A marker at c that ends up in a line of Need + 1. *)
LEMMA WinsMakesLine ==
    ASSUME TypeOK, NEW c \in Playable, NEW color \in Color, Wins(c, color), NEW matrix,
           matrix = [GameMatrix EXCEPT ![c][LookupPosition(c)] = color]
    PROVE  Line(matrix, color)
<1> DEFINE r == LookupPosition(c)
<1>1. c \in Column /\ r \in Row /\ c \in Int /\ r \in Int
  BY FreePosition DEF Column, Row
<1>2. \A cc \in Column, rr \in Row :
          matrix[cc][rr] = IF cc = c /\ rr = r THEN color ELSE GameMatrix[cc][rr]
  BY <1>1, PutMarker
<1>3. PICK d \in Directions : Markers(c, r, d, color) >= Need
  BY DEF Wins
<1> HIDE DEF r
<1> DEFINE a == Ray(c, r, -d[1], -d[2], color)
           b == Ray(c, r, d[1], d[2], color)
           X(j) == c + j * d[1]
           Y(j) == r + j * d[2]
<1>d. d[1] \in {-1, 0, 1} /\ d[2] \in {-1, 0, 1}
  BY Direction
<1>4. /\ a \in Nat /\ b \in Nat /\ b + a >= Need
      /\ \A j \in 1 .. a : checkBounds(X(-j), Y(-j)) = color
      /\ \A j \in 1 .. b : checkBounds(X(j), Y(j)) = color
  <2>1. a \in Steps /\ b \in Steps
    BY RayIs
  <2>2. a \in Nat /\ b \in Nat
    BY <2>1 DEF Steps
  <2>3. b + a >= Need
    BY <1>3 DEF Markers
  <2>4. ASSUME NEW j \in 1 .. a PROVE checkBounds(X(-j), Y(-j)) = color
    <3>1. checkBounds(c + j * (-d[1]), r + j * (-d[2])) = color
      BY RayIs
    <3>2. j \in Int
      BY <2>2
    <3>3. c + j * (-d[1]) = X(-j)
      BY <1>1, <1>d, <3>2, ShiftBack, Zenon
    <3>4. r + j * (-d[2]) = Y(-j)
      BY <1>1, <1>d, <3>2, ShiftBack, Zenon
    <3> QED
      BY <3>1, <3>3, <3>4
  <2>5. \A j \in 1 .. b : checkBounds(X(j), Y(j)) = color
    BY RayIs
  <2> QED
    BY <2>2, <2>3, <2>4, <2>5
<1>5. X(0) = c /\ Y(0) = r
  BY <1>1, <1>d
<1>x. ASSUME NEW j \in Int, NEW k \in Int
      PROVE  X(j) + k * d[1] = X(j + k) /\ Y(j) + k * d[2] = Y(j + k)
  <2>1. (c + j * d[1]) + k * d[1] = c + (j + k) * d[1]
    BY <1>1, <1>d
  <2>2. (r + j * d[2]) + k * d[2] = r + (j + k) * d[2]
    BY <1>1, <1>d
  <2> QED
    BY <2>1, <2>2
<1> HIDE DEF a, b, X, Y
<1>6. \A j \in -a .. b : X(j) \in Column /\ Y(j) \in Row /\ matrix[X(j)][Y(j)] = color
  <2> TAKE j \in -a .. b
  <2>1. CASE j = 0
    BY <1>1, <1>2, <1>5, <2>1
  <2>2. CASE j # 0
    <3>1. (j \in 1 .. b) \/ (-j \in 1 .. a /\ -(-j) = j)
      BY <1>4, <2>2
    <3>2. checkBounds(X(j), Y(j)) = color
      BY <1>4, <3>1
    <3>3. X(j) \in Column /\ Y(j) \in Row /\ GameMatrix[X(j)][Y(j)] = color
      BY <3>2, Marked
    <3> QED
      BY <1>2, <3>3
  <2> QED
    BY <2>1, <2>2
<1> DEFINE m == IF a <= Need THEN -a ELSE -Need
<1>7. /\ m \in Int /\ m \in -a .. b
      /\ \A k \in 0 .. Need : k \in Int /\ m + k \in -a .. b
  BY <1>4, Sizes
<1> HIDE DEF m
<1>8. X(m) \in Column /\ Y(m) \in Row
  BY <1>6, <1>7
<1>9. \A k \in 0 .. Need : /\ X(m) + k * d[1] \in Column /\ Y(m) + k * d[2] \in Row
                           /\ matrix[X(m) + k * d[1]][Y(m) + k * d[2]] = color
  BY <1>6, <1>7, <1>x
<1> QED
  BY <1>8, <1>9 DEF Line

LEMMA LineNeedsWins ==
    ASSUME TypeOK, NEW c \in Playable, NEW color \in Color, NEW matrix,
           matrix = [GameMatrix EXCEPT ![c][LookupPosition(c)] = color],
           Line(matrix, color), ~ Line(GameMatrix, color)
    PROVE  Wins(c, color)
<1> DEFINE r == LookupPosition(c)
<1>1. c \in Column /\ r \in Row /\ c \in Int /\ r \in Int
  BY FreePosition DEF Column, Row
<1>2. \A cc \in Column, rr \in Row :
          matrix[cc][rr] = IF cc = c /\ rr = r THEN color ELSE GameMatrix[cc][rr]
  BY <1>1, PutMarker
<1>3. PICK cc \in Column, rr \in Row, d \in Directions :
        \A k \in 0 .. Need : /\ cc + k * d[1] \in Column /\ rr + k * d[2] \in Row
                             /\ matrix[cc + k * d[1]][rr + k * d[2]] = color
  BY DEF Line
<1>d. d[1] \in {0, 1} /\ d[2] \in {-1, 0, 1} /\ (d[1] = 0 => d[2] = 1)
  BY Direction
<1> HIDE DEF r
<1>4. PICK m \in 0 .. Need : cc + m * d[1] = c /\ rr + m * d[2] = r
  <2> SUFFICES ASSUME \A m \in 0 .. Need : ~ (cc + m * d[1] = c /\ rr + m * d[2] = r) PROVE FALSE
    OBVIOUS
  <2>1. \A k \in 0 .. Need : /\ cc + k * d[1] \in Column /\ rr + k * d[2] \in Row
                             /\ GameMatrix[cc + k * d[1]][rr + k * d[2]] = color
    BY <1>2, <1>3
  <2> QED
    BY <2>1 DEF Line
<1> DEFINE X(j) == c + j * d[1]
           Y(j) == r + j * d[2]
<1>5. cc \in Int /\ rr \in Int /\ m \in Nat /\ m <= Need
  BY Sizes DEF Column, Row
<1>6. m \in Steps /\ Need - m \in Steps
  <2>1. 0 \in 0 .. Need /\ Need \in 0 .. Need
    BY Sizes
  <2>2. /\ cc + Need * d[1] \in Column /\ rr + Need * d[2] \in Row
        /\ cc \in Column /\ rr \in Row
    BY <1>3, <2>1
  <2>3. CASE d[1] = 1
    <3>1. cc + Need \in Column
      BY <1>5, <2>2, <2>3, Sizes
    <3> QED
      BY <1>5, <2>2, <3>1, Sizes DEF Column, Steps
  <2>4. CASE d[2] = 1
    <3>1. rr + Need \in Row
      BY <1>5, <2>2, <2>4, Sizes
    <3> QED
      BY <1>5, <2>2, <3>1, Sizes DEF Row, Steps
  <2> QED
    BY <1>d, <2>3, <2>4
<1>7. ASSUME NEW j \in -m .. Need - m, j # 0
      PROVE  checkBounds(X(j), Y(j)) = color
  <2>1. m + j \in 0 .. Need /\ j \in Int /\ m \in Int
    BY <1>5, Sizes
  <2>2. X(j) = cc + (m + j) * d[1] /\ Y(j) = rr + (m + j) * d[2]
    <3>1. d[1] \in {-1, 0, 1} /\ d[2] \in {-1, 0, 1}
      BY <1>d
    <3>2. cc \in Int /\ rr \in Int
      BY <1>5
    <3>3. (cc + m * d[1]) + j * d[1] = cc + (m + j) * d[1]
      BY ONLY <2>1, <3>1, <3>2, Shift, SMT
    <3>4. (rr + m * d[2]) + j * d[2] = rr + (m + j) * d[2]
      BY ONLY <2>1, <3>1, <3>2, Shift, SMT
    <3> QED
      BY <1>4, <3>3, <3>4
  <2>3. ~ (X(j) = c /\ Y(j) = r)
    <3>1. CASE d[1] = 1
      BY <1>1, <1>7, <2>1, <3>1
    <3>2. CASE d[2] = 1
      BY <1>1, <1>7, <2>1, <3>2
    <3> QED
      BY <1>d, <3>1, <3>2
  <2> HIDE DEF X, Y
  <2>4. X(j) \in Column /\ Y(j) \in Row /\ matrix[X(j)][Y(j)] = color
    BY <1>3, <2>1, <2>2
  <2> QED
    BY <1>2, <2>3, <2>4 DEF checkBounds
<1> DEFINE a == Ray(c, r, -d[1], -d[2], color)
           b == Ray(c, r, d[1], d[2], color)
<1>8. a \in Steps /\ b \in Steps
  BY RayIs
<1>9. m <= a
  <2>1. ASSUME NEW j \in 1 .. m PROVE checkBounds(c + j * (-d[1]), r + j * (-d[2])) = color
    <3>1. j \in Int /\ -j \in -m .. Need - m /\ -j # 0
      BY <1>5, Sizes
    <3>2. checkBounds(X(-j), Y(-j)) = color
      BY <1>7, <3>1
    <3>3. d[1] \in {-1, 0, 1}
      BY <1>d
    <3>4. c + j * (-d[1]) = X(-j)
      BY <1>1, <3>1, <3>3, ShiftBack, Zenon
    <3>5. r + j * (-d[2]) = Y(-j)
      BY <1>1, <1>d, <3>1, ShiftBack, Zenon
    <3> QED
      BY <3>2, <3>4, <3>5
  <2> QED
    BY <1>6, <2>1, RayIs
<1>10. Need - m <= b
  <2>1. ASSUME NEW j \in 1 .. Need - m PROVE checkBounds(X(j), Y(j)) = color
    <3>1. j \in -m .. Need - m /\ j # 0
      BY <1>5, Sizes
    <3> QED
      BY <1>7, <3>1
  <2> QED
    BY <1>6, <2>1, RayIs
<1>11. b + a >= Need
  <2> HIDE DEF a, b
  <2> QED
    BY <1>5, <1>8, <1>9, <1>10, Sizes DEF Steps
<1> QED
  BY <1>11 DEF Wins, Markers, r

(* A line that another colour's marker has not made was there before. *)
LEMMA OtherLine ==
    ASSUME TypeOK, NEW c \in Playable, NEW color \in Color, NEW other \in Color \ {color}, NEW matrix,
           matrix = [GameMatrix EXCEPT ![c][LookupPosition(c)] = color],
           Line(matrix, other)
    PROVE  Line(GameMatrix, other)
<1>1. c \in Column /\ LookupPosition(c) \in Row
  BY FreePosition
<1>2. \A cc \in Column, rr \in Row : matrix[cc][rr] = other => GameMatrix[cc][rr] = other
  BY <1>1, PutMarker
<1> QED
  BY <1>2 DEF Line
-----------------------------------------------------------------------------
(* The computer. *)

WinsIn(color) == {c \in Playable : Wins(c, color)}
Near(i) == {Middle + i, Middle - i} \cap Playable

LEMMA Nearest ==
    ASSUME NEW P \in SUBSET Column, P # {}
    PROVE  LET near(i) == {Middle + i, Middle - i} \cap P
           IN  near(Min({i \in 0 .. Middle : near(i) # {}})) # {}
<1> DEFINE near(i) == {Middle + i, Middle - i} \cap P
           S == {i \in 0 .. Middle : near(i) # {}}
<1>0. PICK c \in P : TRUE
  OBVIOUS
<1>1. c \in P /\ c \in Nat /\ c < Width
  BY Sizes DEF Column
<1>2. PICK i \in 0 .. Middle : c = Middle + i \/ c = Middle - i
  <2>1. CASE c >= Middle
    <3>1. c - Middle \in 0 .. Middle /\ c = Middle + (c - Middle)
      BY <1>1, <2>1, Sizes
    <3> QED
      BY <3>1
  <2>2. CASE c < Middle
    <3>1. Middle - c \in 0 .. Middle /\ c = Middle - (Middle - c)
      BY <1>1, <2>2, Sizes
    <3> QED
      BY <3>1
  <2> QED
    BY <1>1, <2>1, <2>2, Sizes
<1>3. i \in S
  BY <1>2
<1>4. S \in SUBSET Nat /\ S # {}
  BY <1>3
<1>5. Min(S) \in S
  <2> HIDE DEF S
  <2> QED
    BY <1>4, MinIs
<1> QED
  BY <1>5

LEMMA MinOfColumns ==
    ASSUME NEW S \in SUBSET Column, S # {}
    PROVE  Min(S) \in S
<1>1. S \in SUBSET Nat
  BY DEF Column
<1> QED
  BY <1>1, MinIs

(* The choice, case by case. *)
LEMMA TestInsertIs ==
    ASSUME NEW color, ~ Full
    PROVE  /\ testInsert(color) # {} /\ testInsert(color) \subseteq Playable
           /\ WinsIn(color) # {} => testInsert(color) \subseteq WinsIn(color)
           /\ WinsIn(color) = {} /\ WinsIn(3 - color) # {} => testInsert(color) \subseteq WinsIn(3 - color)
<1> DEFINE two == {c \in Playable : AlmostWins(c, 3 - color)}
           near == Near(Min({i \in 0 .. Middle : Near(i) # {}}))
<1>1. testInsert(color) =
          IF WinsIn(color) # {} THEN {Min(WinsIn(color))}
          ELSE IF WinsIn(3 - color) # {} THEN {Min(WinsIn(3 - color))}
          ELSE IF two # {} THEN {Min(two)}
          ELSE near
  BY DEF testInsert, WinsIn, Near
<1>2. Playable \in SUBSET Column /\ Playable # {}
  BY DEF Playable, Full
<1>3. near # {} /\ near \subseteq Playable
  BY <1>2, Nearest DEF Near
<1>4. /\ WinsIn(color) \in SUBSET Playable /\ WinsIn(3 - color) \in SUBSET Playable
      /\ two \in SUBSET Playable
  BY DEF WinsIn
<1> HIDE DEF two, near
<1>5. \A S \in SUBSET Playable : S # {} => Min(S) \in S
  BY <1>2, MinOfColumns
<1> QED
  BY <1>1, <1>3, <1>4, <1>5

LEMMA TestInsertPlays ==
    ASSUME WinnerIsRight, Playing
    PROVE  testInsert(turn) \subseteq Playable
  BY TestInsertIs DEF WinnerIsRight

(* Counting neighbours before the marker is put tells whether it makes a line. *)
LEMMA WinningIs ==
    ASSUME TypeOK, NEW color \in Color, ~ Line(GameMatrix, color)
    PROVE  Winning(color) = WinsIn(color)
<1>1. \A c \in Playable : Line(With(c, color), color) <=> Wins(c, color)
  BY WinsMakesLine, LineNeedsWins DEF With
<1> QED
  BY <1>1 DEF Winning, WinsIn

LEMMA InvPlays ==
    ASSUME TypeOK, WinnerIsRight
    PROVE  ComputerPlays
<1> SUFFICES ASSUME Playing PROVE /\ testInsert(turn) # {} /\ testInsert(turn) \subseteq Playable
                                  /\ Winning(turn) # {} => testInsert(turn) \subseteq Winning(turn)
                                  /\ Winning(turn) = {} /\ Winning(3 - turn) # {} =>
                                         testInsert(turn) \subseteq Winning(3 - turn)
  BY DEF ComputerPlays
<1>1. ~ Full /\ \A p \in Color : ~ Line(GameMatrix, p)
  BY DEF WinnerIsRight
<1>2. turn \in Color /\ 3 - turn \in Color
  BY DEF TypeOK, Color
<1>3. Winning(turn) = WinsIn(turn) /\ Winning(3 - turn) = WinsIn(3 - turn)
  BY <1>1, <1>2, WinningIs
<1> QED
  BY <1>1, <1>3, TestInsertIs
-----------------------------------------------------------------------------
(* A game. *)

NoLine(matrix) == \A p \in Color : ~ Line(matrix, p)

GameInv ==
    /\ TypeOK
    /\ pc \in {"manager", "setup"} => GameMatrix = Empty
    /\ WinnerIsRight
    /\ Alternating

LEMMA CountIs ==
    ASSUME NEW matrix, NEW color
    PROVE  IsFiniteSet({p \in Column \X Row : matrix[p[1]][p[2]] = color})
<1>1. IsFiniteSet(Column) /\ IsFiniteSet(Row)
  BY Sizes, FS_Interval DEF Column, Row
<1>2. IsFiniteSet(Column \X Row)
  BY <1>1, FS_Product
<1> QED
  BY <1>2, FS_Subset

LEMMA MarkerCounts ==
    ASSUME TypeOK, NEW c \in Playable, NEW color \in Color,
           GameMatrix' = [GameMatrix EXCEPT ![c][LookupPosition(c)] = color]
    PROVE  /\ Count(color) \in Nat /\ Count(color)' = Count(color) + 1
           /\ \A other \in Color \ {color} : Count(other)' = Count(other)
<1> DEFINE r == LookupPosition(c)
           S(p) == {x \in Column \X Row : GameMatrix[x[1]][x[2]] = p}
           T(p) == {x \in Column \X Row : GameMatrix'[x[1]][x[2]] = p}
<1>1. c \in Column /\ r \in Row /\ GameMatrix[c][r] = 0
  BY FreePosition
<1>m. PICK matrix : matrix = GameMatrix'
  OBVIOUS
<1>2. \A cc \in Column, rr \in Row :
          GameMatrix'[cc][rr] = IF cc = c /\ rr = r THEN color ELSE GameMatrix[cc][rr]
  BY <1>1, <1>m, PutMarker
<1>3. 0 \notin Color
  BY DEF Color
<1> HIDE DEF r
<1>4. T(color) = S(color) \cup {<<c, r>>} /\ <<c, r>> \notin S(color)
  BY <1>1, <1>2, <1>3
<1>5. \A other \in Color \ {color} : T(other) = S(other)
  BY <1>1, <1>2, <1>3
<1>6. IsFiniteSet(S(color))
  BY CountIs
<1>7. \A p : Count(p) = Cardinality(S(p)) /\ Count(p)' = Cardinality(T(p))
  BY DEF Count
<1> HIDE DEF S, T
<1> QED
  BY <1>4, <1>5, <1>6, <1>7, FS_AddElement, FS_CardinalityType

LEMMA MarkerFills ==
    ASSUME TypeOK, NEW c \in Playable, NEW color \in Color,
           GameMatrix' = [GameMatrix EXCEPT ![c][LookupPosition(c)] = color]
    PROVE  Full' <=> Playable = {c} /\ LookupPosition(c) = 0
<1>1. c \in Column /\ LookupPosition(c) \in Row /\ 0 \in Row
  BY FreePosition, Sizes DEF Row
<1>m. PICK matrix : matrix = GameMatrix'
  OBVIOUS
<1>2. \A cc \in Column, rr \in Row : GameMatrix'[cc][rr] =
          IF cc = c /\ rr = LookupPosition(c) THEN color ELSE GameMatrix[cc][rr]
  BY <1>1, <1>m, PutMarker
<1>3. color # 0
  BY DEF Color
<1>4. Playable' = IF LookupPosition(c) = 0 THEN Playable \ {c} ELSE Playable
  BY <1>1, <1>2, <1>3 DEF Playable
<1> QED
  BY <1>4 DEF Full

(* Whoever has the turn moves. *)
LEMMA MoveKeepsGame ==
    ASSUME GameInv, NEW c \in Playable, Playing, doMove(c), UNCHANGED <<kind, clickedColumn, breakGame>>
    PROVE  GameInv'
<1> DEFINE m == [GameMatrix EXCEPT ![c][LookupPosition(c)] = turn]
<1>1. TypeOK /\ turn \in Color /\ NoLine(GameMatrix) /\ ~ Full /\ Count(1) = Count(2) + turn - 1
  BY DEF GameInv, TypeOK, WinnerIsRight, Alternating, NoLine
<1>2. /\ GameMatrix' = m /\ result' = checkWinner(c, turn)
      /\ pc' = IF result' # 0 THEN "dialog"
               ELSE IF turn = 2 /\ breakGame THEN "clear" ELSE "turn"
      /\ turn' = IF result' = 0 THEN 3 - turn ELSE turn
  BY DEF doMove
<1>3. c \in Column /\ LookupPosition(c) \in Row
  BY <1>1, FreePosition
<1>4. m \in [Column -> [Row -> {0} \cup Color]]
  BY <1>1, <1>3, PutMarker
<1>5. Line(m, turn) <=> Wins(c, turn)
  BY <1>1, WinsMakesLine, LineNeedsWins DEF NoLine
<1>6. \A p \in Color \ {turn} : ~ Line(m, p)
  BY <1>1, OtherLine DEF NoLine
<1>7. /\ result' \in 0 .. 2
      /\ result' = 1 <=> Wins(c, turn)
      /\ result' = 2 <=> ~ Wins(c, turn) /\ Full'
  <2>1. Full' <=> Playable = {c} /\ LookupPosition(c) = 0
    BY <1>1, <1>2, MarkerFills
  <2> QED
    BY <1>2, <2>1 DEF checkWinner
<1> HIDE DEF m
<1>8. turn' \in Color /\ (result' # 1 => NoLine(m))
  BY <1>1, <1>2, <1>5, <1>6, <1>7 DEF Color, NoLine
<1>9. TypeOK'
  BY <1>1, <1>2, <1>4, <1>7, <1>8 DEF TypeOK
<1>10. WinnerIsRight'
  <2>1. pc' = "dialog" /\ result' = 1 => Line(m, turn')
    BY <1>2, <1>5, <1>7
  <2>2. pc' = "dialog" /\ result' = 2 => Full' /\ NoLine(m)
    BY <1>7, <1>8
  <2>3. Playing' => ~ Full' /\ NoLine(m)
    BY <1>2, <1>7, <1>8 DEF Playing
  <2> QED
    BY <1>2, <2>1, <2>2, <2>3 DEF WinnerIsRight, NoLine
<1>11. Alternating'
  <2>2. Count(1) \in Nat /\ Count(2) \in Nat
    <3>1. \A p : IsFiniteSet({x \in Column \X Row : GameMatrix[x[1]][x[2]] = p})
      BY CountIs
    <3> QED
      BY <3>1, FS_CardinalityType DEF Count
  <2>3. Playing' => turn' = 3 - turn
    BY <1>2 DEF Playing
  <2>4. turn = 1 \/ turn = 2
    BY <1>1 DEF Color
  <2>5. CASE turn = 1
    <3>1. Count(1)' = Count(1) + 1 /\ Count(2)' = Count(2)
      <4>1. 1 \in Color /\ 2 \in Color \ {1}
        BY DEF Color
      <4> QED
        BY <1>1, <1>2, <2>5, <4>1, MarkerCounts DEF m
    <3> QED
      BY <1>1, <2>2, <2>3, <2>5, <3>1 DEF Alternating
  <2>6. CASE turn = 2
    <3>1. Count(2)' = Count(2) + 1 /\ Count(1)' = Count(1)
      <4>1. 2 \in Color /\ 1 \in Color \ {2}
        BY DEF Color
      <4> QED
        BY <1>1, <1>2, <2>6, <4>1, MarkerCounts DEF m
    <3> QED
      BY <1>1, <2>2, <2>3, <2>6, <3>1 DEF Alternating
  <2> QED
    BY <2>4, <2>5, <2>6
<1>12. pc' \notin {"manager", "setup"}
  BY <1>2
<1> QED
  BY <1>9, <1>10, <1>11, <1>12 DEF GameInv

(* What changes neither the grid nor the turn, and begins no game. *)
LEMMA IdleKeepsGame ==
    ASSUME GameInv, TypeOK', UNCHANGED <<GameMatrix, turn, result>>,
           pc' \in {"manager", "setup"} => pc \in {"manager", "setup"},
           Playing' => Playing, pc' = "dialog" => pc = "dialog"
    PROVE  GameInv'
<1>1. (pc' \in {"manager", "setup"} => GameMatrix' = Empty)
  BY DEF GameInv
<1>2. WinnerIsRight'
  BY DEF GameInv, WinnerIsRight, Line, Full, Playable
<1>3. Alternating'
  BY DEF GameInv, Alternating, Count
<1> QED
  BY <1>1, <1>2, <1>3 DEF GameInv

LEMMA EmptyGrid ==
    ASSUME GameMatrix = Empty
    PROVE  ~ Full /\ NoLine(GameMatrix) /\ Count(1) = 0 /\ Count(2) = 0
<1>1. 0 \in Column /\ 0 \in Row /\ 0 \in 0 .. Need
  BY Sizes DEF Column, Row
<1>2. \A c \in Column, r \in Row : GameMatrix[c][r] = 0
  BY DEF Empty
<1>3. Playable # {}
  BY <1>1, <1>2 DEF Playable
<1>4. NoLine(GameMatrix)
  <2> SUFFICES ASSUME NEW p \in Color, Line(GameMatrix, p) PROVE FALSE
    BY DEF NoLine
  <2>1. PICK c \in Column, r \in Row, d \in Directions :
          /\ c + 0 * d[1] \in Column /\ r + 0 * d[2] \in Row
          /\ GameMatrix[c + 0 * d[1]][r + 0 * d[2]] = p
    BY <1>1 DEF Line
  <2> QED
    BY <1>2, <2>1 DEF Color
<1>5. \A p \in Color : {x \in Column \X Row : GameMatrix[x[1]][x[2]] = p} = {}
  BY <1>2 DEF Color
<1>6. Count(1) = 0 /\ Count(2) = 0
  BY <1>5, FS_EmptySet DEF Count, Color
<1> QED
  BY <1>3, <1>4, <1>6 DEF Full

LEMMA EmptyTyped == Empty \in [Column -> [Row -> {0} \cup Color]]
  BY DEF Empty

LEMMA InitGame == ASSUME Init PROVE GameInv
<1>1. TypeOK
  <2>1. 1 \in Color
    BY DEF Color
  <2>2. GameMatrix \in [Column -> [Row -> {0} \cup Color]]
    BY EmptyTyped DEF Init
  <2>3. clickedColumn \in -1 .. Width /\ result \in 0 .. 2
    BY Sizes DEF Init
  <2> QED
    BY <2>1, <2>2, <2>3 DEF Init, TypeOK
<1> QED
  BY <1>1 DEF Init, GameInv, WinnerIsRight, Alternating, Playing

LEMMA StepGame == ASSUME GameInv, [Next]_vars PROVE GameInv'
<1>0. TypeOK /\ Playable \subseteq Column
  BY DEF GameInv, Playable
<1>1. CASE Clear
  <2>1. TypeOK'
    BY <1>0, <1>1, EmptyTyped DEF Clear, Go, TypeOK
  <2> QED
    BY <1>1, <2>1 DEF Clear, Go, GameInv, WinnerIsRight, Alternating, Playing
<1>2. CASE NewManager
  <2>1. TypeOK'
    BY <1>0, <1>2 DEF NewManager, Go, grid, TypeOK
  <2> QED
    BY <1>2, <2>1, IdleKeepsGame DEF NewManager, Go, grid, Playing
<1>3. CASE createPlayers
  <2>1. GameMatrix = Empty /\ GameMatrix' = GameMatrix /\ turn' = 1 /\ pc' \in {"turn", "exit"}
        /\ UNCHANGED <<result, clickedColumn, breakGame>> /\ kind' \in [Color -> {"Human", "Computer"}]
    BY <1>0, <1>3 DEF createPlayers, Go, grid, GameInv, TypeOK
  <2>2. TypeOK'
    BY <1>0, <2>1 DEF TypeOK, Color
  <2>3. ~ Full /\ NoLine(GameMatrix) /\ Count(1) = 0 /\ Count(2) = 0
    BY <2>1, EmptyGrid
  <2>4. Full' = Full /\ Count(1)' = Count(1) /\ Count(2)' = Count(2)
    BY <2>1 DEF Full, Playable, Count
  <2>5. WinnerIsRight'
    BY <2>1, <2>3, <2>4 DEF WinnerIsRight, NoLine, Playing
  <2>6. Alternating'
    BY <2>1, <2>3, <2>4 DEF Alternating
  <2> QED
    BY <2>1, <2>2, <2>5, <2>6 DEF GameInv
<1>4. CASE ComputerMoves
  <2>1. Playing /\ turn \in Color
    BY <1>0, <1>4 DEF ComputerMoves, Playing, TypeOK
  <2>2. PICK c \in testInsert(turn) : doMove(c)
    BY <1>4 DEF ComputerMoves
  <2>3. c \in Playable
    BY <2>1, TestInsertPlays DEF GameInv, WinnerIsRight
  <2> QED
    BY <1>4, <2>1, <2>2, <2>3, MoveKeepsGame DEF ComputerMoves
<1>5. CASE AskHuman
  <2>1. TypeOK'
    BY <1>0, <1>5, Sizes DEF AskHuman, Go, grid, TypeOK
  <2> QED
    BY <1>5, <2>1, IdleKeepsGame DEF AskHuman, Go, grid, Playing
<1>6. CASE SeesClick
  <2>1. TypeOK'
    BY <1>0, <1>6 DEF SeesClick, Go, grid, TypeOK
  <2> QED
    BY <1>6, <2>1, IdleKeepsGame DEF SeesClick, Go, grid, Playing
<1>7. CASE SeesBreak
  <2>1. TypeOK'
    BY <1>0, <1>7 DEF SeesBreak, Go, grid, TypeOK
  <2> QED
    BY <1>7, <2>1, IdleKeepsGame DEF SeesBreak, Go, grid, Playing
<1>8. CASE HumanMoves
  <2>1. Playing /\ UNCHANGED <<kind, clickedColumn, breakGame>>
    BY <1>8 DEF HumanMoves, Playing
  <2>2. CASE clickedColumn \in Playable
    <3>1. doMove(clickedColumn)
      BY <1>8, <2>2 DEF HumanMoves
    <3> QED
      BY <2>1, <2>2, <3>1, MoveKeepsGame
  <2>3. CASE clickedColumn \notin Playable
    <3>1. pc' = "turn" /\ UNCHANGED <<grid, turn>>
      BY <1>8, <2>3 DEF HumanMoves
    <3>2. TypeOK'
      BY <1>0, <2>1, <3>1 DEF TypeOK, grid
    <3> QED
      BY <2>1, <3>1, <3>2, IdleKeepsGame DEF grid, Playing
  <2> QED
    BY <2>2, <2>3
<1>9. CASE Dialog
  <2>1. TypeOK'
    BY <1>0, <1>9 DEF Dialog, Go, grid, TypeOK
  <2> QED
    BY <1>9, <2>1, IdleKeepsGame DEF Dialog, Go, grid, Playing
<1>10. CASE Events
  <2>1. TypeOK'
    <3>1. ASSUME NEW c \in 0 .. Width, Click(c) PROVE TypeOK'
      <4>1. c \in -1 .. Width
        BY Sizes
      <4> QED
        BY <1>0, <3>1, <4>1 DEF Click, grid, TypeOK
    <3>2. CASE Restart \/ Stop
      BY <1>0, <3>2 DEF Restart, Stop, grid, TypeOK
    <3> QED
      BY <1>10, <3>1, <3>2 DEF Events
  <2> QED
    BY <1>10, <2>1, IdleKeepsGame DEF Events, Click, Restart, Stop, grid, Playing
<1>11. CASE UNCHANGED vars
  <2>1. TypeOK'
    BY <1>0, <1>11 DEF vars, TypeOK
  <2> QED
    BY <1>11, <2>1, IdleKeepsGame DEF vars, Playing
<1> QED
  BY <1>1, <1>2, <1>3, <1>4, <1>5, <1>6, <1>7, <1>8, <1>9, <1>10, <1>11 DEF Next, Main
-----------------------------------------------------------------------------
(* Whatever is clicked and whenever: a winner is announced only with a line of his
   colour, a draw only with a full grid and no line, and as long as the players go
   on there is room and no line. *)
THEOREM ResultIsRight == Spec => []WinnerIsRight
<1>1. GameInv => WinnerIsRight
  BY DEF GameInv
<1> QED
  BY <1>1, InitGame, StepGame, PTL DEF Spec

(* The players move in turn: a click, or a click too many, or one on a full column,
   never gives anybody two moves or none. *)
THEOREM PlayersAlternate == Spec => []Alternating
<1>1. GameInv => Alternating
  BY DEF GameInv
<1> QED
  BY <1>1, InitGame, StepGame, PTL DEF Spec

(* In every position that a game comes to, the column the computer chooses exists
   and is not full, wins if any does, and else takes the opponent's winning place if
   he has one: previewCheckWinner, which counts neighbours before the marker is
   put, tells whether there will be a line. *)
THEOREM ComputerPlaysWell == Spec => []ComputerPlays
<1>1. GameInv => ComputerPlays
  BY InvPlays DEF GameInv
<1> QED
  BY <1>1, InitGame, StepGame, PTL DEF Spec
==============================================================================
