------------------------------ MODULE FourInRow ------------------------------
(***************************************************************************)
(* lab3: four in a row between two players, each a human or the computer.  *)
(* The main thread plays; the event thread notes clicks in two variables   *)
(* that the main thread looks at in a loop.                                *)
(***************************************************************************)
EXTENDS Integers, FiniteSetsExt

CONSTANTS
    Width, Height,  \* 7 and 6 in the program
    Need            \* 3: the neighbours of its colour that a winning marker has

ASSUME SizesAssumption ==
    /\ {Width, Height, Need} \subseteq Nat \ {0}
    /\ Width % 2 = 1

VARIABLES
    GameMatrix,     \* the colour of a position, or 0; row 0 is the upper one
    kind,           \* of a player
    turn,
    result,         \* of the last move: 0, 1 for a winner, 2 when the grid is full
    pc,
    clickedColumn,
    breakGame

vars == <<GameMatrix, kind, turn, result, pc, clickedColumn, breakGame>>

Column == 0 .. Width - 1
Row == 0 .. Height - 1
Color == {1, 2}
Empty == [c \in Column |-> [r \in Row |-> 0]]

TypeOK ==
    /\ GameMatrix \in [Column -> [Row -> {0} \cup Color]]
    /\ kind \in [Color -> {"Human", "Computer"}]
    /\ turn \in Color
    /\ result \in 0 .. 2
    /\ pc \in {"clear", "manager", "setup", "turn", "wait", "return", "dialog", "exit"}
    /\ clickedColumn \in -1 .. Width
    /\ breakGame \in BOOLEAN

\* main has cleared the grid for the first game.
Init ==
    /\ GameMatrix = Empty
    /\ kind = [p \in Color |-> "Human"]
    /\ turn = 1
    /\ result = 0
    /\ pc = "manager"
    /\ clickedColumn = 0
    /\ breakGame = FALSE
-----------------------------------------------------------------------------
(* GameGrid. *)

Playable == {c \in Column : GameMatrix[c][0] = 0}

\* The lowest free row.
LookupPosition(c) == Max({r \in Row : GameMatrix[c][r] = 0})

Directions == {<<0, 1>>, <<1, 0>>, <<1, 1>>, <<1, -1>>}
checkBounds(c, r) == IF c \in Column /\ r \in Row THEN GameMatrix[c][r] ELSE 3

\* The markers of a colour on both sides of a position.
Ray(c, r, dc, dr, color) ==
    Max({k \in 0 .. Width + Height :
            \A j \in 1 .. k : checkBounds(c + j * dc, r + j * dr) = color})
Markers(c, r, d, color) ==
    Ray(c, r, d[1], d[2], color) + Ray(c, r, -d[1], -d[2], color)

\* previewCheckWinner at the position where a marker in c would be.
Wins(c, color) ==
    \E d \in Directions : Markers(c, LookupPosition(c), d, color) >= Need
AlmostWins(c, color) ==
    ~ Wins(c, color)
        /\ \E d \in Directions : Markers(c, LookupPosition(c), d, color) = Need - 1

\* Defect.
checkWinner_NeverDrawn(c, color) == IF Wins(c, color) THEN 1 ELSE 0

\* checkWinner after the marker has been put.
checkWinner(c, color) ==
    IF Wins(c, color) THEN 1
    ELSE IF Playable = {c} /\ LookupPosition(c) = 0 THEN 2 ELSE 0

Middle == Width \div 2

\* Defect.
testInsert_BlockingFirst(color) ==
    LET opponent == 3 - color
        winning == {c \in Playable : Wins(c, color)}
        blocking == {c \in Playable : Wins(c, opponent)}
        near(i) == {Middle + i, Middle - i} \cap Playable
    IN  IF blocking # {} THEN {Min(blocking)}
        ELSE IF winning # {} THEN {Min(winning)}
        ELSE near(Min({i \in 0 .. Middle : near(i) # {}}))

\* The columns that testInsert may return: it wins, or blocks the opponent's win,
\* or is where the opponent has almost as many, or is next to the middle, on
\* either side.
testInsert(color) ==
    LET opponent == 3 - color
        winning == {c \in Playable : Wins(c, color)}
        blocking == {c \in Playable : Wins(c, opponent)}
        two == {c \in Playable : AlmostWins(c, opponent)}
        near(i) == {Middle + i, Middle - i} \cap Playable
    IN  IF winning # {} THEN {Min(winning)}
        ELSE IF blocking # {} THEN {Min(blocking)}
        ELSE IF two # {} THEN {Min(two)}
        ELSE near(Min({i \in 0 .. Middle : near(i) # {}}))
-----------------------------------------------------------------------------
(* The main thread. *)

Go(from, to) == pc = from /\ pc' = to
grid == <<GameMatrix, result>>

Clear ==
    /\ Go("clear", "manager")
    /\ GameMatrix' = Empty
    /\ result' = 0
    /\ UNCHANGED <<kind, turn, clickedColumn, breakGame>>

\* A new GameManager, which nobody has told to break.
NewManager ==
    /\ Go("manager", "setup")
    /\ breakGame' = FALSE
    /\ UNCHANGED <<grid, kind, turn, clickedColumn>>

createPlayers ==
    /\ \/ Go("setup", "turn") /\ kind' \in [Color -> {"Human", "Computer"}]
       \/ Go("setup", "exit") /\ UNCHANGED kind
    /\ turn' = 1
    /\ UNCHANGED <<grid, clickedColumn, breakGame>>

\* doMove, and playGame with its result.
doMove(c) ==
    /\ result' = checkWinner(c, turn)
    /\ GameMatrix' = [GameMatrix EXCEPT ![c][LookupPosition(c)] = turn]
    /\ pc' = IF result' # 0 THEN "dialog"
             ELSE IF turn = 2 /\ breakGame THEN "clear" ELSE "turn"
    /\ turn' = IF result' = 0 THEN 3 - turn ELSE turn

\* A column that is full would be tried again for ever; there is none.
ComputerMoves ==
    /\ pc = "turn" /\ kind[turn] = "Computer"
    /\ \E c \in testInsert(turn) : doMove(c)
    /\ UNCHANGED <<kind, clickedColumn, breakGame>>

\* getUserClickColumn forgets earlier clicks, and looks for a new one or a break.
AskHuman ==
    /\ Go("turn", "wait") /\ kind[turn] = "Human"
    /\ clickedColumn' = -1
    /\ UNCHANGED <<grid, kind, turn, breakGame>>

SeesClick ==
    /\ Go("wait", "return") /\ clickedColumn \in Column
    /\ UNCHANGED <<grid, kind, turn, clickedColumn, breakGame>>

\* Defect.
SeesBreak_Unclicked ==
    /\ Go("wait", "clear") /\ clickedColumn = -1 /\ breakGame
    /\ UNCHANGED <<grid, kind, turn, clickedColumn, breakGame>>

SeesBreak ==
    /\ Go("wait", "clear") /\ clickedColumn \notin Column /\ breakGame
    /\ UNCHANGED <<grid, kind, turn, clickedColumn, breakGame>>

\* Defect.
HumanMoves_OrPasses ==
    /\ pc = "return"
    /\ IF clickedColumn \in Playable
       THEN doMove(clickedColumn)
       ELSE pc' = "turn" /\ turn' = 3 - turn /\ UNCHANGED grid
    /\ UNCHANGED <<kind, clickedColumn, breakGame>>

\* The column is read again, and there may have been another click.
HumanMoves ==
    /\ pc = "return"
    /\ IF clickedColumn \in Playable
       THEN doMove(clickedColumn)
       ELSE pc' = "turn" /\ UNCHANGED <<grid, turn>>
    /\ UNCHANGED <<kind, clickedColumn, breakGame>>

Dialog ==
    /\ Go("dialog", "clear")
    /\ UNCHANGED <<grid, kind, turn, clickedColumn, breakGame>>

Main ==
    \/ Clear
    \/ NewManager
    \/ createPlayers
    \/ ComputerMoves
    \/ AskHuman
    \/ SeesClick
    \/ SeesBreak
    \/ HumanMoves
    \/ Dialog
-----------------------------------------------------------------------------
(* The event thread.  Dialogs are modal. *)

FrameIsActive == pc \notin {"setup", "dialog", "exit"}

\* The canvas may be a little wider than its columns.
Click(c) ==
    /\ FrameIsActive
    /\ clickedColumn' = c
    /\ UNCHANGED <<grid, kind, turn, pc, breakGame>>

Restart ==
    /\ FrameIsActive
    /\ breakGame' = TRUE
    /\ UNCHANGED <<grid, kind, turn, pc, clickedColumn>>

Stop ==
    /\ FrameIsActive
    /\ pc' = "exit"
    /\ UNCHANGED <<grid, kind, turn, clickedColumn, breakGame>>

Events == (\E c \in 0 .. Width : Click(c)) \/ Restart \/ Stop

Next == Main \/ Events

Spec == Init /\ [][Next]_vars

\* The main thread runs, dialogs are answered, and the loop that waits for a click
\* is faster than the user.
FairSpec == Spec /\ WF_vars(Main) /\ SF_vars(SeesBreak)
-----------------------------------------------------------------------------
(* Properties. *)

\* Need + 1 markers of a colour in a line.
Line(matrix, color) ==
    \E c \in Column, r \in Row, d \in Directions :
        \A k \in 0 .. Need :
            /\ c + k * d[1] \in Column /\ r + k * d[2] \in Row
            /\ matrix[c + k * d[1]][r + k * d[2]] = color

Full == Playable = {}
Playing == pc \in {"turn", "wait", "return"}

\* A winner is announced when there is a line of his colour, a draw when the grid
\* is full without a line, and until then the game goes on.
WinnerIsRight ==
    /\ pc = "dialog" /\ result = 1 => Line(GameMatrix, turn)
    /\ pc = "dialog" /\ result = 2 => Full /\ \A p \in Color : ~ Line(GameMatrix, p)
    /\ Playing => ~ Full /\ \A p \in Color : ~ Line(GameMatrix, p)

Count(color) == Cardinality({p \in Column \X Row : GameMatrix[p[1]][p[2]] = color})

\* Whatever is clicked and when, players alternate: nobody moves twice, and no
\* click counts for two moves.
Alternating == Playing => Count(1) = Count(2) + turn - 1

\* No marker hangs in the air.
Gravity ==
    \A c \in Column, r \in Row :
        r + 1 \in Row /\ GameMatrix[c][r] # 0 => GameMatrix[c][r + 1] # 0

With(c, color) == [GameMatrix EXCEPT ![c][LookupPosition(c)] = color]
Winning(color) == {c \in Playable : Line(With(c, color), color)}

\* The computer always finds a column that is not full ("This will never happen"),
\* wins where it can, and else prevents the opponent's win if it can.
ComputerPlays ==
    Playing =>
        /\ testInsert(turn) # {} /\ testInsert(turn) \subseteq Playable
        /\ Winning(turn) # {} => testInsert(turn) \subseteq Winning(turn)
        /\ Winning(turn) = {} /\ Winning(3 - turn) # {} =>
               testInsert(turn) \subseteq Winning(3 - turn)

\* A game that is to be broken is over some time, although the computer does not
\* look at the variable.
RestartIsHeeded == breakGame ~> ~ breakGame \/ pc = "exit"
=============================================================================
