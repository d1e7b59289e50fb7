--------------------------- MODULE BattleshipGame ---------------------------
(***************************************************************************)
(* What lab8/battleship.c promises its two users: a game on two boards,    *)
(* without processes, bytes or signals.  The server's user shoots first,   *)
(* the users shoot in turn, never twice at a cell, and each may give up    *)
(* as long as the game is undecided.  A verdict is what one user is told   *)
(* at the end; it may never come, for a program may be killed.             *)
(***************************************************************************)
EXTENDS Integers, FiniteSets

CONSTANTS GridSize, BoatNum

\* What battleship.c has of its #defines; a hypothesis of the theorems.
BoardAssumption == GridSize \in Nat /\ BoatNum \in 1..GridSize

Players == {"server", "client"}
Peer(p) == IF p = "server" THEN "client" ELSE "server"

Cells       == 0..(GridSize - 1)
DEFAULT     == 0
BOAT        == 1
MISSED_SHOT == 2
SUNKEN_BOAT == 3

VARIABLES board,    \* the board of each player
          verdict   \* what each player has been told

vars == <<board, verdict>>

Verdicts == {"none", "won", "lost", "forfeited", "opponentForfeited"}

TypeOK ==
  /\ board \in [Players -> [Cells -> {DEFAULT, BOAT, MISSED_SHOT, SUNKEN_BOAT}]]
  /\ verdict \in [Players -> Verdicts]

Init ==
  /\ board = [p \in Players |-> [c \in Cells |-> DEFAULT]]
  /\ verdict = [p \in Players |-> "none"]

Touched(p) == {c \in Cells : board[p][c] \in {MISSED_SHOT, SUNKEN_BOAT}}
Afloat(p)  == \E c \in Cells : board[p][c] = BOAT
Placed(p)  == \E c \in Cells : board[p][c] # DEFAULT

\* Both users know the number of shots: the server shoots when as many were
\* fired at each board, the client when the server is one shot ahead.
Turn(p) ==
  IF p = "server"
    THEN Cardinality(Touched("client")) = Cardinality(Touched("server"))
    ELSE Cardinality(Touched("client")) = Cardinality(Touched("server")) + 1

Tell(p, v) ==
  /\ verdict[p] = "none"
  /\ verdict' = [verdict EXCEPT ![p] = v]
  /\ UNCHANGED board

Place(p) ==
  /\ ~Placed(p)
  /\ \E S \in SUBSET Cells :
       /\ Cardinality(S) = BoatNum
       /\ board' = [board EXCEPT ![p] =
                      [c \in Cells |-> IF c \in S THEN BOAT ELSE DEFAULT]]
  /\ UNCHANGED verdict

Shoot(p, c) ==
  LET q == Peer(p)
  IN  /\ Turn(p)
      /\ Afloat(p) /\ Afloat(q)
      /\ \A r \in Players : verdict[r] = "none"
      /\ c \notin Touched(q)
      /\ board' = [board EXCEPT ![q][c] =
                     IF @ = BOAT THEN SUNKEN_BOAT ELSE MISSED_SHOT]
      /\ UNCHANGED verdict

Lose(p) == Placed(p) /\ ~Afloat(p) /\ Tell(p, "lost")

\* A victory is announced after the defeat.
Win(p) == verdict[Peer(p)] = "lost" /\ Tell(p, "won")

GiveUp(p) ==
  /\ Afloat(p) /\ Afloat(Peer(p))
  /\ Tell(p, "forfeited")

WinByForfeit(p) == verdict[Peer(p)] = "forfeited" /\ Tell(p, "opponentForfeited")

Next ==
  \E p \in Players :
    \/ Place(p)
    \/ \E c \in Cells : Shoot(p, c)
    \/ Lose(p)
    \/ Win(p)
    \/ GiveUp(p)
    \/ WinByForfeit(p)

Spec == Init /\ [][Next]_vars

-----------------------------------------------------------------------------
(* Properties.                                                             *)

Winner(p) == verdict[p] \in {"won", "opponentForfeited"}

\* The verdicts the two users read never contradict each other, nor the
\* boards: a victory answers a defeat of the other, a defeat leaves the other
\* afloat, and nobody who gave up had already won or lost.
VerdictsAgree ==
  \A p \in Players :
    /\ Winner(p) => verdict[Peer(p)] \in {"lost", "forfeited"}
    /\ verdict[p] = "lost" => ~Afloat(p) /\ Afloat(Peer(p))
    /\ verdict[p] = "forfeited" => Afloat(p) /\ Afloat(Peer(p))

\* A board does not change any more once one player has been told a verdict,
\* although the other may not know of it yet.
BoardFrozen ==
  [][\A p \in Players : verdict[p] # "none" => board' = board]_vars

=============================================================================
