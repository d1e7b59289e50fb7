------------------------ MODULE BattleshipGameProofs ------------------------
(***************************************************************************)
(* Theorems about the abstract game, for boards of every size and every    *)
(* number of boats.                                                        *)
(***************************************************************************)
EXTENDS BattleshipGame, FiniteSetTheorems, TLAPS

LEMMA PeerFacts ==
  ASSUME NEW p \in Players
  PROVE  /\ Peer(p) \in Players
         /\ Peer(p) # p
         /\ Peer(Peer(p)) = p
         /\ \A q \in Players : q = p \/ q = Peer(p)
  BY DEF Players, Peer

\* A sunken fleet leaves the other one afloat, and a defeat is of a fleet.
OneFleetSunk ==
  \A p \in Players :
    /\ Placed(p) /\ ~Afloat(p) => Afloat(Peer(p))
    /\ verdict[p] = "lost" => Placed(p)

IInv == TypeOK /\ VerdictsAgree /\ OneFleetSunk

LEMMA AfloatPlaced ==
  ASSUME NEW p, Afloat(p)
  PROVE  Placed(p)
  BY DEF Afloat, Placed, BOAT, DEFAULT

\* A verdict is told on boards that are both set up.
LEMMA VerdictNeedsBoards ==
  ASSUME IInv, NEW p \in Players, verdict[p] # "none"
  PROVE  Placed(p) /\ Placed(Peer(p))
<1>1. \A r \in Players : verdict[r] \in {"lost", "forfeited"} =>
        Placed(r) /\ Placed(Peer(r))
  BY AfloatPlaced DEF IInv, VerdictsAgree, OneFleetSunk
<1>2. verdict[p] \in {"lost", "forfeited"} \/ Winner(p)
  BY DEF IInv, TypeOK, Verdicts, Winner
<1> QED
  BY <1>1, <1>2, PeerFacts DEF IInv, VerdictsAgree

LEMMA PlaceStep ==
  ASSUME BoardAssumption, IInv, NEW p \in Players, Place(p)
  PROVE  /\ IInv'
         /\ \A q \in Players : verdict[q] = "none"
<1> DEFINE q == Peer(p)
<1>1. PICK S \in SUBSET Cells :
        /\ Cardinality(S) = BoatNum
        /\ board' = [board EXCEPT ![p] =
                       [c \in Cells |-> IF c \in S THEN BOAT ELSE DEFAULT]]
  BY DEF Place
<1>2. \A r \in Players : verdict[r] = "none"
  BY VerdictNeedsBoards, PeerFacts DEF Place
<1>3. PICK c \in Cells : c \in S
  BY <1>1, FS_EmptySet DEF BoardAssumption
<1>4. /\ board'[p] = [d \in Cells |-> IF d \in S THEN BOAT ELSE DEFAULT]
      /\ board'[q] = board[q]
      /\ board' \in [Players -> [Cells -> {DEFAULT, BOAT, MISSED_SHOT, SUNKEN_BOAT}]]
  BY <1>1, PeerFacts DEF IInv, TypeOK
<1>5. Afloat(p)'
  BY <1>3, <1>4 DEF Afloat
<1>6. verdict' = verdict
  BY DEF Place
<1>7. TypeOK'
  BY <1>4, <1>6 DEF IInv, TypeOK
<1>8. VerdictsAgree'
  BY <1>2, <1>6 DEF VerdictsAgree, Winner
<1>9. OneFleetSunk'
  BY <1>2, <1>5, <1>6, PeerFacts DEF OneFleetSunk
<1> QED
  BY <1>2, <1>7, <1>8, <1>9 DEF IInv

LEMMA ShootStep ==
  ASSUME IInv, NEW p \in Players, NEW c \in Cells, Shoot(p, c)
  PROVE  IInv'
<1> DEFINE q == Peer(p)
<1>1. /\ Afloat(p)
      /\ \A r \in Players : verdict[r] = "none"
      /\ verdict' = verdict
      /\ board' = [board EXCEPT ![q][c] =
                     IF @ = BOAT THEN SUNKEN_BOAT ELSE MISSED_SHOT]
  BY DEF Shoot
<1>2. /\ board'[p] = board[p]
      /\ board' \in [Players -> [Cells -> {DEFAULT, BOAT, MISSED_SHOT, SUNKEN_BOAT}]]
  BY <1>1, PeerFacts DEF IInv, TypeOK
<1>3. Afloat(p)'
  BY <1>1, <1>2 DEF Afloat
<1>4. TypeOK'
  BY <1>1, <1>2 DEF IInv, TypeOK
<1>5. VerdictsAgree'
  BY <1>1 DEF VerdictsAgree, Winner
<1>6. OneFleetSunk'
  BY <1>1, <1>3, PeerFacts DEF OneFleetSunk
<1> QED
  BY <1>4, <1>5, <1>6 DEF IInv

LEMMA TellStep ==
  ASSUME IInv, NEW p \in Players, Lose(p) \/ Win(p) \/ GiveUp(p) \/ WinByForfeit(p)
  PROVE  IInv' /\ board' = board
<1>1. PICK v \in Verdicts \ {"none"} : Tell(p, v)
  BY DEF Lose, Win, GiveUp, WinByForfeit, Verdicts
<1>2. /\ board' = board
      /\ verdict[p] = "none"
      /\ verdict' = [verdict EXCEPT ![p] = v]
  BY <1>1 DEF Tell
<1>3. TypeOK'
  BY <1>2 DEF IInv, TypeOK
<1>4. /\ verdict'[p] = v
      /\ verdict'[Peer(p)] = verdict[Peer(p)]
      /\ \A r \in Players : Afloat(r)' = Afloat(r) /\ Placed(r)' = Placed(r)
  BY <1>2, PeerFacts DEF IInv, TypeOK, Afloat, Placed
<1>5. /\ v \in {"won", "opponentForfeited"} => verdict[Peer(p)] \in {"lost", "forfeited"}
      /\ v = "lost" => Placed(p) /\ ~Afloat(p)
      /\ v = "forfeited" => Afloat(p) /\ Afloat(Peer(p))
  <2>1. \A w \in Verdicts : Tell(p, w) => w = v
    BY <1>2, <1>4 DEF Tell, IInv, TypeOK
  <2> QED
    BY <2>1 DEF Lose, Win, GiveUp, WinByForfeit, Verdicts
<1>6. VerdictsAgree'
  <2>1. verdict[Peer(p)] \notin {"won", "opponentForfeited"}
    BY <1>2, PeerFacts DEF IInv, VerdictsAgree, Winner
  <2> QED
    BY <1>4, <1>5, <2>1, PeerFacts DEF IInv, VerdictsAgree, OneFleetSunk, Winner
<1>7. OneFleetSunk'
  BY <1>4, <1>5, PeerFacts DEF IInv, OneFleetSunk
<1> QED
  BY <1>2, <1>3, <1>6, <1>7 DEF IInv

LEMMA InitIInv == Init => IInv
  BY DEF Init, IInv, TypeOK, VerdictsAgree, OneFleetSunk, Verdicts, Winner, Placed,
         Afloat

LEMMA NextIInv ==
  ASSUME BoardAssumption
  PROVE  IInv /\ [Next]_vars => IInv'
<1> SUFFICES ASSUME IInv, [Next]_vars PROVE IInv'
  OBVIOUS
<1>1. CASE Next
  BY <1>1, PlaceStep, ShootStep, TellStep DEF Next
<1>2. CASE UNCHANGED vars
  BY <1>2 DEF vars, IInv, TypeOK, VerdictsAgree, OneFleetSunk, Winner, Placed, Afloat
<1> QED
  BY <1>1, <1>2

\* The verdicts told to the two users are consistent with each other and with
\* the boards, whatever the size of the game.
THEOREM VerdictsAlwaysAgree ==
  ASSUME BoardAssumption
  PROVE  Spec => []VerdictsAgree
<1>1. IInv => VerdictsAgree
  BY DEF IInv
<1> QED
  BY <1>1, InitIInv, NextIInv, PTL DEF Spec

\* No board changes after the first verdict.
THEOREM BoardsAreFrozen ==
  ASSUME BoardAssumption
  PROVE  Spec => BoardFrozen
<1>1. IInv /\ [Next]_vars =>
        [\A p \in Players : verdict[p] # "none" => board' = board]_vars
  <2> SUFFICES ASSUME IInv, Next, NEW p \in Players, verdict[p] # "none"
               PROVE  board' = board
    OBVIOUS
  <2>1. ASSUME NEW q \in Players, Place(q) PROVE FALSE
    BY <2>1, PlaceStep
  <2>2. ASSUME NEW q \in Players, NEW c \in Cells, Shoot(q, c) PROVE FALSE
    BY <2>2 DEF Shoot
  <2> QED
    BY <2>1, <2>2, TellStep DEF Next
<1> QED
  BY <1>1, InitIInv, NextIInv, PTL DEF Spec, BoardFrozen

=============================================================================
