------------------------- MODULE BattleshipLockstep -------------------------
(***************************************************************************)
(* Why two copies of battleship.c that exchange untagged bytes play one    *)
(* game: as long as no send is given up, they move in lock step.  The      *)
(* state of each program determines what the other one is doing and which  *)
(* bytes are between them.  LockInv is the inductive invariant behind the  *)
(* theorems of BattleshipProofs about the boards, the turns, the verdicts  *)
(* and the abstract game.                                                  *)
(***************************************************************************)
EXTENDS Battleship

\* No send is given up: the failures the network may cause are all retried.
SendsHold == MaxSendFailures <= SendRetryLimit

Active == InGame \cup {"closeOk", "closeFail"}
Placed == {"connect", "accept", "register"}

Alive(p)   == pc[p] \in SetUp \cup InGame
Waits(p)   == WaitsResult(p)
Answers(p) == pc[p] = "sendResult"

\* Between two exchanges: the next shot is p's, or is its opponent's.
Between(p) == Alive(p) /\ ~Waits(p) /\ ~Answers(p)
Attacks(p) == Between(p) /\ attacking[p]
Defends(p) == Between(p) /\ ~attacking[p]

-----------------------------------------------------------------------------
(* Shots.                                                                  *)

\* The last shot of p, the cell of the opponent's board it is aimed at, and
\* the result owed to p once it fell.
Shot(p)   == usrInput[p]
Target(p) == userGrid[Peer(p)][Shot(p)]
Answer(p) == IF Target(p) = SUNKEN_BOAT THEN BOAT ELSE MISSED_SHOT

\* The opponent has read the shot, and p does not know the result.
ShotFell(p) ==
  /\ Shot(p) \in Cells
  /\ advGrid[p][Shot(p)] = DEFAULT
  /\ Target(p) \in {MISSED_SHOT, SUNKEN_BOAT}

\* The opponent has not read the shot, which p was entitled to.
ShotFlies(p) ==
  /\ Shot(p) \in Cells
  /\ advGrid[p][Shot(p)] = DEFAULT
  /\ Target(p) \in {DEFAULT, BOAT}
  /\ outcome[p] = "none"
  /\ Game!Turn(p)

Afloat(p)  == \E c \in Cells : userGrid[p][c] = BOAT

-----------------------------------------------------------------------------
(* The bytes between the programs.                                         *)

\* Both programs run, and a is ahead: it shoots first, or waits for a result.
InStep(a, d) ==
  \/ /\ Attacks(a) /\ Defends(d)
     /\ inbox[a] = << >> /\ inbox[d] = << >>
     /\ Game!Turn(a)
  \/ /\ Waits(a) /\ Defends(d)
     /\ inbox[a] = << >>
     /\ \/ inbox[d] = <<Shot(a)>> /\ ShotFlies(a)
        \/ inbox[d] = << >> /\ pc[d] = "sendForfeit"
  \/ /\ Waits(a) /\ Answers(d)
     /\ inbox[a] = << >> /\ inbox[d] = << >>
     /\ ShotFell(a) /\ data[d] = Answer(a)
     /\ Game!Turn(d)
  \/ /\ Waits(a) /\ Attacks(d)
     /\ inbox[a] = <<Answer(a)>> /\ inbox[d] = << >>
     /\ ShotFell(a) /\ Afloat(d)
     /\ Game!Turn(d)
  \/ /\ Waits(a) /\ Waits(d)
     /\ inbox[a] = <<Answer(a), Shot(d)>> /\ inbox[d] = << >>
     /\ ShotFell(a) /\ Afloat(d)
     /\ ShotFlies(d)

\* The program of q is gone: what p may still read.
Leftover(p, q) ==
  \/ inbox[p] = << >>
  \/ inbox[p] = <<FORFEIT>> /\ ~Answers(p) /\ outcome[q] = "forfeited"
  \/ Defends(p) /\ inbox[p] = <<Shot(q)>> /\ ShotFlies(q)
  \/ /\ Waits(p) /\ ShotFell(p)
     /\ Afloat(q) \/ outcome[q] = "lost"
     /\ \/ inbox[p] = <<Answer(p)>>
        \/ inbox[p] = <<Answer(p), FORFEIT>> /\ outcome[q] = "forfeited"
        \/ inbox[p] = <<Answer(p), Shot(q)>> /\ ShotFlies(q)

Streams ==
  /\ (\A p \in Players : Alive(p)) => \E a \in Players : InStep(a, Peer(a))
  /\ \A p \in Players : Alive(p) /\ ~Alive(Peer(p)) => Leftover(p, Peer(p))

-----------------------------------------------------------------------------
(* The rest of the invariant.                                              *)

\* The program counter shows the role; the byte of a move is the input.
RoleInv ==
  \A p \in Players :
    /\ pc[p] \in SetUp => attacking[p] = (p = "server")
    /\ pc[p] \in {"prompt", "clear", "sendMove", "recvResult"} => attacking[p]
    /\ pc[p] \in {"recvMove", "sendResult"} => ~attacking[p]
    /\ pc[p] = "sendMove" => data[p] = Shot(p)

Ships(p) == {c \in Cells : userGrid[p][c] \in {BOAT, SUNKEN_BOAT}}
Empty(p) == \A c \in Cells : userGrid[p][c] = DEFAULT

\* A fleet is placed once, before the connection exists, and only sinks.
FleetInv ==
  \A p \in Players :
    /\ Empty(p) \/ Cardinality(Ships(p)) = BoatNum
    /\ pc[p] = "place" => Empty(p)
    /\ pc[p] \in Placed \cup InGame \/ conn["client"] # "none" =>
         Cardinality(Ships(p)) = BoatNum
    /\ pc[p] \in {"register"} \cup InGame => conn["client"] # "none"

\* A reset comes from a program that is gone.
ConnInv ==
  \A p \in Players :
    /\ conn[p] = "closed" => ~Alive(p)
    /\ rst[p] => ~Alive(Peer(p))

Undecided == \A p \in Players : Alive(p) => ~Decided(p)

\* BoardsAgree without the latitude it leaves to a program not started yet.
Agree ==
  \A p \in Players : \A c \in Cells :
    \/ advGrid[p][c] = userGrid[Peer(p)][c]
    \/ /\ advGrid[p][c] = DEFAULT
       /\ \/ userGrid[Peer(p)][c] = BOAT
          \/ c = Shot(p) /\ (Waits(p) \/ ~Alive(p))

\* The two programs are in lock step.
LockInv ==
  /\ RoleInv
  /\ FleetInv
  /\ ConnInv
  /\ Undecided
  /\ Agree
  /\ VictoryDeserved
  /\ Streams

=============================================================================
