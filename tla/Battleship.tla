----------------------------- MODULE Battleship -----------------------------
(***************************************************************************)
(* The two-player network game of lab8/battleship.c.  The same program     *)
(* runs twice, as a server and as a client, and the two copies share one   *)
(* TCP connection.  Every step of either program between two points where *)
(* the other program, the user or the kernel can interfere is one action.  *)
(*                                                                         *)
(* A byte on the wire carries no tag: a cell, a result and FORFEIT are     *)
(* all plain chars, so that a byte read at the wrong moment is understood  *)
(* as something else, exactly as in the program.                           *)
(***************************************************************************)
EXTENDS Integers, Sequences, FiniteSets

CONSTANTS GridSize,         \* GRID_SIZE, 16 in the code
          BoatNum,          \* BOAT_NUM, 3 in the code
          SendRetryLimit,   \* SEND_RETRY_LIMIT, 3 in the code
          MaxSendFailures   \* bound: failures of send() in one socketSend()

ASSUME GridAssumption  == GridSize \in 3..126
ASSUME BoatAssumption  == BoatNum \in 1..GridSize
ASSUME RetryAssumption == SendRetryLimit \in Nat /\ MaxSendFailures \in Nat

Players == {"server", "client"}
Peer(p) == IF p = "server" THEN "client" ELSE "server"

Cells       == 0..(GridSize - 1)
DEFAULT     == 0
BOAT        == 1
MISSED_SHOT == 2
SUNKEN_BOAT == 3
FORFEIT     == 127

GridStates == {DEFAULT, BOAT, MISSED_SHOT, SUNKEN_BOAT}
Bytes      == Cells \cup {BOAT, MISSED_SHOT, FORFEIT}

VARIABLES
  pc,           \* where each program stands
  userGrid,     \* own board, shots received included
  advGrid,      \* what is known of the opponent's board
  userBoats,    \* own boats still afloat
  advBoats,     \* opponent's boats still afloat
  usrInput,     \* last cell read by promptCell()
  data,         \* the byte to send or just received
  attacking,    \* firstIter % 2
  retryCount,   \* of the socketSend() in progress
  forfeitFlag,  \* set by the SIGTSTP handler
  eintr,        \* errno = EINTR
  outcome,      \* the verdict printed to the user
  conn,         \* state of this side's socket
  rst,          \* a TCP reset is on its way to this side
  inbox         \* bytes sent to this side and not read yet

boards  == <<userGrid, advGrid, userBoats, advBoats>>
locals  == <<usrInput, data, attacking, retryCount>>
signals == <<forfeitFlag, eintr>>
net     == <<conn, rst, inbox>>
vars    == <<pc, boards, locals, signals, outcome, net>>

SendPCs == {"sendMove", "sendResult", "sendForfeit"}
RecvPCs == {"recvMove", "recvResult"}
InGame  == {"loop", "prompt", "clear"} \cup SendPCs \cup RecvPCs
Ended   == {"exitOk", "exitFail", "killed"}
SetUp   == {"place", "connect", "accept", "register"}
PCs     == SetUp \cup InGame \cup {"closeOk", "closeFail"} \cup Ended

Outcomes == {"none", "won", "lost", "forfeited", "opponentForfeited"}

TypeOK ==
  /\ pc \in [Players -> PCs]
  /\ userGrid \in [Players -> [Cells -> GridStates]]
  /\ advGrid \in [Players -> [Cells -> GridStates \ {BOAT}]]
  /\ userBoats \in [Players -> 0..BoatNum]
  /\ advBoats \in [Players -> 0..BoatNum]
  /\ usrInput \in [Players -> Cells \cup {FORFEIT}]
  /\ data \in [Players -> Bytes]
  /\ attacking \in [Players -> BOOLEAN]
  /\ retryCount \in [Players -> 0..SendRetryLimit]
  /\ forfeitFlag \in [Players -> BOOLEAN]
  /\ eintr \in [Players -> BOOLEAN]
  /\ outcome \in [Players -> Outcomes]
  /\ conn \in [Players -> {"none", "open", "reset", "closed"}]
  /\ rst \in [Players -> BOOLEAN]
  /\ inbox \in [Players -> Seq(Bytes)]

Init ==
  /\ pc = [p \in Players |-> "place"]
  /\ userGrid = [p \in Players |-> [c \in Cells |-> DEFAULT]]
  /\ advGrid = [p \in Players |-> [c \in Cells |-> DEFAULT]]
  /\ userBoats = [p \in Players |-> BoatNum]
  /\ advBoats = [p \in Players |-> BoatNum]
  /\ usrInput = [p \in Players |-> 0]
  /\ data = [p \in Players |-> 0]
  /\ attacking = [p \in Players |-> p = "server"]
  /\ retryCount = [p \in Players |-> 0]
  /\ forfeitFlag = [p \in Players |-> FALSE]
  /\ eintr = [p \in Players |-> FALSE]
  /\ outcome = [p \in Players |-> "none"]
  /\ conn = [p \in Players |-> "none"]
  /\ rst = [p \in Players |-> FALSE]
  /\ inbox = [p \in Players |-> << >>]

Goto(p, l) == pc' = [pc EXCEPT ![p] = l]

-----------------------------------------------------------------------------
(* The TCP connection, as the program sees it.                             *)

\* A byte handed to the kernel.  A peer that has closed its socket answers
\* with a reset.
Transmit(p, b) ==
  IF conn[Peer(p)] = "closed"
    THEN /\ rst' = [rst EXCEPT ![p] = TRUE]
         /\ UNCHANGED <<conn, inbox>>
    ELSE /\ inbox' = [inbox EXCEPT ![Peer(p)] = Append(@, b)]
         /\ UNCHANGED <<conn, rst>>

\* The socket is closed, by close() or by the death of the process.  Bytes
\* nobody read, or a connection nobody accepted, turn the FIN into a reset.
Shut(p) ==
  IF conn["client"] = "none"
    THEN UNCHANGED net
    ELSE /\ conn' = [conn EXCEPT ![p] = "closed"]
         /\ inbox' = [inbox EXCEPT ![p] = << >>]
         /\ rst' = [rst EXCEPT ![Peer(p)] =
                      \/ @
                      \/ /\ conn[Peer(p)] = "open"
                         /\ inbox[p] # << >> \/ conn[p] = "none"]

\* The reset is processed by the kernel of p, which may or may not keep the
\* bytes received before it.
ResetArrives(p) ==
  /\ rst[p]
  /\ conn[p] = "open"
  /\ conn' = [conn EXCEPT ![p] = "reset"]
  /\ rst' = [rst EXCEPT ![p] = FALSE]
  /\ \/ UNCHANGED inbox
     \/ inbox' = [inbox EXCEPT ![p] = << >>]
  /\ UNCHANGED <<pc, boards, locals, signals, outcome>>

\* Faulty variant: recv() = 0 is not noticed.
OnlyReset(p) == inbox[p] = << >> /\ conn[p] = "reset"

\* recv() cannot return a byte any more: end of file or a reset connection.
NothingToCome(p) ==
  inbox[p] = << >> /\ (conn[p] = "reset" \/ conn[Peer(p)] = "closed")

-----------------------------------------------------------------------------
(* Before the game: boats, connection, signal handler.                     *)

PlaceBoats(p) ==
  /\ pc[p] = "place"
  /\ \E S \in SUBSET Cells :
       /\ Cardinality(S) = BoatNum
       /\ userGrid' = [userGrid EXCEPT ![p] =
                         [c \in Cells |-> IF c \in S THEN BOAT ELSE DEFAULT]]
  /\ Goto(p, "connect")
  /\ UNCHANGED <<advGrid, userBoats, advBoats, locals, signals, outcome, net>>

\* socket(), bind() and listen() of server_create().
Listen ==
  /\ pc["server"] = "connect"
  /\ Goto("server", "accept")
  /\ UNCHANGED <<boards, locals, signals, outcome, net>>

\* connect() succeeds as soon as the server listens: the kernel completes the
\* handshake before accept() returns.
Connect ==
  /\ pc["client"] = "connect"
  /\ pc["server"] = "accept"
  /\ conn' = [conn EXCEPT !["client"] = "open"]
  /\ Goto("client", "register")
  /\ UNCHANGED <<boards, locals, signals, outcome, rst, inbox>>

\* server_create() or client_connect() returns -1.
SetUpFails(p) ==
  /\ pc[p] = "connect"
  /\ Goto(p, "exitFail")
  /\ UNCHANGED <<boards, locals, signals, outcome, net>>

Accept ==
  /\ pc["server"] = "accept"
  /\ conn["client"] # "none"
  /\ conn' = [conn EXCEPT !["server"] = "open"]
  /\ Goto("server", "register")
  /\ UNCHANGED <<boards, locals, signals, outcome, rst, inbox>>

\* accept() returns -1: the listening socket is closed and exit(-1) called.
AcceptFails ==
  /\ pc["server"] = "accept"
  /\ Shut("server")
  /\ Goto("server", "exitFail")
  /\ UNCHANGED <<boards, locals, signals, outcome>>

\* Faulty variant: firstIter = 1 on both sides.
RegisterBothFirst(p) ==
  /\ pc[p] = "register"
  /\ attacking' = [attacking EXCEPT ![p] = TRUE]
  /\ Goto(p, "loop")
  /\ UNCHANGED <<boards, data, usrInput, retryCount, signals, outcome, net>>

\* sigaction(), then the initialisation of the variables of the game loop.
Register(p) ==
  /\ pc[p] = "register"
  /\ userBoats' = [userBoats EXCEPT ![p] = BoatNum]
  /\ advBoats' = [advBoats EXCEPT ![p] = BoatNum]
  /\ data' = [data EXCEPT ![p] = 0]
  /\ usrInput' = [usrInput EXCEPT ![p] = 0]
  /\ attacking' = [attacking EXCEPT ![p] = (p = "server")]
  /\ Goto(p, "loop")
  /\ UNCHANGED <<userGrid, advGrid, retryCount, signals, outcome, net>>

-----------------------------------------------------------------------------
(* The game loop.                                                          *)

\* while (!forfeitFlag), and the choice of the role.
LoopTest(p) ==
  /\ pc[p] = "loop"
  /\ Goto(p, IF forfeitFlag[p] THEN "closeOk"
             ELSE IF attacking[p] THEN "prompt" ELSE "recvMove")
  /\ UNCHANGED <<boards, locals, signals, outcome, net>>

\* promptCell() reads a hexadecimal digit and goes on to CLEAR_INPUT_BUFFER.
EnterCell(p, c) ==
  /\ pc[p] = "prompt"
  /\ ~forfeitFlag[p]
  /\ usrInput' = [usrInput EXCEPT ![p] = c]
  /\ Goto(p, "clear")
  /\ UNCHANGED <<boards, data, attacking, retryCount, signals, outcome, net>>

\* promptCell() returns FORFEIT, whatever getchar() returned.
GiveUpAtPrompt(p) ==
  /\ usrInput' = [usrInput EXCEPT ![p] = FORFEIT]
  /\ Goto(p, "sendForfeit")
  /\ UNCHANGED <<boards, data, attacking, retryCount, outcome, net>>

\* A key is typed while the flag is already up.
PromptForfeit(p) ==
  /\ pc[p] = "prompt"
  /\ forfeitFlag[p]
  /\ GiveUpAtPrompt(p)
  /\ UNCHANGED signals

\* The handler runs, and the system call it interrupts fails with EINTR.
Interrupt(p) ==
  /\ forfeitFlag' = [forfeitFlag EXCEPT ![p] = TRUE]
  /\ eintr' = [eintr EXCEPT ![p] = TRUE]

\* Ctrl+Z while getchar() is blocked: it returns EOF.
PromptInterrupted(p) ==
  /\ pc[p] = "prompt"
  /\ Interrupt(p)
  /\ GiveUpAtPrompt(p)

\* Faulty variant: the same cell may be attacked again.
CheckNothing(p) ==
  /\ pc[p] = "clear"
  /\ Goto(p, "sendMove")
  /\ data' = [data EXCEPT ![p] = usrInput[p]]
  /\ UNCHANGED <<boards, usrInput, attacking, retryCount, outcome, net>>

\* After promptCell(): a cell already attacked restarts the iteration with
\* the same role, a new one is sent.
CheckCell(p) ==
  /\ pc[p] = "clear"
  /\ IF advGrid[p][usrInput[p]] # DEFAULT
       THEN Goto(p, "loop") /\ UNCHANGED data
       ELSE Goto(p, "sendMove") /\ data' = [data EXCEPT ![p] = usrInput[p]]
  /\ UNCHANGED <<boards, usrInput, attacking, retryCount, outcome, net>>

ClearReturns(p) == CheckCell(p) /\ UNCHANGED signals

\* Ctrl+Z while CLEAR_INPUT_BUFFER is blocked: the cell read before stands.
ClearInterrupted(p) == CheckCell(p) /\ Interrupt(p)

\* Ctrl+Z while no system call is blocked: only the flag is left behind.
Signal(p) ==
  /\ pc[p] \in InGame
  /\ ~forfeitFlag[p]
  /\ forfeitFlag' = [forfeitFlag EXCEPT ![p] = TRUE]
  /\ UNCHANGED <<pc, boards, locals, eintr, outcome, net>>

-----------------------------------------------------------------------------
(* socketSend() and the code that follows each of its calls.               *)

\* Faulty variant: firstIter is left as it is.
SameTurn(p) == Goto(p, "loop") /\ UNCHANGED attacking

\* firstIter++
NextTurn(p) ==
  /\ attacking' = [attacking EXCEPT ![p] = ~@]
  /\ Goto(p, "loop")

\* The game is over for p: a verdict is printed and the loop left by break.
Conclude(p, verdict) ==
  /\ outcome' = [outcome EXCEPT ![p] = verdict]
  /\ Goto(p, "closeOk")

\* Faulty variant: a fleet counts as sunk with one boat left.
NoBoatLeftEarly(n) == n <= 1

NoBoatLeft(n) == n = 0

\* What the caller does once socketSend() has returned 0 (ok) or -1.  Only
\* the sender of a move looks at it.
AfterSend(p, ok) ==
  \/ /\ pc[p] = "sendMove"
     /\ Goto(p, IF ok THEN "recvResult" ELSE "closeFail")
     /\ UNCHANGED <<attacking, outcome>>
  \/ /\ pc[p] = "sendForfeit"
     /\ Conclude(p, "forfeited")
     /\ UNCHANGED attacking
  \/ /\ pc[p] = "sendResult"
     /\ IF NoBoatLeft(userBoats[p])
          THEN Conclude(p, "lost") /\ UNCHANGED attacking
          ELSE NextTurn(p) /\ UNCHANGED outcome

\* Faulty variant: the input is sent in place of the answer.
OutgoingInput(p) == IF pc[p] = "sendForfeit" THEN FORFEIT ELSE usrInput[p]

Outgoing(p) == IF pc[p] = "sendForfeit" THEN FORFEIT ELSE data[p]

SendSucceeds(p) ==
  /\ pc[p] \in SendPCs
  /\ conn[p] = "open"
  /\ Transmit(p, Outgoing(p))
  /\ retryCount' = [retryCount EXCEPT ![p] = 0]
  /\ AfterSend(p, TRUE)
  /\ UNCHANGED <<boards, usrInput, data, signals>>

\* Faulty variant: one retry less.
AbortsEarly(n) == n >= SendRetryLimit

\* ++retryCount > SEND_RETRY_LIMIT, with the value n after the increment.
Aborts(n) == n > SendRetryLimit

\* send() returns -1, because of a signal or for another passing reason.
SendFails(p) ==
  /\ pc[p] \in SendPCs
  /\ conn[p] = "open"
  /\ retryCount[p] < MaxSendFailures
  /\ \/ Interrupt(p)
     \/ eintr' = [eintr EXCEPT ![p] = FALSE] /\ UNCHANGED forfeitFlag
  /\ IF Aborts(retryCount[p] + 1)
       THEN /\ retryCount' = [retryCount EXCEPT ![p] = 0]
            /\ AfterSend(p, FALSE)
       ELSE /\ retryCount' = [retryCount EXCEPT ![p] = @ + 1]
            /\ UNCHANGED <<pc, attacking, outcome>>
  /\ UNCHANGED <<boards, usrInput, data, net>>

\* send() on a reset connection fails once at most, then raises SIGPIPE,
\* which the program does not handle.
SendKilled(p) ==
  /\ pc[p] \in SendPCs
  /\ conn[p] = "reset"
  /\ Shut(p)
  /\ Goto(p, "killed")
  /\ UNCHANGED <<boards, locals, signals, outcome>>

-----------------------------------------------------------------------------
(* socketRecv() and the code that follows each of its calls.               *)

\* socketRecv() has returned -1: the defender looks at the flag.
RecvFailed(p, flag) ==
  Goto(p, IF pc[p] = "recvMove" /\ flag THEN "sendForfeit" ELSE "closeFail")

RecvFails(p) ==
  /\ pc[p] \in RecvPCs
  /\ NothingToCome(p)
  /\ RecvFailed(p, forfeitFlag[p])
  /\ UNCHANGED <<boards, locals, signals, outcome, net>>

\* Ctrl+Z while recv() is blocked.
RecvInterrupted(p) ==
  /\ pc[p] \in RecvPCs
  /\ Interrupt(p)
  /\ RecvFailed(p, TRUE)
  /\ UNCHANGED <<boards, locals, outcome, net>>

\* The byte at the head of the stream goes to data.
ReadByte(p, b) ==
  /\ inbox[p] # << >>
  /\ b = Head(inbox[p])
  /\ inbox' = [inbox EXCEPT ![p] = Tail(@)]
  /\ UNCHANGED <<conn, rst>>

\* recv() succeeds while errno still holds EINTR from an earlier call: the
\* byte is consumed, and socketRecv() returns -1 all the same.
RecvStale(p) ==
  /\ pc[p] \in RecvPCs
  /\ eintr[p]
  /\ \E b \in Bytes : ReadByte(p, b) /\ data' = [data EXCEPT ![p] = b]
  /\ RecvFailed(p, forfeitFlag[p])
  /\ UNCHANGED <<boards, usrInput, attacking, retryCount, signals, outcome>>

\* checkOpponentForfeit(), on either side.
OpponentForfeits(p) ==
  /\ pc[p] \in RecvPCs
  /\ ~eintr[p]
  /\ ReadByte(p, FORFEIT)
  /\ data' = [data EXCEPT ![p] = FORFEIT]
  /\ Conclude(p, "opponentForfeited")
  /\ UNCHANGED <<boards, usrInput, attacking, retryCount, signals>>

\* Faulty variant: the result itself is written on the grid.
MarkAsReceived(b) == b

\* How a cell shot at is marked, given the result.
Mark(b) == IF b = BOAT THEN SUNKEN_BOAT ELSE MISSED_SHOT

\* The attacker reads a result: anything but BOAT counts as a miss.
HandleResult(p, b) ==
  /\ pc[p] = "recvResult"
  /\ ~eintr[p]
  /\ b # FORFEIT
  /\ ReadByte(p, b)
  /\ data' = [data EXCEPT ![p] = b]
  /\ advGrid' = [advGrid EXCEPT ![p][usrInput[p]] = Mark(b)]
  /\ advBoats' = [advBoats EXCEPT ![p] = IF b = BOAT THEN @ - 1 ELSE @]
  /\ IF NoBoatLeft(advBoats'[p])
       THEN Conclude(p, "won") /\ UNCHANGED attacking
       ELSE NextTurn(p) /\ UNCHANGED outcome
  /\ UNCHANGED <<userGrid, userBoats, usrInput, retryCount, signals>>

\* The defender reads a move, updates its board and prepares the result.
HandleMove(p, b) ==
  /\ pc[p] = "recvMove"
  /\ ~eintr[p]
  /\ b # FORFEIT
  /\ ReadByte(p, b)
  /\ LET hit == userGrid[p][b] = BOAT
     IN /\ userGrid' = [userGrid EXCEPT ![p][b] = Mark(userGrid[p][b])]
        /\ userBoats' = [userBoats EXCEPT ![p] = IF hit THEN @ - 1 ELSE @]
        /\ data' = [data EXCEPT ![p] = IF hit THEN BOAT ELSE MISSED_SHOT]
  /\ Goto(p, "sendResult")
  /\ UNCHANGED <<advGrid, advBoats, usrInput, attacking, retryCount, signals,
                 outcome>>

-----------------------------------------------------------------------------
(* The end of the program.                                                 *)

\* close(fd) and the return from main().
CloseSocket(p) ==
  /\ pc[p] \in {"closeOk", "closeFail"}
  /\ Shut(p)
  /\ Goto(p, IF pc[p] = "closeOk" THEN "exitOk" ELSE "exitFail")
  /\ UNCHANGED <<boards, locals, signals, outcome>>

\* Ctrl+C: SIGINT keeps its default action.
Kill(p) ==
  /\ pc[p] \notin Ended
  /\ Shut(p)
  /\ Goto(p, "killed")
  /\ UNCHANGED <<boards, locals, signals, outcome>>

-----------------------------------------------------------------------------
\* What the program does by itself once the connection exists.
Program(p) ==
  \/ p = "server" /\ Accept
  \/ Register(p)
  \/ LoopTest(p)
  \/ ClearReturns(p)
  \/ SendSucceeds(p)
  \/ SendKilled(p)
  \/ RecvFails(p)
  \/ RecvStale(p)
  \/ OpponentForfeits(p)
  \/ \E b \in Bytes : HandleResult(p, b) \/ HandleMove(p, b)
  \/ CloseSocket(p)

\* What the user does with the keyboard.
User(p) ==
  \/ PlaceBoats(p)
  \/ \E c \in Cells : EnterCell(p, c)
  \/ PromptForfeit(p)
  \/ PromptInterrupted(p)
  \/ ClearInterrupted(p)
  \/ RecvInterrupted(p)
  \/ Signal(p)
  \/ Kill(p)

\* What the system calls decide.
System(p) ==
  \/ p = "server" /\ (Listen \/ AcceptFails)
  \/ p = "client" /\ Connect
  \/ SetUpFails(p)
  \/ SendFails(p)
  \/ ResetArrives(p)

Next == \E p \in Players : Program(p) \/ User(p) \/ System(p)

Spec == Init /\ [][Next]_vars

\* A prompted user ends up typing a key, and a cell not attacked yet.
EnterNewCell(p) ==
  \/ \E c \in Cells : advGrid[p][c] = DEFAULT /\ EnterCell(p, c)
  \/ PromptForfeit(p)

Fairness ==
  \A p \in Players : /\ WF_vars(Program(p))
                     /\ WF_vars(ResetArrives(p))
                     /\ SF_vars(EnterNewCell(p))

FairSpec == Spec /\ Fairness

-----------------------------------------------------------------------------
(* Properties.                                                             *)

Decided(p) == outcome[p] # "none"
Playing(p) == pc[p] \in InGame
WaitsResult(p) == pc[p] = "recvResult"

\* What the attacker knows of a board is what that board holds: the two
\* grids differ only by untouched cells and by the one shot whose result has
\* not been read yet (or never will be, its author being gone).  The bytes
\* carry no tag and no turn number, so a result taken for a move, or lost,
\* would break this.
BoardsAgree ==
  \A p \in Players : \A c \in Cells :
    LET view == advGrid[p][c]
        real == userGrid[Peer(p)][c]
    IN  \/ view = real
        \/ /\ view = DEFAULT
           /\ \/ real = BOAT
              \/ /\ c = usrInput[p]
                 /\ WaitsResult(p) \/ ~Playing(p)

Fleet(p) == {c \in Cells : userGrid[p][c] = BOAT}
Sunk(p)  == {c \in Cells : advGrid[p][c] = SUNKEN_BOAT}

\* The counters that decide the game are the numbers of boats on the grids:
\* a counter decremented twice for a cell, or not at all, ends the game at
\* the wrong moment.
BoatsCounted ==
  \A p \in Players :
    pc[p] \in InGame \cup {"closeOk", "closeFail"} =>
      /\ userBoats[p] = Cardinality(Fleet(p))
      /\ advBoats[p] = BoatNum - Cardinality(Sunk(p))

\* Both programs alternate in lock step: they never wait for a move of each
\* other, and they are attackers together only while the result that ends
\* the turn of one of them is on its way.
TurnsAlternate ==
  Playing("server") /\ Playing("client") =>
    /\ \E p \in Players : attacking[p]
    /\ (\A p \in Players : attacking[p]) =>
          \E p \in Players : WaitsResult(p) /\ inbox[p] # << >>

Blocked(p) == pc[p] \in RecvPCs /\ inbox[p] = << >> /\ ~NothingToCome(p)

\* recv() has no timeout.  A program blocked in it waits for one that is still
\* there and not blocked itself: no lost wake-up when the other one dies, at
\* any point of its life, and no two programs waiting for each other.
NobodyWaitsInVain ==
  \A p \in Players : Blocked(p) => pc[Peer(p)] \notin Ended /\ ~Blocked(Peer(p))

\* An announced victory is deserved: every boat of the loser is sunk, or the
\* loser gave up; and two players never both win.
VictoryDeserved ==
  \A p \in Players :
    /\ outcome[p] = "won" =>
         /\ \A c \in Cells : userGrid[Peer(p)][c] # BOAT
         /\ outcome[Peer(p)] = "lost"
    /\ outcome[p] = "opponentForfeited" => outcome[Peer(p)] = "forfeited"

\* The byte an attacker is about to take for a result is a FORFEIT or the
\* result of its own shot, as the comment at battleship.c:553 says.
ResultIsGridState ==
  \A p \in Players :
    WaitsResult(p) /\ inbox[p] # << >> =>
      LET byte == Head(inbox[p])
          cell == userGrid[Peer(p)][usrInput[p]]
      IN  \/ byte = FORFEIT
          \/ byte = BOAT /\ cell = SUNKEN_BOAT
          \/ byte = MISSED_SHOT /\ cell = MISSED_SHOT

\* A player who gave up with Ctrl+Z and whose program ended normally has
\* warned the opponent, as the comment at battleship.c:134 says.
QuitIsAnnounced ==
  \A p \in Players :
    pc[p] = "exitOk" /\ forfeitFlag[p] => Decided(p)

\* Once connected, a program always ends: the two never wait for each other,
\* and the end of one is noticed by the other.
GameEnds ==
  \A p \in Players : (conn[p] = "open") ~> (pc[p] \in Ended)

-----------------------------------------------------------------------------
(* The game the two programs play, seen from outside.                      *)

Game == INSTANCE BattleshipGame WITH board <- userGrid, verdict <- outcome

\* The two programs together play the game: the boards they keep change only
\* by legal shots in turn, and the verdicts they print are those of the game,
\* although each verdict is reached from one side's bytes alone.
PlaysTheGame == Game!Spec

=============================================================================
