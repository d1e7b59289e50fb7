-------------------------- MODULE BattleshipProofs --------------------------
(***************************************************************************)
(* Theorems about Battleship, for grids of every size up to 126 cells, any *)
(* number of boats, any retry limit and any number of failing sends.       *)
(* Types and counters hold even where the two programs drift apart; that   *)
(* they move in lock step, and play the game of BattleshipGame, has the    *)
(* hypothesis that no send is given up (SendsHold).                        *)
(***************************************************************************)
EXTENDS BattleshipLockstep, FiniteSetTheorems, TLAPS

Step(p) == Program(p) \/ User(p) \/ System(p)

\* A byte other than FORFEIT can always index a grid, whether it was meant
\* as a cell or as a result.
LEMMA BytesAreCells ==
  /\ Cells \cup {BOAT, MISSED_SHOT} = Cells
  /\ \A b \in Bytes : b # FORFEIT => b \in Cells
  /\ FORFEIT \notin Cells
  BY GridAssumption DEF Bytes, Cells, BOAT, MISSED_SHOT, FORFEIT

LEMMA PeerFacts ==
  ASSUME NEW p \in Players
  PROVE  Peer(p) \in Players /\ Peer(p) # p /\ Peer(Peer(p)) = p
  BY DEF Players, Peer

-----------------------------------------------------------------------------
(* What a step may change, one group of variables at a time.               *)

\* Boards change before the game, or with the byte just read.
LEMMA BoardSteps ==
  ASSUME NEW p \in Players, Step(p)
  PROVE  \/ UNCHANGED boards
         \/ PlaceBoats(p)
         \/ Register(p)
         \/ \E b \in Bytes : HandleResult(p, b) \/ HandleMove(p, b)
  BY DEF Step, Program, User, System, Accept, LoopTest, ClearReturns, CheckCell,
         SendSucceeds, SendKilled, RecvFails, RecvStale, OpponentForfeits,
         CloseSocket, EnterCell, PromptForfeit, PromptInterrupted, GiveUpAtPrompt,
         ClearInterrupted, RecvInterrupted, Signal, Kill, Listen, AcceptFails,
         Connect, SetUpFails, SendFails, ResetArrives

LEMMA PcSteps ==
  ASSUME NEW p \in Players, Step(p)
  PROVE  UNCHANGED pc \/ \E l \in PCs : Goto(p, l)
<1> USE DEF PCs, SetUp, InGame, SendPCs, RecvPCs, Ended
<1>1. CASE Program(p)
  BY <1>1 DEF Program, Accept, Register, LoopTest, ClearReturns, CheckCell,
              SendSucceeds, AfterSend, Conclude, NextTurn, SendKilled, RecvFails,
              RecvStale, RecvFailed, OpponentForfeits, HandleResult, HandleMove,
              CloseSocket, Goto
<1>2. CASE User(p)
  BY <1>2 DEF User, PlaceBoats, EnterCell, PromptForfeit, PromptInterrupted,
              GiveUpAtPrompt, ClearInterrupted, CheckCell, RecvInterrupted,
              RecvFailed, Signal, Kill, Goto
<1>3. CASE System(p)
  BY <1>3 DEF System, Listen, AcceptFails, Connect, SetUpFails, SendFails,
              AfterSend, Conclude, NextTurn, ResetArrives, Goto
<1> QED
  BY <1>1, <1>2, <1>3 DEF Step

LEMMA OutcomeSteps ==
  ASSUME NEW p \in Players, Step(p)
  PROVE  \/ UNCHANGED outcome
         \/ \E v \in Outcomes : outcome' = [outcome EXCEPT ![p] = v]
<1>1. CASE Program(p)
  BY <1>1 DEF Program, Accept, Register, LoopTest, ClearReturns, CheckCell,
              SendSucceeds, AfterSend, Conclude, SendKilled, RecvFails, RecvStale,
              OpponentForfeits, HandleResult, HandleMove, CloseSocket, Outcomes
<1>2. CASE User(p)
  BY <1>2 DEF User, PlaceBoats, EnterCell, PromptForfeit, PromptInterrupted,
              GiveUpAtPrompt, ClearInterrupted, CheckCell, RecvInterrupted, Signal,
              Kill
<1>3. CASE System(p)
  BY <1>3 DEF System, Listen, AcceptFails, Connect, SetUpFails, SendFails,
              AfterSend, Conclude, ResetArrives, Outcomes
<1> QED
  BY <1>1, <1>2, <1>3 DEF Step

LEMMA SignalSteps ==
  ASSUME NEW p \in Players, Step(p)
  PROVE  /\ \/ UNCHANGED forfeitFlag
            \/ forfeitFlag' = [forfeitFlag EXCEPT ![p] = TRUE]
         /\ \/ UNCHANGED eintr
            \/ \E e \in BOOLEAN : eintr' = [eintr EXCEPT ![p] = e]
  BY DEF Step, Program, User, System, Accept, Register, LoopTest, ClearReturns,
         SendSucceeds, SendKilled, RecvFails, RecvStale, OpponentForfeits,
         HandleResult, HandleMove, CloseSocket, PlaceBoats, EnterCell,
         PromptForfeit, PromptInterrupted, ClearInterrupted, RecvInterrupted,
         Interrupt, Signal, Kill, Listen, AcceptFails, Connect, SetUpFails,
         SendFails, ResetArrives, signals

LEMMA InputSteps ==
  ASSUME NEW p \in Players, Step(p)
  PROVE  \/ UNCHANGED usrInput
         \/ \E c \in Cells \cup {FORFEIT} : usrInput' = [usrInput EXCEPT ![p] = c]
<1>1. 0 \in Cells
  BY GridAssumption DEF Cells
<1> QED
  BY <1>1 DEF Step, Program, User, System, Accept, Register, LoopTest, ClearReturns,
         CheckCell, SendSucceeds, SendKilled, RecvFails, RecvStale,
         OpponentForfeits, HandleResult, HandleMove, CloseSocket, PlaceBoats,
         EnterCell, PromptForfeit, PromptInterrupted, GiveUpAtPrompt,
         ClearInterrupted, RecvInterrupted, Signal, Kill, Listen, AcceptFails,
         Connect, SetUpFails, SendFails, ResetArrives, locals

LEMMA DataSteps ==
  ASSUME NEW p \in Players, Step(p)
  PROVE  \/ UNCHANGED data
         \/ pc[p] = "clear" /\ data' = [data EXCEPT ![p] = usrInput[p]]
         \/ \E b \in Bytes : data' = [data EXCEPT ![p] = b]
<1>1. {0, BOAT, MISSED_SHOT, FORFEIT} \subseteq Bytes
  BY GridAssumption DEF Bytes, Cells
<1>2. CASE Program(p)
  BY <1>1, <1>2 DEF Program, Accept, Register, LoopTest, ClearReturns, CheckCell,
         SendSucceeds, SendKilled, RecvFails, RecvStale, OpponentForfeits,
         HandleResult, HandleMove, CloseSocket, locals
<1>3. CASE User(p) \/ System(p)
  BY <1>3 DEF User, System, PlaceBoats, EnterCell, PromptForfeit,
         PromptInterrupted, GiveUpAtPrompt, ClearInterrupted, CheckCell,
         RecvInterrupted, Signal, Kill, Listen, AcceptFails, Connect, SetUpFails,
         SendFails, ResetArrives, locals
<1> QED
  BY <1>2, <1>3 DEF Step

LEMMA TurnSteps ==
  ASSUME NEW p \in Players, Step(p)
  PROVE  \/ UNCHANGED attacking
         \/ \E e \in BOOLEAN : attacking' = [attacking EXCEPT ![p] = e]
<1>1. CASE Program(p)
  BY <1>1 DEF Program, Accept, Register, LoopTest, ClearReturns, CheckCell,
         SendSucceeds, AfterSend, NextTurn, SendKilled, RecvFails, RecvStale,
         OpponentForfeits, HandleResult, HandleMove, CloseSocket, locals
<1>2. CASE User(p) \/ System(p)
  BY <1>2 DEF User, System, PlaceBoats, EnterCell, PromptForfeit,
         PromptInterrupted, GiveUpAtPrompt, ClearInterrupted, CheckCell,
         RecvInterrupted, Signal, Kill, Listen, AcceptFails, Connect, SetUpFails,
         SendFails, AfterSend, NextTurn, ResetArrives, locals
<1> QED
  BY <1>1, <1>2 DEF Step

LEMMA RetrySteps ==
  ASSUME TypeOK, NEW p \in Players, Step(p)
  PROVE  \/ UNCHANGED retryCount
         \/ \E n \in 0..SendRetryLimit : retryCount' = [retryCount EXCEPT ![p] = n]
<1>1. 0 \in 0..SendRetryLimit
  BY RetryAssumption
<1>2. CASE SendSucceeds(p)
  BY <1>1, <1>2 DEF SendSucceeds
<1>3. CASE SendFails(p)
  <2>1. CASE retryCount[p] + 1 > SendRetryLimit
    BY <1>1, <1>3, <2>1 DEF SendFails, Aborts
  <2>2. CASE ~(retryCount[p] + 1 > SendRetryLimit)
    <3>1. retryCount[p] + 1 \in 0..SendRetryLimit
      BY <2>2, RetryAssumption DEF TypeOK
    <3> QED
      BY <1>3, <2>2, <3>1 DEF SendFails, Aborts
  <2> QED
    BY <2>1, <2>2
<1>4. CASE ~SendSucceeds(p) /\ ~SendFails(p)
  BY <1>4 DEF Step, Program, User, System, Accept, Register, LoopTest,
         ClearReturns, CheckCell, SendKilled, RecvFails, RecvStale,
         OpponentForfeits, HandleResult, HandleMove, CloseSocket, PlaceBoats,
         EnterCell, PromptForfeit, PromptInterrupted, GiveUpAtPrompt,
         ClearInterrupted, RecvInterrupted, Signal, Kill, Listen, AcceptFails,
         Connect, SetUpFails, ResetArrives, locals
<1> QED
  BY <1>2, <1>3, <1>4

LEMMA NetSteps ==
  ASSUME NEW p \in Players, Step(p)
  PROVE  \/ UNCHANGED net
         \/ Shut(p)
         \/ ResetArrives(p)
         \/ Transmit(p, Outgoing(p))
         \/ \E b \in Bytes : ReadByte(p, b)
         \/ /\ conn' = [conn EXCEPT ![p] = "open"]
            /\ UNCHANGED <<rst, inbox>>
<1>1. FORFEIT \in Bytes
  BY DEF Bytes
<1>2. CASE Program(p)
  BY <1>1, <1>2 DEF Program, Accept, Register, LoopTest, ClearReturns, CheckCell,
         SendSucceeds, SendKilled, RecvFails, RecvStale, OpponentForfeits,
         HandleResult, HandleMove, CloseSocket
<1>3. CASE User(p) \/ System(p)
  BY <1>3 DEF User, System, PlaceBoats, EnterCell, PromptForfeit,
         PromptInterrupted, GiveUpAtPrompt, ClearInterrupted, CheckCell,
         RecvInterrupted, Signal, Kill, Listen, AcceptFails, Connect, SetUpFails,
         SendFails
<1> QED
  BY <1>2, <1>3 DEF Step

-----------------------------------------------------------------------------
(* Type correctness.                                                       *)

\* The input of promptCell() used as an index is a cell.
InputIsCell ==
  \A p \in Players :
    pc[p] \in {"clear", "sendMove", "recvResult"} => usrInput[p] \in Cells

\* A fleet is sunk only where the program is about to notice it.
CountersPositive ==
  \A p \in Players :
    /\ pc[p] \in SetUp \cup InGame => advBoats[p] > 0
    /\ pc[p] \in (SetUp \cup InGame) \ {"sendResult"} => userBoats[p] > 0

TypeInv == TypeOK /\ InputIsCell /\ CountersPositive

LEMMA BoardTypes ==
  ASSUME TypeInv, NEW p \in Players, Step(p)
  PROVE  /\ userGrid' \in [Players -> [Cells -> GridStates]]
         /\ advGrid' \in [Players -> [Cells -> GridStates \ {BOAT}]]
         /\ userBoats' \in [Players -> 0..BoatNum]
         /\ advBoats' \in [Players -> 0..BoatNum]
<1> USE DEF TypeInv
<1>1. /\ {DEFAULT, BOAT, MISSED_SHOT, SUNKEN_BOAT} = GridStates
      /\ {MISSED_SHOT, SUNKEN_BOAT} \subseteq GridStates \ {BOAT}
      /\ BoatNum \in Nat
  BY BoatAssumption, GridAssumption
     DEF GridStates, DEFAULT, BOAT, MISSED_SHOT, SUNKEN_BOAT
<1>2. CASE UNCHANGED boards
  BY <1>2 DEF boards, TypeOK
<1>3. CASE PlaceBoats(p)
  BY <1>1, <1>3 DEF PlaceBoats, TypeOK
<1>4. CASE Register(p)
  BY <1>1, <1>4 DEF Register, TypeOK
<1>5. ASSUME NEW b \in Bytes, HandleResult(p, b)
      PROVE  /\ UNCHANGED <<userGrid, userBoats>>
             /\ advGrid' \in [Players -> [Cells -> GridStates \ {BOAT}]]
             /\ advBoats' \in [Players -> 0..BoatNum]
  <2>1. usrInput[p] \in Cells
    BY <1>5 DEF HandleResult, InputIsCell
  <2>2. advBoats[p] > 0
    BY <1>5 DEF HandleResult, CountersPositive, InGame, RecvPCs
  <2>3. advBoats[p] - 1 \in 0..BoatNum
    BY <1>1, <2>2 DEF TypeOK
  <2> QED
    BY <1>1, <1>5, <2>1, <2>3 DEF HandleResult, Mark, TypeOK
<1>6. ASSUME NEW b \in Bytes, HandleMove(p, b)
      PROVE  /\ UNCHANGED <<advGrid, advBoats>>
             /\ userGrid' \in [Players -> [Cells -> GridStates]]
             /\ userBoats' \in [Players -> 0..BoatNum]
  <2>1. b \in Cells
    BY <1>6, BytesAreCells DEF HandleMove
  <2>2. userBoats[p] > 0
    BY <1>6 DEF HandleMove, CountersPositive, InGame, RecvPCs
  <2>3. userBoats[p] - 1 \in 0..BoatNum
    BY <1>1, <2>2 DEF TypeOK
  <2> QED
    BY <1>1, <1>6, <2>1, <2>3 DEF HandleMove, Mark, TypeOK
<1> QED
  BY <1>2, <1>3, <1>4, <1>5, <1>6, BoardSteps DEF TypeOK

LEMMA NetTypes ==
  ASSUME TypeOK, NEW p \in Players, Step(p)
  PROVE  /\ conn' \in [Players -> {"none", "open", "reset", "closed"}]
         /\ rst' \in [Players -> BOOLEAN]
         /\ inbox' \in [Players -> Seq(Bytes)]
<1>1. CASE UNCHANGED net
  BY <1>1 DEF net, TypeOK
<1>2. CASE Shut(p)
  <2>1. CASE conn["client"] = "none"
    BY <1>1, <1>2, <2>1 DEF Shut
  <2>2. CASE conn["client"] # "none"
    <3> DEFINE r == \/ rst[Peer(p)]
                    \/ /\ conn[Peer(p)] = "open"
                       /\ inbox[p] # << >> \/ conn[p] = "none"
    <3>1. /\ conn' = [conn EXCEPT ![p] = "closed"]
          /\ inbox' = [inbox EXCEPT ![p] = << >>]
          /\ rst' = [rst EXCEPT ![Peer(p)] = r]
      BY <1>2, <2>2 DEF Shut
    <3>2. r \in BOOLEAN
      BY PeerFacts DEF TypeOK
    <3>3. rst' \in [Players -> BOOLEAN]
      <4> HIDE DEF r
      <4> QED
        BY <3>1, <3>2 DEF TypeOK
    <3>4. << >> \in Seq(Bytes)
      OBVIOUS
    <3> QED
      BY <3>1, <3>3, <3>4 DEF TypeOK
  <2> QED
    BY <2>1, <2>2
<1>3. CASE ResetArrives(p)
  <2>1. << >> \in Seq(Bytes)
    OBVIOUS
  <2>2. /\ conn' = [conn EXCEPT ![p] = "reset"]
        /\ rst' = [rst EXCEPT ![p] = FALSE]
    BY <1>3 DEF ResetArrives
  <2>3. inbox' = inbox \/ inbox' = [inbox EXCEPT ![p] = << >>]
    BY <1>3 DEF ResetArrives
  <2>4. inbox' \in [Players -> Seq(Bytes)]
    BY <2>1, <2>3 DEF TypeOK
  <2> QED
    BY <2>2, <2>4 DEF TypeOK
<1>4. CASE Transmit(p, Outgoing(p))
  <2>1. Outgoing(p) \in Bytes
    <3>1. FORFEIT \in Bytes /\ data[p] \in Bytes
      BY DEF Bytes, TypeOK
    <3> QED
      BY <3>1 DEF Outgoing
  <2> DEFINE q == Peer(p)
  <2>2. q \in Players /\ inbox[q] \in Seq(Bytes)
    BY PeerFacts DEF TypeOK
  <2> HIDE DEF q
  <2>3. CASE conn[q] = "closed"
    <3>1. rst' = [rst EXCEPT ![p] = TRUE] /\ UNCHANGED <<conn, inbox>>
      BY <1>4, <2>3 DEF Transmit, q
    <3> QED
      BY <3>1 DEF TypeOK
  <2>4. CASE conn[q] # "closed"
    <3>1. /\ inbox' = [inbox EXCEPT ![q] = Append(inbox[q], Outgoing(p))]
          /\ UNCHANGED <<conn, rst>>
      BY <1>4, <2>4 DEF Transmit, q
    <3>2. Append(inbox[q], Outgoing(p)) \in Seq(Bytes)
      BY <2>1, <2>2
    <3> QED
      BY <2>2, <3>1, <3>2 DEF TypeOK
  <2> QED
    BY <2>3, <2>4
<1>5. ASSUME NEW b \in Bytes, ReadByte(p, b)
      PROVE  UNCHANGED <<conn, rst>> /\ inbox' \in [Players -> Seq(Bytes)]
  <2>1. Tail(inbox[p]) \in Seq(Bytes)
    BY <1>5 DEF ReadByte, TypeOK
  <2> QED
    BY <1>5, <2>1 DEF ReadByte, TypeOK
<1>6. CASE conn' = [conn EXCEPT ![p] = "open"] /\ UNCHANGED <<rst, inbox>>
  BY <1>6 DEF TypeOK
<1> QED
  BY <1>1, <1>2, <1>3, <1>4, <1>5, <1>6, NetSteps DEF TypeOK

LEMMA TypeStep ==
  ASSUME TypeInv, NEW p \in Players, Step(p)
  PROVE  TypeOK'
<1> USE DEF TypeInv
<1>1. pc' \in [Players -> PCs]
  BY PcSteps DEF TypeOK, Goto
<1>2. outcome' \in [Players -> Outcomes]
  BY OutcomeSteps DEF TypeOK
<1>3. forfeitFlag' \in [Players -> BOOLEAN] /\ eintr' \in [Players -> BOOLEAN]
  BY SignalSteps DEF TypeOK
<1>4. usrInput' \in [Players -> Cells \cup {FORFEIT}]
  BY InputSteps DEF TypeOK
<1>5. data' \in [Players -> Bytes]
  <2>1. pc[p] = "clear" => usrInput[p] \in Bytes
    BY DEF InputIsCell, Bytes
  <2> QED
    BY <2>1, DataSteps DEF TypeOK
<1>6. attacking' \in [Players -> BOOLEAN]
  BY TurnSteps DEF TypeOK
<1>7. retryCount' \in [Players -> 0..SendRetryLimit]
  BY RetrySteps DEF TypeOK
<1> QED
  BY <1>1, <1>2, <1>3, <1>4, <1>5, <1>6, <1>7, BoardTypes, NetTypes DEF TypeOK

\* The variables of a program are its own.
LEMMA OthersUnchanged ==
  ASSUME TypeOK, NEW p \in Players, Step(p), NEW q \in Players, q # p
  PROVE  /\ pc'[q] = pc[q]
         /\ userGrid'[q] = userGrid[q]
         /\ advGrid'[q] = advGrid[q]
         /\ userBoats'[q] = userBoats[q]
         /\ advBoats'[q] = advBoats[q]
         /\ usrInput'[q] = usrInput[q]
<1>1. pc'[q] = pc[q]
  BY PcSteps DEF TypeOK, Goto
<1>2. /\ userGrid'[q] = userGrid[q]
      /\ advGrid'[q] = advGrid[q]
      /\ userBoats'[q] = userBoats[q]
      /\ advBoats'[q] = advBoats[q]
  <2>1. CASE UNCHANGED boards
    BY <2>1 DEF boards
  <2>2. CASE PlaceBoats(p)
    BY <2>2 DEF PlaceBoats, TypeOK
  <2>3. CASE Register(p)
    BY <2>3 DEF Register, TypeOK
  <2>4. ASSUME NEW b \in Bytes, HandleResult(p, b) \/ HandleMove(p, b)
        PROVE  /\ userGrid'[q] = userGrid[q]
               /\ advGrid'[q] = advGrid[q]
               /\ userBoats'[q] = userBoats[q]
               /\ advBoats'[q] = advBoats[q]
    BY <2>4 DEF HandleResult, HandleMove, TypeOK
  <2> QED
    BY <2>1, <2>2, <2>3, <2>4, BoardSteps
<1>3. usrInput'[q] = usrInput[q]
  BY InputSteps DEF TypeOK
<1> QED
  BY <1>1, <1>2, <1>3

\* A program arrives where its input is used as an index by reading a cell, or
\* from another such place.
LEMMA IndexSteps ==
  ASSUME TypeOK, NEW p \in Players, Step(p),
         pc'[p] \in {"clear", "sendMove", "recvResult"}
  PROVE  \/ \E c \in Cells : EnterCell(p, c)
         \/ /\ pc[p] \in {"clear", "sendMove", "recvResult"}
            /\ usrInput' = usrInput
<1>1. pc \in [Players -> PCs]
  BY DEF TypeOK
<1>2. CASE Program(p)
  BY <1>1, <1>2 DEF Program, Accept, Register, LoopTest, ClearReturns, CheckCell,
         SendSucceeds, AfterSend, Conclude, NextTurn, SendKilled, RecvFails,
         RecvStale, RecvFailed, OpponentForfeits, HandleResult, HandleMove,
         CloseSocket, Goto, locals
<1>3. CASE User(p)
  BY <1>1, <1>3 DEF User, PlaceBoats, PromptForfeit, PromptInterrupted,
         GiveUpAtPrompt, ClearInterrupted, CheckCell, RecvInterrupted, RecvFailed,
         Signal, Kill, Goto, locals
<1>4. CASE System(p)
  BY <1>1, <1>4 DEF System, Listen, AcceptFails, Connect, SetUpFails, SendFails,
         AfterSend, Conclude, NextTurn, ResetArrives, Goto, locals
<1> QED
  BY <1>2, <1>3, <1>4 DEF Step

LEMMA InputStep ==
  ASSUME TypeInv, NEW p \in Players, Step(p)
  PROVE  InputIsCell'
<1> SUFFICES ASSUME NEW q \in Players,
                    pc'[q] \in {"clear", "sendMove", "recvResult"}
             PROVE  usrInput'[q] \in Cells
  BY DEF InputIsCell
<1>1. CASE q # p
  BY <1>1, OthersUnchanged DEF TypeInv, InputIsCell
<1>2. CASE q = p
  <2>1. CASE \E c \in Cells : EnterCell(p, c)
    BY <1>2, <2>1 DEF EnterCell, TypeInv, TypeOK
  <2>2. CASE pc[p] \in {"clear", "sendMove", "recvResult"} /\ usrInput' = usrInput
    BY <1>2, <2>2 DEF TypeInv, InputIsCell
  <2> QED
    BY <1>2, <2>1, <2>2, IndexSteps DEF TypeInv
<1> QED
  BY <1>1, <1>2

\* A program in the game was in it before, and survived the result it sent.
LEMMA GameSteps ==
  ASSUME TypeOK, NEW p \in Players, Step(p), pc'[p] \in SetUp \cup InGame
  PROVE  /\ pc[p] \in SetUp \cup InGame
         /\ pc[p] = "sendResult" => pc'[p] = "sendResult" \/ userBoats[p] # 0
<1> USE DEF SetUp, InGame, SendPCs, RecvPCs
<1>1. pc \in [Players -> PCs]
  BY DEF TypeOK
<1>2. CASE Program(p)
  BY <1>1, <1>2 DEF Program, Accept, Register, LoopTest, ClearReturns, CheckCell,
         SendSucceeds, AfterSend, NoBoatLeft, Conclude, NextTurn, SendKilled, RecvFails,
         RecvStale, RecvFailed, OpponentForfeits, HandleResult, HandleMove,
         CloseSocket, Goto
<1>3. CASE User(p)
  BY <1>1, <1>3 DEF User, PlaceBoats, EnterCell, PromptForfeit, PromptInterrupted,
         GiveUpAtPrompt, ClearInterrupted, CheckCell, RecvInterrupted, RecvFailed,
         Signal, Kill, Goto, Ended
<1>4. CASE System(p)
  BY <1>1, <1>4 DEF System, Listen, AcceptFails, Connect, SetUpFails, SendFails,
         AfterSend, NoBoatLeft, Conclude, NextTurn, ResetArrives, Goto
<1> QED
  BY <1>2, <1>3, <1>4 DEF Step

LEMMA CounterStep ==
  ASSUME TypeInv, NEW p \in Players, Step(p)
  PROVE  CountersPositive'
<1> SUFFICES ASSUME NEW q \in Players, pc'[q] \in SetUp \cup InGame
             PROVE  /\ advBoats'[q] > 0
                    /\ pc'[q] # "sendResult" => userBoats'[q] > 0
  BY DEF CountersPositive
<1>1. CASE q # p
  BY <1>1, OthersUnchanged DEF TypeInv, CountersPositive
<1>2. CASE q = p
  <2>1. /\ pc[p] \in SetUp \cup InGame
        /\ pc[p] = "sendResult" => pc'[p] = "sendResult" \/ userBoats[p] # 0
    BY <1>2, GameSteps DEF TypeInv
  <2>2. /\ advBoats[p] > 0
        /\ pc[p] # "sendResult" => userBoats[p] > 0
        /\ advBoats[p] \in 0..BoatNum /\ userBoats[p] \in 0..BoatNum
        /\ BoatNum \in Nat /\ BoatNum > 0
    BY <2>1, BoatAssumption, GridAssumption DEF TypeInv, TypeOK, CountersPositive
  <2>3. CASE UNCHANGED boards \/ PlaceBoats(p)
    <3>1. userBoats' = userBoats /\ advBoats' = advBoats
      BY <2>3 DEF boards, PlaceBoats
    <3> QED
      BY <1>2, <2>1, <2>2, <3>1
  <2>4. CASE Register(p)
    <3>1. userBoats'[p] = BoatNum /\ advBoats'[p] = BoatNum
      BY <2>4 DEF Register, TypeInv, TypeOK
    <3> QED
      BY <1>2, <2>2, <3>1
  <2>5. ASSUME NEW b \in Bytes, HandleResult(p, b)
        PROVE  advBoats'[p] > 0 /\ userBoats'[p] > 0
    <3>1. /\ userBoats' = userBoats
          /\ pc[p] = "recvResult"
          /\ advBoats'[p] = 0 => pc'[p] = "closeOk"
      BY <2>5 DEF HandleResult, NoBoatLeft, Conclude, Goto, TypeInv, TypeOK
    <3>2. advBoats'[p] # 0
      BY <1>2, <3>1 DEF SetUp, InGame, SendPCs, RecvPCs
    <3>3. advBoats' \in [Players -> 0..BoatNum]
      BY BoardTypes
    <3> QED
      BY <2>2, <3>1, <3>2, <3>3
  <2>6. ASSUME NEW b \in Bytes, HandleMove(p, b)
        PROVE  advBoats'[p] > 0 /\ pc'[p] = "sendResult"
    BY <2>2, <2>6 DEF HandleMove, Goto, TypeInv, TypeOK
  <2> QED
    BY <1>2, <2>3, <2>4, <2>5, <2>6, BoardSteps
<1> QED
  BY <1>1, <1>2

LEMMA InitTypeInv == Init => TypeInv
<1> SUFFICES ASSUME Init PROVE TypeInv
  OBVIOUS
<1>1. 0 \in Cells /\ BoatNum \in Nat /\ BoatNum > 0 /\ 0 \in 0..SendRetryLimit
  BY GridAssumption, BoatAssumption, RetryAssumption DEF Cells
<1>2. << >> \in Seq(Bytes) /\ 0 \in Bytes
  BY <1>1 DEF Bytes
<1>3. DEFAULT \in GridStates \ {BOAT}
  BY DEF GridStates, DEFAULT, BOAT
<1>4. TypeOK
  BY <1>1, <1>2, <1>3 DEF Init, TypeOK, PCs, SetUp, Outcomes
<1>5. InputIsCell /\ CountersPositive
  BY <1>1 DEF Init, InputIsCell, CountersPositive
<1> QED
  BY <1>4, <1>5 DEF TypeInv

LEMMA NextTypeInv == TypeInv /\ [Next]_vars => TypeInv'
<1> SUFFICES ASSUME TypeInv, [Next]_vars PROVE TypeInv'
  OBVIOUS
<1>1. ASSUME NEW p \in Players, Step(p) PROVE TypeInv'
  BY <1>1, TypeStep, InputStep, CounterStep DEF TypeInv
<1>2. CASE UNCHANGED vars
  BY <1>2 DEF vars, boards, locals, signals, net, TypeInv, TypeOK, InputIsCell,
              CountersPositive
<1> QED
  BY <1>1, <1>2 DEF Next, Step

\* Whatever the users type, the network loses and the signals interrupt, every
\* array index is in bounds, every counter in range and every byte on the
\* wire one that the protocol knows, even where the two programs no longer
\* agree on whose turn it is.
THEOREM TypeCorrect == Spec => []TypeOK
<1>1. TypeInv => TypeOK
  BY DEF TypeInv
<1> QED
  BY <1>1, InitTypeInv, NextTypeInv, PTL DEF Spec

-----------------------------------------------------------------------------
(* The counters and the grids.                                             *)

Shooting == {"sendMove", "recvResult"}

\* Before the game the own fleet is complete and nothing is known of the
\* other; a shot under way is at a cell never shot at.
CountInv ==
  \A p \in Players :
    /\ pc[p] \in Active => /\ userBoats[p] = Cardinality(Fleet(p))
                          /\ advBoats[p] = BoatNum - Cardinality(Sunk(p))
    /\ pc[p] \in Placed => Cardinality(Fleet(p)) = BoatNum
    /\ pc[p] \in SetUp => Sunk(p) = {}
    /\ pc[p] \in Shooting => advGrid[p][usrInput[p]] = DEFAULT

LEMMA CellSetsFinite ==
  ASSUME NEW S, S \subseteq Cells
  PROVE  IsFiniteSet(S) /\ Cardinality(S) \in Nat
<1>1. IsFiniteSet(Cells)
  BY FS_Interval, GridAssumption DEF Cells
<1> QED
  BY <1>1, FS_Subset, FS_CardinalityType

\* Where a step leads from, when it is not the one that sets the boards up.
LEMMA PhaseSteps ==
  ASSUME TypeOK, NEW p \in Players, Step(p)
  PROVE  /\ pc'[p] \in Active => pc[p] \in Active \/ Register(p)
         /\ pc'[p] \in Placed => pc[p] \in Placed \/ PlaceBoats(p)
         /\ pc'[p] \in SetUp => pc[p] \in SetUp
<1> USE DEF Active, Placed, SetUp, InGame, SendPCs, RecvPCs
<1>1. pc \in [Players -> PCs]
  BY DEF TypeOK
<1>2. CASE Program(p)
  BY <1>1, <1>2 DEF Program, Accept, LoopTest, ClearReturns, CheckCell,
         SendSucceeds, AfterSend, Conclude, NextTurn, SendKilled, RecvFails,
         RecvStale, RecvFailed, OpponentForfeits, HandleResult, HandleMove,
         CloseSocket, Goto, Register
<1>3. CASE User(p)
  BY <1>1, <1>3 DEF User, EnterCell, PromptForfeit, PromptInterrupted,
         GiveUpAtPrompt, ClearInterrupted, CheckCell, RecvInterrupted, RecvFailed,
         Signal, Kill, Goto, Ended, PlaceBoats
<1>4. CASE System(p)
  BY <1>1, <1>4 DEF System, Listen, AcceptFails, Connect, SetUpFails, SendFails,
         AfterSend, Conclude, NextTurn, ResetArrives, Goto
<1> QED
  BY <1>2, <1>3, <1>4 DEF Step

\* A program starts to shoot only at a cell it has just checked.
LEMMA ShotSteps ==
  ASSUME TypeOK, NEW p \in Players, Step(p), pc'[p] \in Shooting
  PROVE  /\ usrInput' = usrInput
         /\ UNCHANGED boards
         /\ pc[p] \in Shooting \/ advGrid[p][usrInput[p]] = DEFAULT
<1> USE DEF Shooting
<1>1. pc \in [Players -> PCs]
  BY DEF TypeOK
<1>2. CASE Program(p)
  BY <1>1, <1>2 DEF Program, Accept, Register, LoopTest, ClearReturns, CheckCell,
         SendSucceeds, AfterSend, Conclude, NextTurn, SendKilled, RecvFails,
         RecvStale, RecvFailed, OpponentForfeits, HandleResult, HandleMove,
         CloseSocket, Goto, locals
<1>3. CASE User(p)
  BY <1>1, <1>3 DEF User, PlaceBoats, EnterCell, PromptForfeit, PromptInterrupted,
         GiveUpAtPrompt, ClearInterrupted, CheckCell, RecvInterrupted, RecvFailed,
         Signal, Kill, Goto, locals
<1>4. CASE System(p)
  BY <1>1, <1>4 DEF System, Listen, AcceptFails, Connect, SetUpFails, SendFails,
         AfterSend, Conclude, NextTurn, ResetArrives, Goto, locals
<1> QED
  BY <1>2, <1>3, <1>4 DEF Step

LEMMA PlaceBoatsCount ==
  ASSUME TypeOK, CountInv, NEW p \in Players, PlaceBoats(p)
  PROVE  Cardinality(Fleet(p)') = BoatNum /\ Sunk(p)' = {} /\ pc'[p] = "connect"
<1>1. PICK S \in SUBSET Cells :
        /\ Cardinality(S) = BoatNum
        /\ userGrid' = [userGrid EXCEPT ![p] =
                          [c \in Cells |-> IF c \in S THEN BOAT ELSE DEFAULT]]
  BY DEF PlaceBoats
<1>2. userGrid'[p] = [c \in Cells |-> IF c \in S THEN BOAT ELSE DEFAULT]
  BY <1>1 DEF TypeOK
<1>3. Fleet(p)' = S
  BY <1>2 DEF Fleet, BOAT, DEFAULT
<1>4. Sunk(p)' = {}
  <2>1. pc[p] \in SetUp /\ advGrid' = advGrid
    BY DEF PlaceBoats, SetUp
  <2> QED
    BY <2>1 DEF Sunk, CountInv
<1>5. pc'[p] = "connect"
  BY DEF PlaceBoats, Goto, TypeOK
<1> QED
  BY <1>1, <1>3, <1>4, <1>5

LEMMA HandleResultCount ==
  ASSUME TypeInv, CountInv, NEW p \in Players, NEW b \in Bytes, HandleResult(p, b)
  PROVE  /\ Fleet(p)' = Fleet(p) /\ userBoats' = userBoats
         /\ advBoats'[p] = BoatNum - Cardinality(Sunk(p)')
<1> DEFINE cell == usrInput[p]
<1>1. /\ pc[p] = "recvResult"
      /\ cell \in Cells
      /\ advGrid[p][cell] = DEFAULT
      /\ advBoats[p] = BoatNum - Cardinality(Sunk(p))
  BY DEF HandleResult, TypeInv, InputIsCell, CountInv, Active, Shooting, InGame,
         RecvPCs
<1>2. /\ userGrid' = userGrid /\ userBoats' = userBoats
      /\ advGrid'[p] = [advGrid[p] EXCEPT ![cell] = Mark(b)]
      /\ advBoats'[p] = IF b = BOAT THEN advBoats[p] - 1 ELSE advBoats[p]
      /\ advGrid[p] \in [Cells -> GridStates]
  BY DEF HandleResult, TypeInv, TypeOK
<1>3. IsFiniteSet(Sunk(p)) /\ Cardinality(Sunk(p)) \in Nat /\ BoatNum \in Nat
  BY CellSetsFinite, BoatAssumption, GridAssumption DEF Sunk
<1>4. CASE b = BOAT
  <2>1. Sunk(p)' = Sunk(p) \cup {cell} /\ cell \notin Sunk(p)
    BY <1>1, <1>2, <1>4 DEF Sunk, Mark, SUNKEN_BOAT, DEFAULT
  <2>2. Cardinality(Sunk(p)') = Cardinality(Sunk(p)) + 1
    BY <1>3, <2>1, FS_AddElement
  <2>3. advBoats'[p] = advBoats[p] - 1
    BY <1>2, <1>4
  <2> QED
    BY <1>1, <1>2, <1>3, <2>2, <2>3 DEF Fleet
<1>5. CASE b # BOAT
  <2>1. Sunk(p)' = Sunk(p)
    BY <1>1, <1>2, <1>5 DEF Sunk, Mark, SUNKEN_BOAT, MISSED_SHOT, DEFAULT
  <2> QED
    BY <1>1, <1>2, <1>5, <2>1 DEF Fleet
<1> QED
  BY <1>4, <1>5

LEMMA HandleMoveCount ==
  ASSUME TypeInv, CountInv, NEW p \in Players, NEW b \in Bytes, HandleMove(p, b)
  PROVE  /\ Sunk(p)' = Sunk(p) /\ advBoats' = advBoats
         /\ userBoats'[p] = Cardinality(Fleet(p)')
<1>1. /\ pc[p] = "recvMove"
      /\ b \in Cells
      /\ userBoats[p] = Cardinality(Fleet(p))
  BY BytesAreCells DEF HandleMove, CountInv, Active, InGame, RecvPCs
<1>2. /\ advGrid' = advGrid /\ advBoats' = advBoats
      /\ userGrid'[p] = [userGrid[p] EXCEPT ![b] = Mark(userGrid[p][b])]
      /\ userBoats'[p] =
            IF userGrid[p][b] = BOAT THEN userBoats[p] - 1 ELSE userBoats[p]
      /\ userGrid[p] \in [Cells -> GridStates]
  BY DEF HandleMove, TypeInv, TypeOK
<1>3. IsFiniteSet(Fleet(p)) /\ Cardinality(Fleet(p)) \in Nat
  BY CellSetsFinite DEF Fleet
<1>4. CASE userGrid[p][b] = BOAT
  <2>1. Fleet(p)' = Fleet(p) \ {b} /\ b \in Fleet(p)
    BY <1>1, <1>2, <1>4 DEF Fleet, Mark, SUNKEN_BOAT, BOAT
  <2>2. Cardinality(Fleet(p)') = Cardinality(Fleet(p)) - 1
    BY <1>3, <2>1, FS_RemoveElement
  <2> QED
    BY <1>1, <1>2, <1>4, <2>2 DEF Sunk
<1>5. CASE userGrid[p][b] # BOAT
  <2>1. Fleet(p)' = Fleet(p)
    BY <1>1, <1>2, <1>5 DEF Fleet, Mark, MISSED_SHOT, BOAT
  <2> QED
    BY <1>1, <1>2, <1>5, <2>1 DEF Sunk
<1> QED
  BY <1>4, <1>5

LEMMA RegisterCount ==
  ASSUME TypeInv, CountInv, NEW p \in Players, Register(p)
  PROVE  /\ userBoats'[p] = Cardinality(Fleet(p)')
         /\ advBoats'[p] = BoatNum - Cardinality(Sunk(p)')
<1>1. Cardinality(Fleet(p)) = BoatNum /\ Sunk(p) = {}
  BY DEF Register, CountInv, Placed, SetUp
<1>2. Fleet(p)' = Fleet(p) /\ Sunk(p)' = Sunk(p)
  BY DEF Register, Fleet, Sunk
<1>3. userBoats'[p] = BoatNum /\ advBoats'[p] = BoatNum
  BY DEF Register, TypeInv, TypeOK
<1> QED
  BY <1>1, <1>2, <1>3, FS_EmptySet, BoatAssumption, GridAssumption

LEMMA CountStep ==
  ASSUME TypeInv, CountInv, NEW p \in Players, Step(p), NEW q \in Players
  PROVE  /\ pc'[q] \in Active => /\ userBoats'[q] = Cardinality(Fleet(q)')
                                /\ advBoats'[q] = BoatNum - Cardinality(Sunk(q)')
         /\ pc'[q] \in Placed => Cardinality(Fleet(q)') = BoatNum
         /\ pc'[q] \in SetUp => Sunk(q)' = {}
         /\ pc'[q] \in Shooting => advGrid'[q][usrInput'[q]] = DEFAULT
<1> USE DEF TypeInv
<1>1. CASE q # p
  <2>1. /\ pc'[q] = pc[q] /\ userBoats'[q] = userBoats[q]
        /\ advBoats'[q] = advBoats[q] /\ usrInput'[q] = usrInput[q]
        /\ advGrid'[q] = advGrid[q]
        /\ Fleet(q)' = Fleet(q) /\ Sunk(q)' = Sunk(q)
    BY <1>1, OthersUnchanged DEF Fleet, Sunk
  <2> QED
    BY <2>1 DEF CountInv
<1>2. CASE q = p
  <2>1. pc'[q] \in Shooting => advGrid'[q][usrInput'[q]] = DEFAULT
    BY <1>2, ShotSteps DEF CountInv, boards
  <2>2. CASE UNCHANGED boards /\ ~PlaceBoats(p) /\ ~Register(p)
    <3>1. /\ Fleet(q)' = Fleet(q) /\ Sunk(q)' = Sunk(q)
          /\ userBoats' = userBoats /\ advBoats' = advBoats
      BY <2>2 DEF boards, Fleet, Sunk
    <3> QED
      BY <1>2, <2>1, <2>2, <3>1, PhaseSteps DEF CountInv
  <2>3. CASE PlaceBoats(p)
    <3>1. Cardinality(Fleet(q)') = BoatNum /\ Sunk(q)' = {} /\ pc'[q] \notin Active
      BY <1>2, <2>3, PlaceBoatsCount DEF Active, InGame, SendPCs, RecvPCs
    <3> QED
      BY <2>1, <3>1
  <2>4. CASE Register(p)
    <3>1. pc'[q] = "loop"
      BY <1>2, <2>4 DEF Register, Goto, TypeOK
    <3>2. pc'[q] \notin Placed \cup SetUp
      BY <3>1 DEF Placed, SetUp
    <3> QED
      BY <1>2, <2>1, <2>4, <3>2, RegisterCount
  <2>5. ASSUME NEW b \in Bytes, HandleResult(p, b) \/ HandleMove(p, b)
        PROVE  /\ pc'[q] \notin Placed \cup SetUp
               /\ userBoats'[q] = Cardinality(Fleet(q)')
               /\ advBoats'[q] = BoatNum - Cardinality(Sunk(q)')
    <3>1. pc'[q] \in {"closeOk", "loop", "sendResult"}
      BY <1>2, <2>5 DEF HandleResult, HandleMove, Conclude, NextTurn, Goto, TypeOK
    <3>2. pc'[q] \notin Placed \cup SetUp
      BY <3>1 DEF Placed, SetUp
    <3>3. pc[q] \in Active
      BY <1>2, <2>5 DEF HandleResult, HandleMove, Active, InGame, RecvPCs
    <3>4. CASE HandleResult(p, b)
      BY <1>2, <3>2, <3>3, <3>4, HandleResultCount DEF CountInv
    <3>5. CASE HandleMove(p, b)
      BY <1>2, <3>2, <3>3, <3>5, HandleMoveCount DEF CountInv
    <3> QED
      BY <2>5, <3>4, <3>5
  <2> QED
    BY <2>1, <2>2, <2>3, <2>4, <2>5, BoardSteps
<1> QED
  BY <1>1, <1>2

LEMMA InitCountInv == Init => CountInv
<1> SUFFICES ASSUME Init, NEW p \in Players
             PROVE  pc[p] = "place" /\ Sunk(p) = {}
  BY DEF CountInv, Active, Placed, Shooting, InGame, SendPCs, RecvPCs
<1> QED
  BY DEF Init, Sunk, DEFAULT, SUNKEN_BOAT

LEMMA NextCountInv == TypeInv /\ CountInv /\ [Next]_vars => CountInv'
<1> SUFFICES ASSUME TypeInv, CountInv, [Next]_vars PROVE CountInv'
  OBVIOUS
<1>1. ASSUME NEW p \in Players, Step(p) PROVE CountInv'
  BY <1>1, CountStep DEF CountInv
<1>2. CASE UNCHANGED vars
  BY <1>2 DEF vars, boards, locals, CountInv, Fleet, Sunk
<1> QED
  BY <1>1, <1>2 DEF Next, Step

\* The counters each program decides the game by are the numbers of boats on
\* its two grids, even when a result is lost and the programs drift apart.
THEOREM CountersAreExact == Spec => []BoatsCounted
<1>1. CountInv => BoatsCounted
  BY DEF CountInv, BoatsCounted, Active
<1> QED
  BY <1>1, InitTypeInv, NextTypeInv, InitCountInv, NextCountInv, PTL DEF Spec

-----------------------------------------------------------------------------
(* Lock step.                                                              *)

\* The rest of what belongs to one program only.
LEMMA OthersKeep ==
  ASSUME TypeOK, NEW p \in Players, Step(p), NEW q \in Players, q # p
  PROVE  /\ attacking'[q] = attacking[q]
         /\ data'[q] = data[q]
         /\ outcome'[q] = outcome[q]
<1>1. attacking'[q] = attacking[q]
  BY TurnSteps DEF TypeOK
<1>2. data'[q] = data[q]
  BY DataSteps DEF TypeOK
<1>3. outcome'[q] = outcome[q]
  BY OutcomeSteps DEF TypeOK
<1> QED
  BY <1>1, <1>2, <1>3

\* A program that ended never comes back, and one that has its verdict ends.
LEMMA AliveSteps ==
  ASSUME TypeOK, NEW p \in Players, Step(p), Alive(p)'
  PROVE  Alive(p) /\ outcome'[p] = outcome[p]
<1> USE DEF Alive, SetUp, InGame, SendPCs, RecvPCs
<1>1. pc \in [Players -> PCs] /\ outcome \in [Players -> Outcomes]
  BY DEF TypeOK
<1>2. CASE Program(p)
  BY <1>1, <1>2 DEF Program, Accept, Register, LoopTest, ClearReturns, CheckCell,
         SendSucceeds, AfterSend, Conclude, NextTurn, SendKilled, RecvFails,
         RecvStale, RecvFailed, OpponentForfeits, HandleResult, HandleMove,
         CloseSocket, Goto
<1>3. CASE User(p)
  BY <1>1, <1>3 DEF User, PlaceBoats, EnterCell, PromptForfeit, PromptInterrupted,
         GiveUpAtPrompt, ClearInterrupted, CheckCell, RecvInterrupted, RecvFailed,
         Signal, Kill, Goto, Ended
<1>4. CASE System(p)
  BY <1>1, <1>4 DEF System, Listen, AcceptFails, Connect, SetUpFails, SendFails,
         AfterSend, Conclude, NextTurn, ResetArrives, Goto
<1> QED
  BY <1>2, <1>3, <1>4 DEF Step

\* A program that concludes leaves the game with the same step.
LEMMA UndecidedStep ==
  ASSUME TypeOK, Undecided, NEW p \in Players, Step(p)
  PROVE  Undecided'
<1> SUFFICES ASSUME NEW q \in Players, Alive(q)' PROVE ~Decided(q)'
  BY DEF Undecided
<1>1. Alive(q) /\ outcome'[q] = outcome[q]
  BY AliveSteps, OthersUnchanged, OthersKeep DEF Alive
<1> QED
  BY <1>1 DEF Undecided, Decided

\* The role changes only between two exchanges, with the program counter.
LEMMA RoleStep ==
  ASSUME TypeOK, RoleInv, NEW p \in Players, Step(p)
  PROVE  RoleInv'
<1> SUFFICES ASSUME NEW q \in Players
             PROVE  /\ pc'[q] \in SetUp => attacking'[q] = (q = "server")
                    /\ pc'[q] \in {"prompt", "clear", "sendMove", "recvResult"} =>
                         attacking'[q]
                    /\ pc'[q] \in {"recvMove", "sendResult"} => ~attacking'[q]
                    /\ pc'[q] = "sendMove" => data'[q] = usrInput'[q]
  BY DEF RoleInv, Shot
<1>1. CASE q # p
  BY <1>1, OthersUnchanged, OthersKeep DEF RoleInv, Shot
<1>2. CASE q = p
  <2> USE DEF SetUp, InGame, SendPCs, RecvPCs, RoleInv, Shot
  <2>1. /\ pc \in [Players -> PCs] /\ attacking \in [Players -> BOOLEAN]
        /\ data \in [Players -> Bytes]
    BY DEF TypeOK
  <2>2. CASE Program(p)
    BY <1>2, <2>1, <2>2 DEF Program, Accept, Register, LoopTest, ClearReturns,
           CheckCell, SendSucceeds, AfterSend, Conclude, NextTurn, SendKilled,
           RecvFails, RecvStale, RecvFailed, OpponentForfeits, HandleResult,
           HandleMove, CloseSocket, Goto, locals
  <2>3. CASE User(p)
    BY <1>2, <2>1, <2>3 DEF User, PlaceBoats, EnterCell, PromptForfeit,
           PromptInterrupted, GiveUpAtPrompt, ClearInterrupted, CheckCell,
           RecvInterrupted, RecvFailed, Signal, Kill, Goto, Ended, locals
  <2>4. CASE System(p)
    BY <1>2, <2>1, <2>4 DEF System, Listen, AcceptFails, Connect, SetUpFails,
           SendFails, AfterSend, Conclude, NextTurn, ResetArrives, Goto, locals
  <2> QED
    BY <2>2, <2>3, <2>4 DEF Step
<1> QED
  BY <1>1, <1>2

\* A program that has left the game does not come back.
LEMMA DeadStays ==
  ASSUME TypeOK, NEW p \in Players, Step(p), NEW q \in Players, ~Alive(q)
  PROVE  ~Alive(q)'
  BY AliveSteps, OthersUnchanged DEF Alive

\* The socket is shut by the end of the program, and opened once.
LEMMA ConnSteps ==
  ASSUME TypeOK, NEW p \in Players, Step(p)
  PROVE  \/ UNCHANGED net
         \/ Shut(p) /\ ~Alive(p)'
         \/ ResetArrives(p)
         \/ Transmit(p, Outgoing(p))
         \/ \E b \in Bytes : ReadByte(p, b)
         \/ p = "client" /\ Connect
         \/ p = "server" /\ Accept
<1> USE DEF Alive, SetUp, InGame, SendPCs, RecvPCs, Goto
<1>1. pc \in [Players -> PCs] /\ FORFEIT \in Bytes
  BY DEF TypeOK, Bytes
<1>2. CASE SendKilled(p) \/ CloseSocket(p) \/ Kill(p) \/ (p = "server" /\ AcceptFails)
  BY <1>1, <1>2 DEF SendKilled, CloseSocket, Kill, AcceptFails
<1>3. CASE Program(p) /\ ~SendKilled(p) /\ ~CloseSocket(p)
  BY <1>1, <1>3 DEF Program, Register, LoopTest, ClearReturns, CheckCell,
         SendSucceeds, RecvFails, RecvStale, OpponentForfeits, HandleResult,
         HandleMove
<1>4. CASE (User(p) \/ System(p)) /\ ~Kill(p) /\ ~(p = "server" /\ AcceptFails)
  BY <1>4 DEF User, System, PlaceBoats, EnterCell, PromptForfeit,
         PromptInterrupted, GiveUpAtPrompt, ClearInterrupted, CheckCell,
         RecvInterrupted, Signal, Listen, SetUpFails, SendFails
<1> QED
  BY <1>2, <1>3, <1>4 DEF Step

\* Only a program that ends closes its socket or causes a reset.
LEMMA ConnStep ==
  ASSUME TypeOK, ConnInv, NEW p \in Players, Step(p)
  PROVE  ConnInv'
<1> SUFFICES ASSUME NEW q \in Players
             PROVE  /\ conn'[q] = "closed" => ~Alive(q)'
                    /\ rst'[q] => ~Alive(Peer(q))'
  BY DEF ConnInv
<1>1. conn[q] = "closed" => ~Alive(q)'
  BY DeadStays DEF ConnInv
<1>2. rst[q] => ~Alive(Peer(q))'
  BY DeadStays, PeerFacts DEF ConnInv
<1>3. CASE UNCHANGED net
  BY <1>1, <1>2, <1>3 DEF net
<1>4. CASE Shut(p) /\ ~Alive(p)'
  <2>1. CASE conn["client"] = "none"
    BY <1>1, <1>2, <1>4, <2>1 DEF Shut, net
  <2>2. CASE conn["client"] # "none"
    <3>1. conn' = [conn EXCEPT ![p] = "closed"]
      BY <1>4, <2>2 DEF Shut
    <3>2. q # Peer(p) => rst'[q] = rst[q]
      BY <1>4, <2>2 DEF Shut, TypeOK
    <3>3. q = Peer(p) => Peer(q) = p
      BY PeerFacts
    <3> QED
      BY <1>1, <1>2, <1>4, <3>1, <3>2, <3>3 DEF TypeOK
  <2> QED
    BY <2>1, <2>2
<1>5. CASE ResetArrives(p)
  <2>1. conn' = [conn EXCEPT ![p] = "reset"] /\ rst' = [rst EXCEPT ![p] = FALSE]
    BY <1>5 DEF ResetArrives
  <2> QED
    BY <1>1, <1>2, <2>1 DEF TypeOK
<1>6. CASE Transmit(p, Outgoing(p))
  <2>1. conn' = conn
    BY <1>6 DEF Transmit
  <2>2. \/ rst' = rst
        \/ conn[Peer(p)] = "closed" /\ rst' = [rst EXCEPT ![p] = TRUE]
    BY <1>6 DEF Transmit
  <2>3. conn[Peer(p)] = "closed" => ~Alive(Peer(p))'
    BY DeadStays, PeerFacts DEF ConnInv
  <2> QED
    BY <1>1, <1>2, <2>1, <2>2, <2>3 DEF TypeOK
<1>7. ASSUME NEW b \in Bytes, ReadByte(p, b)
      PROVE  UNCHANGED <<conn, rst>>
  BY <1>7 DEF ReadByte
<1>8. CASE (p = "client" /\ Connect) \/ (p = "server" /\ Accept)
  BY <1>1, <1>2, <1>8 DEF Connect, Accept, TypeOK
<1> QED
  BY <1>1, <1>2, <1>3, <1>4, <1>5, <1>6, <1>7, <1>8, ConnSteps

-----------------------------------------------------------------------------
(* Lock step: the bytes between the programs.                              *)

\* The streams, seen from one program and its opponent.
LEMMA StreamsOf ==
  ASSUME NEW p \in Players, NEW q, q = Peer(p)
  PROVE  /\ Streams =>
              /\ Alive(p) /\ Alive(q) => InStep(p, q) \/ InStep(q, p)
              /\ Alive(p) /\ ~Alive(q) => Leftover(p, q)
              /\ Alive(q) /\ ~Alive(p) => Leftover(q, p)
         /\ (/\ Alive(p)' /\ Alive(q)' => InStep(p, q)' \/ InStep(q, p)'
             /\ Alive(p)' /\ ~Alive(q)' => Leftover(p, q)'
             /\ Alive(q)' /\ ~Alive(p)' => Leftover(q, p)') => Streams'
<1>1. q \in Players /\ p = Peer(q) /\ \A r \in Players : r = p \/ r = q
  BY DEF Players, Peer
<1>2. ASSUME Streams
      PROVE  /\ Alive(p) /\ Alive(q) => InStep(p, q) \/ InStep(q, p)
             /\ Alive(p) /\ ~Alive(q) => Leftover(p, q)
             /\ Alive(q) /\ ~Alive(p) => Leftover(q, p)
  <2> HIDE DEF InStep, Leftover, Alive
  <2> QED
    BY <1>1, <1>2 DEF Streams
<1>3. ASSUME /\ Alive(p)' /\ Alive(q)' => InStep(p, q)' \/ InStep(q, p)'
             /\ Alive(p)' /\ ~Alive(q)' => Leftover(p, q)'
             /\ Alive(q)' /\ ~Alive(p)' => Leftover(q, p)'
      PROVE  Streams'
  <2>1. (\A r \in Players : Alive(r)') =>
          \E a \in Players : InStep(a, Peer(a))'
    BY <1>1, <1>3
  <2>2. \A r \in Players : Alive(r)' /\ ~Alive(Peer(r))' => Leftover(r, Peer(r))'
    BY <1>1, <1>3
  <2> QED
    BY <2>1, <2>2 DEF Streams
<1> QED
  BY <1>2, <1>3

\* What the defender takes for a move is one.
LEMMA MoveRead ==
  ASSUME TypeOK, RoleInv, Undecided, Streams,
         NEW p \in Players, NEW q, q = Peer(p), NEW b \in Bytes, HandleMove(p, b)
  PROVE  /\ Alive(p) /\ inbox[p] = <<b>>
         /\ b = Shot(q) /\ b \in Cells /\ ShotFlies(q)
         /\ IF Alive(q) THEN Waits(q) /\ inbox[q] = << >> ELSE Leftover(p, q)
<1>1. /\ pc[p] = "recvMove"
      /\ inbox[p] # << >> /\ b = Head(inbox[p]) /\ b # FORFEIT
  BY DEF HandleMove, ReadByte
<1>2. Defends(p) /\ Alive(p)
  BY <1>1 DEF Defends, Between, Alive, Waits, WaitsResult, Answers, RoleInv, InGame,
              RecvPCs
<1>3. ~Attacks(p) /\ ~Waits(p) /\ ~Answers(p)
  BY <1>2 DEF Attacks, Defends, Between
<1>4. b \in Cells
  BY <1>1, BytesAreCells
<1>5. CASE Alive(q)
  <2>1. InStep(q, p)
    BY <1>2, <1>3, <1>5, StreamsOf DEF InStep
  <2>2. Waits(q) /\ inbox[q] = << >> /\ inbox[p] = <<Shot(q)>> /\ ShotFlies(q)
    BY <1>1, <1>3, <2>1 DEF InStep
  <2> QED
    BY <1>1, <1>2, <1>4, <1>5, <2>2
<1>6. CASE ~Alive(q)
  <2>1. Leftover(p, q)
    BY <1>2, <1>6, StreamsOf
  <2>2. inbox[p] = <<Shot(q)>> /\ ShotFlies(q)
    BY <1>1, <1>3, <2>1 DEF Leftover
  <2> QED
    BY <1>1, <1>2, <1>4, <1>6, <2>1, <2>2
<1> QED
  BY <1>5, <1>6

\* What the attacker takes for a result is the one of its shot.
LEMMA ResultRead ==
  ASSUME TypeOK, RoleInv, Undecided, Streams,
         NEW p \in Players, NEW q, q = Peer(p), Waits(p), inbox[p] # << >>
  PROVE  /\ Head(inbox[p]) # FORFEIT =>
              /\ ShotFell(p) /\ Head(inbox[p]) = Answer(p)
              /\ Afloat(q) \/ outcome[q] = "lost"
         /\ Head(inbox[p]) = FORFEIT => outcome[q] = "forfeited" /\ ~Alive(q)
<1>1. Alive(p) /\ ~Attacks(p) /\ ~Defends(p) /\ ~Answers(p)
  BY DEF Alive, Attacks, Defends, Between, Waits, WaitsResult, Answers, InGame,
         RecvPCs
<1>2. Answer(p) # FORFEIT
  BY DEF Answer, BOAT, MISSED_SHOT, FORFEIT
<1>3. CASE Alive(q)
  <2>1. InStep(p, q) \/ InStep(q, p)
    BY <1>1, <1>3, StreamsOf
  <2>2. CASE InStep(p, q)
    BY <1>1, <1>2, <2>2 DEF InStep
  <2>3. CASE InStep(q, p)
    BY <1>1, <2>3 DEF InStep
  <2> QED
    BY <2>1, <2>2, <2>3
<1>4. CASE ~Alive(q)
  <2>1. Leftover(p, q)
    BY <1>1, <1>4, StreamsOf
  <2> QED
    BY <1>1, <1>2, <1>4, <2>1 DEF Leftover
<1> QED
  BY <1>3, <1>4

-----------------------------------------------------------------------------
(* Lock step: the boards.                                                  *)

\* What HandleMove leaves behind, for the defender p and the attacker q.
LEMMA MoveEffect ==
  ASSUME TypeInv, LockInv, NEW p \in Players, NEW q, q = Peer(p),
         NEW b \in Bytes, HandleMove(p, b)
  PROVE  /\ b = Shot(q) /\ b \in Cells /\ ShotFlies(q) /\ Alive(p)
         /\ userGrid'[p] = [userGrid[p] EXCEPT ![b] =
                              IF @ = BOAT THEN SUNKEN_BOAT ELSE MISSED_SHOT]
         /\ userGrid'[q] = userGrid[q] /\ advGrid' = advGrid
         /\ usrInput' = usrInput /\ outcome' = outcome
         /\ data'[p] = IF userGrid[p][b] = BOAT THEN BOAT ELSE MISSED_SHOT
         /\ pc' = [pc EXCEPT ![p] = "sendResult"] /\ conn' = conn
         /\ inbox' = [inbox EXCEPT ![p] = << >>] /\ inbox[p] = <<b>>
         /\ Alive(q) => Waits(q) /\ inbox[q] = << >>
<1> USE DEF TypeInv
<1>1. /\ Alive(p) /\ inbox[p] = <<b>>
      /\ b = Shot(q) /\ b \in Cells /\ ShotFlies(q)
      /\ IF Alive(q) THEN Waits(q) /\ inbox[q] = << >> ELSE Leftover(p, q)
  BY MoveRead DEF LockInv
<1>2. q \in Players /\ q # p /\ userGrid[p] \in [Cells -> GridStates]
  BY PeerFacts DEF TypeOK
<1>3. /\ userGrid' = [userGrid EXCEPT ![p][b] = Mark(userGrid[p][b])]
      /\ data' = [data EXCEPT ![p] = IF userGrid[p][b] = BOAT THEN BOAT ELSE MISSED_SHOT]
      /\ pc' = [pc EXCEPT ![p] = "sendResult"] /\ conn' = conn
      /\ advGrid' = advGrid /\ usrInput' = usrInput /\ outcome' = outcome
      /\ inbox' = [inbox EXCEPT ![p] = Tail(inbox[p])]
  BY DEF HandleMove, ReadByte, Goto
<1>4. inbox' = [inbox EXCEPT ![p] = << >>]
  BY <1>1, <1>3
<1>5. /\ userGrid'[p] = [userGrid[p] EXCEPT ![b] = Mark(userGrid[p][b])]
      /\ userGrid'[q] = userGrid[q]
  BY <1>2, <1>3 DEF TypeOK
<1>6. data'[p] = IF userGrid[p][b] = BOAT THEN BOAT ELSE MISSED_SHOT
  BY <1>3 DEF TypeOK
<1> QED
  BY <1>1, <1>3, <1>4, <1>5, <1>6 DEF Mark

\* Ships sink, they do not disappear.
LEMMA ShipsStep ==
  ASSUME TypeInv, LockInv, NEW p \in Players, Step(p), NEW r \in Players,
         ~PlaceBoats(p)
  PROVE  Ships(r)' = Ships(r) /\ (Empty(r) => Empty(r)' \/ pc[r] \in InGame)
<1>1. CASE UNCHANGED userGrid
  BY <1>1 DEF Ships, Empty
<1>2. ASSUME NEW b \in Bytes, HandleMove(p, b)
      PROVE  Ships(r)' = Ships(r) /\ (Empty(r) => Empty(r)' \/ pc[r] \in InGame)
  <2> DEFINE q == Peer(p)
  <2>1. /\ b = Shot(q) /\ b \in Cells /\ ShotFlies(q)
        /\ userGrid'[p] = [userGrid[p] EXCEPT ![b] =
                              IF @ = BOAT THEN SUNKEN_BOAT ELSE MISSED_SHOT]
    BY <1>2, MoveEffect
  <2>5. userGrid[p] \in [Cells -> GridStates]
    BY DEF TypeInv, TypeOK
  <2>2. userGrid[p][b] \in {DEFAULT, BOAT}
    <3>1. Peer(q) = p
      BY PeerFacts
    <3> QED
      BY <2>1, <3>1 DEF ShotFlies, Target
  <2>3. CASE r = p
    <3>1. \A c \in Cells : userGrid'[p][c] \in {BOAT, SUNKEN_BOAT} <=>
                           userGrid[p][c] \in {BOAT, SUNKEN_BOAT}
      BY <2>1, <2>2, <2>5 DEF BOAT, SUNKEN_BOAT, MISSED_SHOT, DEFAULT
    <3>2. pc[p] \in InGame
      BY <1>2 DEF HandleMove, InGame, RecvPCs
    <3> QED
      BY <2>3, <3>1, <3>2 DEF Ships
  <2>4. CASE r # p
    BY <2>4, OthersUnchanged DEF TypeInv, Ships, Empty
  <2> QED
    BY <2>3, <2>4
<1>3. ASSUME Register(p) \/ \E b \in Bytes : HandleResult(p, b)
      PROVE  UNCHANGED userGrid
  BY <1>3 DEF Register, HandleResult
<1> QED
  BY <1>1, <1>2, <1>3, BoardSteps DEF boards

\* A connection is made once, and every player in the game has one.
LEMMA ConnectedStays ==
  ASSUME TypeOK, NEW p \in Players, Step(p)
  PROVE  /\ conn["client"] # "none" => conn'["client"] # "none"
         /\ conn'["client"] # "none" =>
              conn["client"] # "none" \/ (p = "client" /\ Connect)
         /\ pc'[p] \in {"register"} \cup InGame =>
              \/ pc[p] \in {"register"} \cup InGame
              \/ conn'["client"] # "none"
<1> USE DEF InGame, SendPCs, RecvPCs, Goto
<1>1. pc \in [Players -> PCs] /\ conn \in [Players -> {"none", "open", "reset", "closed"}]
      /\ "client" \in Players /\ "server" \in Players
  BY DEF TypeOK, Players
<1>2. /\ conn["client"] # "none" => conn'["client"] # "none"
      /\ conn'["client"] # "none" =>
           conn["client"] # "none" \/ (p = "client" /\ Connect)
  BY <1>1, ConnSteps DEF net, Shut, ResetArrives, Transmit, ReadByte, Connect, Accept
<1>3. pc'[p] \in {"register"} \cup InGame =>
              \/ pc[p] \in {"register"} \cup InGame
              \/ p = "client" /\ Connect
              \/ p = "server" /\ Accept
  <2>2. CASE Program(p)
    BY <1>1, <2>2 DEF Program, Accept, Register, LoopTest, ClearReturns,
           CheckCell, SendSucceeds, AfterSend, Conclude, NextTurn, SendKilled,
           RecvFails, RecvStale, RecvFailed, OpponentForfeits, HandleResult,
           HandleMove, CloseSocket
  <2>3. CASE User(p)
    BY <1>1, <2>3 DEF User, PlaceBoats, EnterCell, PromptForfeit,
           PromptInterrupted, GiveUpAtPrompt, ClearInterrupted, CheckCell,
           RecvInterrupted, RecvFailed, Signal, Kill, Ended
  <2>4. CASE System(p)
    BY <1>1, <2>4 DEF System, Listen, AcceptFails, Connect, SetUpFails,
           SendFails, AfterSend, Conclude, NextTurn, ResetArrives
  <2> QED
    BY <2>2, <2>3, <2>4 DEF Step
<1> QED
  BY <1>1, <1>2, <1>3 DEF Connect, Accept

\* There is one way into the set-up of the connection: placing the boats.
LEMMA PlaceSteps ==
  ASSUME TypeOK, NEW p \in Players, Step(p)
  PROVE  /\ pc'[p] \in Placed \cup InGame => pc[p] \in Placed \cup InGame \/ PlaceBoats(p)
         /\ pc'[p] = "place" => pc[p] = "place" /\ ~PlaceBoats(p)
<1> USE DEF Placed, InGame, SendPCs, RecvPCs, Goto
<1>1. pc \in [Players -> PCs]
  BY DEF TypeOK
<1>2. CASE Program(p)
  BY <1>1, <1>2 DEF Program, Accept, Register, LoopTest, ClearReturns, CheckCell,
         SendSucceeds, AfterSend, Conclude, NextTurn, SendKilled, RecvFails,
         RecvStale, RecvFailed, OpponentForfeits, HandleResult, HandleMove,
         CloseSocket, PlaceBoats
<1>3. CASE User(p)
  BY <1>1, <1>3 DEF User, PlaceBoats, EnterCell, PromptForfeit, PromptInterrupted,
         GiveUpAtPrompt, ClearInterrupted, CheckCell, RecvInterrupted, RecvFailed,
         Signal, Kill, Ended
<1>4. CASE System(p)
  BY <1>1, <1>4 DEF System, Listen, AcceptFails, Connect, SetUpFails, SendFails,
         AfterSend, Conclude, NextTurn, ResetArrives, PlaceBoats
<1> QED
  BY <1>2, <1>3, <1>4 DEF Step

\* A fleet put on an empty board.
LEMMA PlaceEffect ==
  ASSUME TypeOK, NEW p \in Players, PlaceBoats(p)
  PROVE  /\ Cardinality(Ships(p)') = BoatNum
         /\ \A c \in Cells : userGrid'[p][c] \in {DEFAULT, BOAT}
         /\ \A r \in Players : r # p => userGrid'[r] = userGrid[r]
         /\ UNCHANGED <<advGrid, attacking, usrInput, data, outcome, conn, rst, inbox>>
         /\ pc[p] = "place" /\ pc'[p] = "connect"
<1>1. PICK S \in SUBSET Cells :
        /\ Cardinality(S) = BoatNum
        /\ userGrid' = [userGrid EXCEPT ![p] =
                          [c \in Cells |-> IF c \in S THEN BOAT ELSE DEFAULT]]
  BY DEF PlaceBoats
<1>2. /\ userGrid'[p] = [c \in Cells |-> IF c \in S THEN BOAT ELSE DEFAULT]
      /\ \A r \in Players : r # p => userGrid'[r] = userGrid[r]
  BY <1>1 DEF TypeOK
<1>3. Ships(p)' = S
  BY <1>2 DEF Ships, BOAT, SUNKEN_BOAT, DEFAULT
<1>4. UNCHANGED <<advGrid, attacking, usrInput, data, outcome, conn, rst, inbox>>
  BY DEF PlaceBoats, locals, net
<1>5. pc[p] = "place" /\ pc'[p] = "connect"
  BY DEF PlaceBoats, Goto, TypeOK
<1> QED
  BY <1>1, <1>2, <1>3, <1>4, <1>5

\* The fleets are whole: a fleet is placed on an empty board, or only sinks.
LEMMA FleetStep ==
  ASSUME TypeInv, LockInv, NEW p \in Players, Step(p)
  PROVE  FleetInv'
<1> SUFFICES ASSUME NEW r \in Players
             PROVE  /\ Empty(r)' \/ Cardinality(Ships(r)') = BoatNum
                    /\ pc'[r] = "place" => Empty(r)'
                    /\ pc'[r] \in Placed \cup InGame \/ conn'["client"] # "none" =>
                         Cardinality(Ships(r)') = BoatNum
                    /\ pc'[r] \in {"register"} \cup InGame =>
                         conn'["client"] # "none"
  BY DEF FleetInv
<1>1. TypeOK /\ FleetInv
  BY DEF TypeInv, LockInv
<1>2. pc'[r] \in {"register"} \cup InGame => conn'["client"] # "none"
  BY <1>1, ConnectedStays, OthersUnchanged DEF FleetInv
<1>3. CASE PlaceBoats(p) /\ r = p
  BY <1>1, <1>2, <1>3, PlaceEffect
<1>4. CASE ~(PlaceBoats(p) /\ r = p)
  <2>1. Ships(r)' = Ships(r) /\ (Empty(r) => Empty(r)' \/ pc[r] \in InGame)
    <3>1. CASE PlaceBoats(p)
      BY <1>1, <1>4, <3>1, PlaceEffect DEF Ships, Empty
    <3> QED
      BY <3>1, ShipsStep
  <2>2. /\ pc'[r] \in Placed \cup InGame => pc[r] \in Placed \cup InGame
        /\ pc'[r] = "place" => pc[r] = "place"
    BY <1>1, <1>4, PlaceSteps, OthersUnchanged
  <2>3. conn'["client"] # "none" =>
          conn["client"] # "none" \/ pc[r] \in Placed
    BY <1>1, ConnectedStays DEF Connect, Placed, Players
  <2>4. pc[r] = "place" => pc[r] \notin InGame
    BY DEF InGame, SendPCs, RecvPCs
  <2> QED
    BY <1>1, <1>2, <2>1, <2>2, <2>3, <2>4 DEF FleetInv
<1> QED
  BY <1>3, <1>4

\* A program that waits for a result leaves by reading it, or for good.
LEMMA WaitSteps ==
  ASSUME TypeOK, NEW p \in Players, Step(p), Waits(p) \/ ~Alive(p)
  PROVE  \/ \E b \in Bytes : HandleResult(p, b)
         \/ usrInput' = usrInput /\ (Waits(p)' \/ ~Alive(p)')
<1> USE DEF Waits, WaitsResult, Alive, SetUp, InGame, SendPCs, RecvPCs, Goto
<1>1. pc \in [Players -> PCs]
  BY DEF TypeOK
<1>2. CASE Program(p)
  BY <1>1, <1>2 DEF Program, Accept, Register, LoopTest, ClearReturns, CheckCell,
         SendSucceeds, AfterSend, Conclude, NextTurn, SendKilled, RecvFails,
         RecvStale, RecvFailed, OpponentForfeits, HandleMove, CloseSocket, locals
<1>3. CASE User(p)
  BY <1>1, <1>3 DEF User, PlaceBoats, EnterCell, PromptForfeit, PromptInterrupted,
         GiveUpAtPrompt, ClearInterrupted, CheckCell, RecvInterrupted, RecvFailed,
         Signal, Kill, Ended, locals
<1>4. CASE System(p)
  BY <1>1, <1>4 DEF System, Listen, AcceptFails, Connect, SetUpFails, SendFails,
         AfterSend, Conclude, NextTurn, ResetArrives, locals
<1> QED
  BY <1>2, <1>3, <1>4 DEF Step

\* What HandleResult leaves behind, for the attacker p and the defender q.
LEMMA ResultEffect ==
  ASSUME TypeInv, LockInv, NEW p \in Players, NEW q, q = Peer(p),
         NEW b \in Bytes, HandleResult(p, b)
  PROVE  /\ b = Head(inbox[p]) /\ b = Answer(p) /\ ShotFell(p)
         /\ Waits(p) /\ Alive(p)
         /\ Afloat(q) \/ outcome[q] = "lost"
         /\ advGrid'[p] = [advGrid[p] EXCEPT ![Shot(p)] = Target(p)]
         /\ advGrid'[q] = advGrid[q]
         /\ UNCHANGED <<userGrid, usrInput, conn, rst>>
         /\ inbox' = [inbox EXCEPT ![p] = Tail(inbox[p])]
<1>1. /\ pc[p] = "recvResult" /\ b # FORFEIT
      /\ inbox[p] # << >> /\ b = Head(inbox[p])
      /\ advGrid' = [advGrid EXCEPT ![p][usrInput[p]] = Mark(b)]
      /\ UNCHANGED <<userGrid, usrInput, conn, rst>>
      /\ inbox' = [inbox EXCEPT ![p] = Tail(inbox[p])]
  BY DEF HandleResult, ReadByte
<1>2. Waits(p) /\ Alive(p)
  BY <1>1 DEF Waits, WaitsResult, Alive, InGame, RecvPCs
<1>3. /\ ShotFell(p) /\ b = Answer(p)
      /\ Afloat(q) \/ outcome[q] = "lost"
  BY <1>1, <1>2, ResultRead DEF TypeInv, LockInv
<1>4. Mark(b) = Target(p)
  BY <1>3 DEF Mark, Answer, ShotFell, BOAT, MISSED_SHOT, SUNKEN_BOAT
<1>5. q \in Players /\ q # p
  BY PeerFacts
<1>6. /\ advGrid'[p] = [advGrid[p] EXCEPT ![Shot(p)] = Target(p)]
      /\ advGrid'[q] = advGrid[q]
  BY <1>1, <1>4, <1>5 DEF TypeInv, TypeOK, Shot
<1> QED
  BY <1>1, <1>2, <1>3, <1>6

\* The two copies of a board stay equal up to what the attacker cannot know.
LEMMA AgreeStep ==
  ASSUME TypeInv, LockInv, NEW p \in Players, Step(p)
  PROVE  Agree'
<1> SUFFICES ASSUME NEW s \in Players, NEW c \in Cells
             PROVE  \/ advGrid'[s][c] = userGrid'[Peer(s)][c]
                    \/ /\ advGrid'[s][c] = DEFAULT
                       /\ \/ userGrid'[Peer(s)][c] = BOAT
                          \/ c = Shot(s)' /\ (Waits(s)' \/ ~Alive(s)')
  BY DEF Agree
<1> DEFINE t == Peer(s)
<1>1. t \in Players /\ t # s /\ Peer(t) = s /\ (p = s \/ p = t)
  BY DEF Players, Peer
<1>2. TypeOK /\ Agree
  BY DEF TypeInv, LockInv
<1>3. \/ advGrid[s][c] = userGrid[t][c]
      \/ /\ advGrid[s][c] = DEFAULT
         /\ \/ userGrid[t][c] = BOAT
            \/ c = Shot(s) /\ (Waits(s) \/ ~Alive(s))
  BY <1>2 DEF Agree
<1> HIDE DEF t
<1> SUFFICES \/ advGrid'[s][c] = userGrid'[t][c]
             \/ /\ advGrid'[s][c] = DEFAULT
                /\ \/ userGrid'[t][c] = BOAT
                   \/ c = Shot(s)' /\ (Waits(s)' \/ ~Alive(s)')
  BY DEF t
<1>4. ASSUME p = s, NEW b \in Bytes, HandleResult(p, b)
      PROVE  advGrid'[s][c] = userGrid'[t][c]
                \/ (advGrid'[s][c] = DEFAULT /\ userGrid'[t][c] = BOAT)
  <2>1. t = Peer(p)
    BY <1>4 DEF t
  <2>2. /\ ShotFell(s)
        /\ advGrid'[s] = [advGrid[s] EXCEPT ![Shot(s)] = Target(s)]
        /\ userGrid' = userGrid
    BY <1>4, <2>1, ResultEffect
  <2>3. Target(s) = userGrid[t][Shot(s)]
    BY <1>4, <2>1 DEF Target
  <2>4. advGrid[s] \in [Cells -> GridStates \ {BOAT}]
    BY <1>2 DEF TypeOK
  <2> QED
    BY <1>3, <2>2, <2>3, <2>4
<1>5. CASE p = s /\ ~\E b \in Bytes : HandleResult(p, b)
  <2>1. advGrid'[s] = advGrid[s] /\ userGrid'[t] = userGrid[t]
    <3>1. advGrid' = advGrid
      BY <1>5, BoardSteps DEF boards, PlaceBoats, Register, HandleMove
    <3> QED
      BY <1>1, <1>2, <1>5, <3>1, OthersUnchanged
  <2>2. Waits(s) \/ ~Alive(s) => Shot(s)' = Shot(s) /\ (Waits(s)' \/ ~Alive(s)')
    BY <1>2, <1>5, WaitSteps DEF Shot
  <2> QED
    BY <1>3, <2>1, <2>2
<1>6. CASE p = t
  <2>1. /\ advGrid'[s] = advGrid[s] /\ Shot(s)' = Shot(s)
        /\ Waits(s)' = Waits(s) /\ Alive(s)' = Alive(s)
    BY <1>1, <1>2, <1>6, OthersUnchanged DEF Shot, Waits, WaitsResult, Alive
  <2>2. CASE UNCHANGED userGrid
    BY <1>3, <2>1, <2>2
  <2>3. CASE PlaceBoats(p)
    <3>1. userGrid[t][c] = DEFAULT
      BY <1>1, <1>6, <2>3 DEF LockInv, FleetInv, Empty, PlaceBoats
    <3>2. userGrid'[t][c] \in {DEFAULT, BOAT}
      BY <1>2, <1>6, <2>3, PlaceEffect
    <3> QED
      BY <1>3, <2>1, <3>1, <3>2
  <2>4. ASSUME NEW b \in Bytes, HandleMove(p, b)
        PROVE  \/ userGrid'[t][c] = userGrid[t][c]
               \/ /\ c = Shot(s) /\ advGrid[s][c] = DEFAULT
                  /\ Waits(s) \/ ~Alive(s)
    <3>1. s = Peer(p)
      BY <1>1, <1>6
    <3>2. /\ b = Shot(s) /\ ShotFlies(s)
          /\ userGrid'[p] = [userGrid[p] EXCEPT ![b] =
                              IF @ = BOAT THEN SUNKEN_BOAT ELSE MISSED_SHOT]
          /\ Waits(s) \/ ~Alive(s)
      BY <2>4, <3>1, MoveEffect
    <3>3. userGrid[p] \in [Cells -> GridStates]
      BY <1>2 DEF TypeOK
    <3> QED
      BY <1>6, <3>2, <3>3 DEF ShotFlies
  <2>5. CASE Register(p) \/ \E b \in Bytes : HandleResult(p, b)
    BY <2>2, <2>5 DEF Register, HandleResult
  <2> QED
    BY <1>3, <2>1, <2>2, <2>3, <2>4, <2>5, BoardSteps DEF boards
<1> QED
  BY <1>1, <1>4, <1>5, <1>6

-----------------------------------------------------------------------------
(* Lock step: how many boats the opponent has left.                        *)

\* Boats still afloat, counted from what the opponent has sunk.
LEMMA ExactCount ==
  ASSUME NEW view \in [Cells -> GridStates \ {BOAT}],
         NEW real \in [Cells -> GridStates],
         \A c \in Cells : view[c] = real[c] \/ (view[c] = DEFAULT /\ real[c] = BOAT),
         Cardinality({c \in Cells : real[c] \in {BOAT, SUNKEN_BOAT}}) = BoatNum
  PROVE  /\ Cardinality({c \in Cells : real[c] = BOAT}) =
               BoatNum - Cardinality({c \in Cells : view[c] = SUNKEN_BOAT})
         /\ (\E c \in Cells : real[c] = BOAT) <=>
               Cardinality({c \in Cells : real[c] = BOAT}) # 0
<1> DEFINE B == {c \in Cells : real[c] = BOAT}
           S == {c \in Cells : view[c] = SUNKEN_BOAT}
           T == {c \in Cells : real[c] \in {BOAT, SUNKEN_BOAT}}
<1>1. /\ IsFiniteSet(B) /\ Cardinality(B) \in Nat
      /\ IsFiniteSet(S) /\ Cardinality(S) \in Nat
  BY CellSetsFinite
<1>2. T = B \cup S
  BY DEF BOAT, SUNKEN_BOAT, DEFAULT
<1>3. B \cap S = {}
  BY DEF BOAT, SUNKEN_BOAT, DEFAULT
<1>4. (\E c \in Cells : real[c] = BOAT) <=> Cardinality(B) # 0
  BY <1>1, FS_EmptySet
<1>5. Cardinality(T) = BoatNum
  OBVIOUS
<1>6. Cardinality(B) = BoatNum - Cardinality(S)
  <2> HIDE DEF B, S, T
  <2>1. Cardinality(B \cup S) = Cardinality(B) + Cardinality(S) - Cardinality(B \cap S)
    BY <1>1, FS_Union
  <2>2. Cardinality(B \cap S) = 0
    BY <1>3, FS_EmptySet
  <2> QED
    BY <1>1, <1>2, <1>5, <2>1, <2>2
<1> QED
  BY <1>4, <1>6

\* A program that plays on has an opponent with boats left.
LEMMA OpponentAfloat ==
  ASSUME TypeInv, CountInv, LockInv, NEW p \in Players, NEW q, q = Peer(p),
         Alive(p), ~Waits(p), Cardinality(Ships(q)) = BoatNum
  PROVE  Afloat(q)
<1>1. q \in Players
  BY PeerFacts
<1>2. /\ advGrid[p] \in [Cells -> GridStates \ {BOAT}]
      /\ userGrid[q] \in [Cells -> GridStates]
  BY <1>1 DEF TypeInv, TypeOK
<1>3. \A c \in Cells : advGrid[p][c] = userGrid[q][c]
                         \/ (advGrid[p][c] = DEFAULT /\ userGrid[q][c] = BOAT)
  BY DEF LockInv, Agree
<1>4. /\ Cardinality(Fleet(q)) = BoatNum - Cardinality(Sunk(p))
      /\ Afloat(q) <=> Cardinality(Fleet(q)) # 0
  BY <1>2, <1>3, ExactCount DEF Ships, Fleet, Sunk, Afloat
<1>5. Cardinality(Sunk(p)) # BoatNum
  <2>1. CASE pc[p] \in SetUp
    <3>1. Sunk(p) = {} /\ BoatNum # 0
      BY <2>1, BoatAssumption, GridAssumption DEF CountInv
    <3> QED
      BY <3>1, FS_EmptySet
  <2>2. CASE pc[p] \in InGame
    <3>1. advBoats[p] = BoatNum - Cardinality(Sunk(p)) /\ advBoats[p] > 0
      BY <2>2 DEF CountInv, Active, TypeInv, CountersPositive
    <3> QED
      BY <3>1, BoatAssumption, GridAssumption
  <2> QED
    BY <2>1, <2>2 DEF Alive
<1>6. BoatNum \in Nat /\ Cardinality(Sunk(p)) \in Nat
  BY CellSetsFinite, BoatAssumption, GridAssumption DEF Sunk
<1> QED
  BY <1>4, <1>5, <1>6

\* The last boat known to be sunk is the last boat of a program that said so.
LEMMA WonMeansLost ==
  ASSUME TypeInv, CountInv, LockInv, NEW p \in Players, NEW q, q = Peer(p),
         NEW b \in Bytes, HandleResult(p, b), advBoats'[p] = 0
  PROVE  ~Afloat(q) /\ outcome[q] = "lost"
<1>1. q \in Players
  BY PeerFacts
<1>2. /\ advGrid'[p] = [advGrid[p] EXCEPT ![Shot(p)] = Target(p)]
      /\ Afloat(q) \/ outcome[q] = "lost"
      /\ ShotFell(p) /\ Alive(p)
  BY ResultEffect
<1>3. /\ advGrid[p] \in [Cells -> GridStates \ {BOAT}]
      /\ userGrid[q] \in [Cells -> GridStates]
  BY <1>1 DEF TypeInv, TypeOK
<1>4. Target(p) = userGrid[q][Shot(p)] /\ Target(p) \in GridStates \ {BOAT}
  BY <1>2 DEF Target, ShotFell, GridStates, MISSED_SHOT, SUNKEN_BOAT, BOAT
<1>5. \A c \in Cells : advGrid'[p][c] = userGrid[q][c]
                         \/ (advGrid'[p][c] = DEFAULT /\ userGrid[q][c] = BOAT)
  BY <1>2, <1>3, <1>4 DEF LockInv, Agree
<1>6. Cardinality(Ships(q)) = BoatNum
  <2>1. pc[p] \in InGame
    BY DEF HandleResult, InGame, RecvPCs
  <2> QED
    BY <1>1, <2>1 DEF LockInv, FleetInv
<1>7. advGrid'[p] \in [Cells -> GridStates \ {BOAT}]
  BY <1>2, <1>3, <1>4
<1>8. /\ Cardinality(Fleet(q)) = BoatNum - Cardinality(Sunk(p)')
      /\ Afloat(q) <=> Cardinality(Fleet(q)) # 0
  BY <1>3, <1>5, <1>6, <1>7, ExactCount DEF Ships, Fleet, Sunk, Afloat
<1>9. BoatNum - Cardinality(Sunk(p)') = 0
  BY HandleResultCount
<1> QED
  BY <1>2, <1>8, <1>9

\* A FORFEIT is read from a program that gave up and is gone.
LEMMA ForfeitRead ==
  ASSUME TypeInv, LockInv, NEW p \in Players, NEW q, q = Peer(p), OpponentForfeits(p)
  PROVE  outcome[q] = "forfeited" /\ ~Alive(q) /\ Alive(p)
<1>1. pc[p] \in RecvPCs /\ inbox[p] # << >> /\ Head(inbox[p]) = FORFEIT
  BY DEF OpponentForfeits, ReadByte
<1>2. Alive(p)
  BY <1>1 DEF Alive, InGame
<1>3. CASE Waits(p)
  BY <1>1, <1>2, <1>3, ResultRead DEF TypeInv, LockInv
<1>4. CASE ~Waits(p)
  <2>1. Defends(p) /\ ~Attacks(p) /\ ~Answers(p)
    BY <1>1, <1>2, <1>4 DEF Defends, Attacks, Between, Waits, WaitsResult, Answers,
                            RecvPCs, LockInv, RoleInv
  <2>2. inbox[p] # <<Shot(q)>> \/ ~ShotFlies(q)
    BY <1>1, BytesAreCells DEF ShotFlies
  <2>3. ~Alive(q)
    <3>1. ~InStep(p, q)
      BY <1>4, <2>1 DEF InStep
    <3>2. ~InStep(q, p)
      BY <1>1, <1>4, <2>1, <2>2 DEF InStep
    <3> QED
      BY <1>2, <3>1, <3>2, StreamsOf DEF LockInv
  <2>4. Leftover(p, q)
    BY <1>2, <2>3, StreamsOf DEF LockInv
  <2> QED
    BY <1>1, <1>2, <1>4, <2>2, <2>3, <2>4 DEF Leftover
<1> QED
  BY <1>3, <1>4

-----------------------------------------------------------------------------
(* Lock step: the verdicts.                                                *)

\* How a verdict is reached.
LEMMA VerdictSteps ==
  ASSUME TypeOK, NEW p \in Players, Step(p)
  PROVE  \/ outcome' = outcome
         \/ /\ \E b \in Bytes : HandleResult(p, b)
            /\ outcome' = [outcome EXCEPT ![p] = "won"]
            /\ advBoats'[p] = 0
         \/ /\ OpponentForfeits(p)
            /\ outcome' = [outcome EXCEPT ![p] = "opponentForfeited"]
         \/ /\ pc[p] = "sendForfeit" /\ UNCHANGED boards
            /\ outcome' = [outcome EXCEPT ![p] = "forfeited"]
         \/ /\ pc[p] = "sendResult" /\ userBoats[p] = 0 /\ UNCHANGED boards
            /\ outcome' = [outcome EXCEPT ![p] = "lost"]
<1> USE DEF NoBoatLeft, Conclude
<1>1. ASSUME NEW b \in Bytes, HandleResult(p, b)
      PROVE  \/ outcome' = outcome
             \/ /\ outcome' = [outcome EXCEPT ![p] = "won"]
                /\ advBoats'[p] = 0
  BY <1>1 DEF HandleResult
<1>2. CASE SendSucceeds(p) \/ SendFails(p)
  BY <1>2 DEF SendSucceeds, SendFails, AfterSend, boards
<1>3. CASE OpponentForfeits(p)
  BY <1>3 DEF OpponentForfeits
<1>4. CASE /\ Program(p) /\ ~SendSucceeds(p) /\ ~OpponentForfeits(p)
           /\ ~\E b \in Bytes : HandleResult(p, b)
  BY <1>4 DEF Program, Accept, Register, LoopTest, ClearReturns, CheckCell,
              SendKilled, RecvFails, RecvStale, HandleMove, CloseSocket
<1>5. CASE User(p)
  BY <1>5 DEF User, PlaceBoats, EnterCell, PromptForfeit, PromptInterrupted,
              GiveUpAtPrompt, ClearInterrupted, CheckCell, RecvInterrupted, Signal,
              Kill
<1>6. CASE System(p) /\ ~SendFails(p)
  BY <1>6 DEF System, Listen, AcceptFails, Connect, SetUpFails, ResetArrives
<1> QED
  BY <1>1, <1>2, <1>3, <1>4, <1>5, <1>6 DEF Step

\* What a program that is gone leaves as it is.
LEMMA GoneSteps ==
  ASSUME TypeOK, NEW p \in Players, Step(p), NEW r \in Players, ~Alive(r)
  PROVE  /\ ~Alive(r)'
         /\ userGrid'[r] = userGrid[r] /\ advGrid'[r] = advGrid[r]
         /\ usrInput'[r] = usrInput[r] /\ outcome'[r] = outcome[r]
<1>1. CASE r # p
  BY <1>1, OthersUnchanged, OthersKeep DEF Alive
<1>2. CASE r = p
  <2>1. UNCHANGED boards /\ UNCHANGED outcome
    <3>1. pc[p] \notin SetUp \cup InGame
      BY <1>2 DEF Alive
    <3> QED
      BY <3>1, BoardSteps, VerdictSteps
         DEF PlaceBoats, Register, HandleResult, HandleMove, OpponentForfeits,
             SetUp, InGame, SendPCs, RecvPCs
  <2>2. usrInput' = usrInput
    BY <1>2, <2>1, WaitSteps DEF HandleResult
  <2> QED
    BY <1>2, <2>1, <2>2, DeadStays DEF boards
<1> QED
  BY <1>1, <1>2

\* A verdict is the last word of a program, and the other one answers it.
LEMMA VictoryStep ==
  ASSUME TypeInv, CountInv, LockInv, NEW p \in Players, Step(p)
  PROVE  VictoryDeserved'
<1> SUFFICES ASSUME NEW r \in Players
             PROVE  /\ outcome'[r] = "won" =>
                         /\ \A c \in Cells : userGrid'[Peer(r)][c] # BOAT
                         /\ outcome'[Peer(r)] = "lost"
                    /\ outcome'[r] = "opponentForfeited" =>
                         outcome'[Peer(r)] = "forfeited"
  BY DEF VictoryDeserved
<1> DEFINE s == Peer(r)
<1>1. s \in Players /\ s # r /\ Peer(s) = r
  BY PeerFacts
<1> HIDE DEF s
<1>2. TypeOK /\ Undecided /\ VictoryDeserved
  BY DEF TypeInv, LockInv
<1>3. outcome[s] # "none" => outcome'[s] = outcome[s] /\ userGrid'[s] = userGrid[s]
  BY <1>1, <1>2, GoneSteps DEF Undecided, Decided
<1>4. CASE outcome'[r] = outcome[r]
  BY <1>2, <1>3, <1>4 DEF VictoryDeserved, s
<1>5. CASE outcome'[r] # outcome[r]
  <2>1. r = p
    BY <1>2, <1>5, OthersKeep
  <2>2. s = Peer(p)
    BY <2>1 DEF s
  <2>3. ASSUME outcome'[r] = "won"
        PROVE  (\A c \in Cells : userGrid'[s][c] # BOAT) /\ outcome'[s] = "lost"
    <3>1. PICK b \in Bytes : HandleResult(p, b) /\ advBoats'[p] = 0
      BY <1>2, <1>5, <2>1, <2>3, VerdictSteps DEF TypeOK
    <3>2. ~Afloat(s) /\ outcome[s] = "lost"
      BY <2>2, <3>1, WonMeansLost
    <3> QED
      BY <1>3, <3>2 DEF Afloat
  <2>4. ASSUME outcome'[r] = "opponentForfeited"
        PROVE  outcome'[s] = "forfeited"
    <3>1. OpponentForfeits(p)
      BY <1>2, <1>5, <2>1, <2>4, VerdictSteps DEF TypeOK
    <3>2. outcome[s] = "forfeited"
      BY <2>2, <3>1, ForfeitRead
    <3> QED
      BY <1>3, <3>2
  <2> QED
    BY <2>3, <2>4 DEF s
<1> QED
  BY <1>4, <1>5

-----------------------------------------------------------------------------
(* Lock step: which steps the opponent notices.                            *)

\* Whose turn it is depends on the boards alone.
LEMMA TurnFrame ==
  ASSUME userGrid' = userGrid, NEW r
  PROVE  Game!Turn(r)' <=> Game!Turn(r)
  BY DEF Game!Turn, Game!Touched

\* What is said of a shot depends on the boards and on who fired it.
LEMMA ShotFrame ==
  ASSUME userGrid' = userGrid, NEW r,
         advGrid'[r] = advGrid[r], usrInput'[r] = usrInput[r]
  PROVE  /\ Shot(r)' = Shot(r)
         /\ Target(r)' = Target(r)
         /\ Answer(r)' = Answer(r)
         /\ ShotFell(r)' <=> ShotFell(r)
         /\ outcome'[r] = outcome[r] => (ShotFlies(r)' <=> ShotFlies(r))
<1>1. Shot(r)' = Shot(r) /\ Target(r)' = Target(r)
  BY DEF Shot, Target
<1>2. Answer(r)' = Answer(r)
  BY <1>1 DEF Answer
<1>3. ShotFell(r)' <=> ShotFell(r)
  BY <1>1 DEF ShotFell
<1>4. ASSUME outcome'[r] = outcome[r]
      PROVE  ShotFlies(r)' <=> ShotFlies(r)
  BY <1>1, <1>4, TurnFrame DEF ShotFlies
<1> QED
  BY <1>1, <1>2, <1>3, <1>4

\* Steps of a program that its opponent cannot notice.
Quiet(p) ==
  /\ UNCHANGED <<userGrid, advGrid, outcome, inbox>>
  /\ attacking'[p] = attacking[p]
  /\ Alive(p)'
  /\ Waits(p)' <=> Waits(p)
  /\ Answers(p)' <=> Answers(p)
  /\ pc[p] = "sendForfeit" => pc'[p] = "sendForfeit"
  /\ Waits(p) => usrInput'[p] = usrInput[p]
  /\ Answers(p) => data'[p] = data[p]

\* A step the opponent cannot notice keeps the streams.
LEMMA QuietStreams ==
  ASSUME TypeOK, LockInv, NEW p \in Players, Step(p), Quiet(p)
  PROVE  Streams'
<1> DEFINE q == Peer(p)
<1>1. q \in Players /\ q # p /\ Peer(q) = p
  BY PeerFacts
<1>2. q = Peer(p)
  OBVIOUS
<1> HIDE DEF q
<1>3. Alive(p) /\ Alive(p)' /\ (Alive(q)' <=> Alive(q))
  BY <1>1, AliveSteps, OthersUnchanged DEF Quiet, Alive
<1>4. /\ Waits(p)' <=> Waits(p)
      /\ Answers(p)' <=> Answers(p)
      /\ Attacks(p)' <=> Attacks(p)
      /\ Defends(p)' <=> Defends(p)
      /\ pc[p] = "sendForfeit" => pc'[p] = "sendForfeit"
      /\ inbox' = inbox /\ outcome' = outcome
      /\ Answers(p) => data'[p] = data[p]
  BY <1>3 DEF Quiet, Attacks, Defends, Between
<1>5. pc'[q] = pc[q] /\ attacking'[q] = attacking[q] /\ data'[q] = data[q]
  BY <1>1, OthersUnchanged, OthersKeep
<1>6. /\ Waits(q)' <=> Waits(q)
      /\ Answers(q)' <=> Answers(q)
      /\ Attacks(q)' <=> Attacks(q)
      /\ Defends(q)' <=> Defends(q)
  BY <1>5 DEF Waits, WaitsResult, Answers, Attacks, Defends, Between, Alive
<1>7. userGrid' = userGrid /\ advGrid' = advGrid /\ usrInput'[q] = usrInput[q]
  BY <1>1, OthersUnchanged DEF Quiet
<1>8. /\ Game!Turn(p)' <=> Game!Turn(p)
      /\ Game!Turn(q)' <=> Game!Turn(q)
      /\ Afloat(p)' <=> Afloat(p)
      /\ Afloat(q)' <=> Afloat(q)
  BY <1>7, TurnFrame DEF Afloat
<1>9. /\ Shot(q)' = Shot(q) /\ Answer(q)' = Answer(q)
      /\ ShotFell(q)' <=> ShotFell(q)
      /\ ShotFlies(q)' <=> ShotFlies(q)
  BY <1>4, <1>7, ShotFrame
<1>10. Waits(p) => /\ Shot(p)' = Shot(p) /\ Answer(p)' = Answer(p)
                   /\ ShotFell(p)' <=> ShotFell(p)
                   /\ ShotFlies(p)' <=> ShotFlies(p)
  BY <1>4, <1>7, ShotFrame DEF Quiet
<1>11. ASSUME InStep(p, q) PROVE InStep(p, q)'
  BY <1>4, <1>5, <1>6, <1>8, <1>9, <1>10, <1>11 DEF InStep
<1>12. ASSUME InStep(q, p) PROVE InStep(q, p)'
  BY <1>4, <1>5, <1>6, <1>8, <1>9, <1>10, <1>12 DEF InStep
<1>13. ASSUME Leftover(p, q) PROVE Leftover(p, q)'
  BY <1>4, <1>6, <1>8, <1>9, <1>10, <1>13 DEF Leftover
<1> QED
  BY <1>2, <1>3, <1>11, <1>12, <1>13, StreamsOf DEF LockInv

\* A program ends without a word: its opponent reads what was sent before.
Leaves(p) ==
  /\ UNCHANGED <<userGrid, advGrid, outcome, usrInput>>
  /\ inbox'[Peer(p)] = inbox[Peer(p)]
  /\ ~Alive(p)'

\* The defender takes nothing more and will send FORFEIT.
GivesUp(p) ==
  /\ UNCHANGED <<userGrid, advGrid, outcome, usrInput, attacking>>
  /\ inbox[p] # << >>
  /\ inbox' = [inbox EXCEPT ![p] = Tail(@)]
  /\ pc[p] = "recvMove" /\ pc'[p] = "sendForfeit"

Local == {"prompt", "clear", "loop", "connect", "accept", "register"}

\* The program counters between which a quiet step goes.
LEMMA QuietPcs ==
  ASSUME TypeOK, NEW p \in Players,
         \/ pc'[p] = pc[p] /\ Alive(p)
         \/ pc[p] \in Local /\ pc'[p] \in Local \cup {"sendMove", "sendForfeit", "recvMove"}
         \/ pc[p] = "recvMove" /\ pc'[p] = "sendForfeit"
  PROVE  /\ Alive(p)'
         /\ Waits(p)' <=> Waits(p)
         /\ Answers(p)' <=> Answers(p)
         /\ pc[p] = "sendForfeit" => pc'[p] = "sendForfeit"
  BY DEF Alive, Waits, WaitsResult, Answers, SetUp, InGame, SendPCs, RecvPCs, Local

\* Closing a socket leaves the bytes for the other program alone.
LEMMA ShutOthers ==
  ASSUME TypeOK, NEW p \in Players, Shut(p)
  PROVE  inbox'[Peer(p)] = inbox[Peer(p)]
  BY PeerFacts DEF Shut, net, TypeOK

\* So does reading a byte.
LEMMA ReadOthers ==
  ASSUME TypeOK, NEW p \in Players, NEW b, ReadByte(p, b)
  PROVE  inbox'[Peer(p)] = inbox[Peer(p)]
  BY PeerFacts DEF ReadByte, TypeOK

\* Every step is one of a few kinds.
LEMMA StepKinds ==
  ASSUME SendsHold, TypeOK, RoleInv, NEW p \in Players, Step(p)
  PROVE  \/ Quiet(p)
         \/ Leaves(p)
         \/ GivesUp(p)
         \/ PlaceBoats(p)
         \/ ResetArrives(p)
         \/ SendSucceeds(p)
         \/ OpponentForfeits(p)
         \/ \E b \in Bytes : HandleResult(p, b) \/ HandleMove(p, b)
<1>1. pc \in [Players -> PCs] /\ attacking \in [Players -> BOOLEAN]
  BY DEF TypeOK
<1> USE DEF Goto
<1>2. CASE Register(p)
  <2>1. attacking'[p] = attacking[p]
    BY <1>1, <1>2 DEF Register, RoleInv, SetUp
  <2>2. pc[p] = "register" /\ pc'[p] = "loop"
    BY <1>1, <1>2 DEF Register
  <2>3. UNCHANGED <<userGrid, advGrid, outcome, inbox>>
    BY <1>2 DEF Register, net
  <2>4. ~Waits(p) /\ ~Answers(p)
    BY <2>2 DEF Waits, WaitsResult, Answers
  <2> QED
    BY <2>1, <2>2, <2>3, <2>4, QuietPcs DEF Quiet, Local
<1>3. CASE LoopTest(p)
  <2>1. /\ UNCHANGED <<userGrid, advGrid, outcome, inbox, attacking, usrInput, data>>
        /\ pc[p] = "loop" /\ pc'[p] \in {"closeOk", "prompt", "recvMove"}
    BY <1>1, <1>3 DEF LoopTest, boards, locals, net
  <2>2. CASE pc'[p] = "closeOk"
    BY <2>1, <2>2 DEF Leaves, Alive, SetUp, InGame, SendPCs, RecvPCs
  <2>3. CASE pc'[p] # "closeOk"
    BY <2>1, <2>3, QuietPcs DEF Quiet, Local
  <2> QED
    BY <2>2, <2>3
<1>4. CASE \/ ClearReturns(p) \/ ClearInterrupted(p) \/ PromptForfeit(p)
           \/ PromptInterrupted(p) \/ \E c \in Cells : EnterCell(p, c)
  <2>1. /\ UNCHANGED <<userGrid, advGrid, outcome, inbox, attacking>>
        /\ pc[p] \in {"prompt", "clear"}
        /\ pc'[p] \in {"clear", "loop", "sendMove", "sendForfeit"}
    BY <1>1, <1>4 DEF ClearReturns, ClearInterrupted, CheckCell, PromptForfeit,
                      PromptInterrupted, GiveUpAtPrompt, EnterCell, boards, net
  <2>2. ~Waits(p) /\ ~Answers(p)
    BY <2>1 DEF Waits, WaitsResult, Answers
  <2> QED
    BY <2>1, <2>2, QuietPcs DEF Quiet, Local
<1>5. CASE \/ Signal(p) \/ (p = "server" /\ (Listen \/ Accept))
           \/ (p = "client" /\ Connect)
  <2>1. /\ UNCHANGED <<userGrid, advGrid, outcome, inbox, attacking, usrInput, data>>
        /\ \/ pc'[p] = pc[p] /\ pc[p] \in InGame
           \/ pc[p] \in {"connect", "accept"} /\ pc'[p] \in {"accept", "register"}
    BY <1>1, <1>5 DEF Signal, Listen, Accept, Connect, boards, locals, net
  <2> QED
    BY <2>1, QuietPcs DEF Quiet, Local, Alive
<1>6. CASE SendFails(p)
  <2>1. pc[p] \in SendPCs /\ ~Aborts(retryCount[p] + 1)
    <3>1. retryCount[p] \in Nat /\ retryCount[p] < MaxSendFailures
      BY <1>6 DEF SendFails, TypeOK
    <3> QED
      BY <1>6, <3>1, RetryAssumption DEF SendFails, Aborts, SendsHold
  <2>2. /\ UNCHANGED <<userGrid, advGrid, outcome, inbox, attacking, usrInput, data>>
        /\ pc'[p] = pc[p]
    BY <1>6, <2>1 DEF SendFails, boards, net
  <2> QED
    BY <2>1, <2>2, QuietPcs DEF Quiet, Alive, InGame
<1>7. CASE RecvFails(p) \/ RecvInterrupted(p)
  <2>1. /\ UNCHANGED <<userGrid, advGrid, outcome, inbox, attacking, usrInput, data>>
        /\ pc[p] \in RecvPCs
        /\ pc'[p] = "closeFail" \/ (pc[p] = "recvMove" /\ pc'[p] = "sendForfeit")
    BY <1>1, <1>7 DEF RecvFails, RecvInterrupted, RecvFailed, boards, locals, net
  <2>2. CASE pc'[p] = "closeFail"
    BY <2>1, <2>2 DEF Leaves, Alive, SetUp, InGame, SendPCs, RecvPCs
  <2>3. CASE pc[p] = "recvMove" /\ pc'[p] = "sendForfeit"
    BY <2>1, <2>3, QuietPcs DEF Quiet
  <2> QED
    BY <2>1, <2>2, <2>3
<1>8. CASE RecvStale(p)
  <2>1. PICK b \in Bytes : ReadByte(p, b)
    BY <1>8 DEF RecvStale
  <2>2. /\ UNCHANGED <<userGrid, advGrid, outcome, attacking, usrInput>>
        /\ pc[p] \in RecvPCs
        /\ pc'[p] = "closeFail" \/ (pc[p] = "recvMove" /\ pc'[p] = "sendForfeit")
    BY <1>1, <1>8 DEF RecvStale, RecvFailed, boards
  <2>3. CASE pc'[p] = "closeFail"
    BY <2>1, <2>2, <2>3, ReadOthers
       DEF Leaves, Alive, SetUp, InGame, SendPCs, RecvPCs
  <2>4. CASE pc[p] = "recvMove" /\ pc'[p] = "sendForfeit"
    BY <2>1, <2>2, <2>4 DEF GivesUp, ReadByte
  <2> QED
    BY <2>2, <2>3, <2>4
<1>9. CASE \/ SendKilled(p) \/ CloseSocket(p) \/ Kill(p) \/ SetUpFails(p)
           \/ (p = "server" /\ AcceptFails)
  <2>1. /\ UNCHANGED <<userGrid, advGrid, outcome, usrInput>>
        /\ Shut(p) \/ inbox' = inbox
        /\ pc'[p] \in {"killed", "exitOk", "exitFail"}
    BY <1>1, <1>9 DEF SendKilled, CloseSocket, Kill, SetUpFails, AcceptFails, boards,
                      locals, net
  <2> QED
    BY <2>1, ShutOthers DEF Leaves, Alive, SetUp, InGame, SendPCs, RecvPCs
<1> QED
  BY <1>2, <1>3, <1>4, <1>5, <1>6, <1>7, <1>8, <1>9 DEF Step, Program, User, System

\* Nothing is lost when a program ends: what it sent can still be read.
LEMMA StepLeftover ==
  ASSUME NEW p, NEW q, InStep(p, q) \/ InStep(q, p)
  PROVE  Leftover(q, p)
  BY DEF InStep, Leftover

\* A program may end at any time.
LEMMA LeavesStreams ==
  ASSUME TypeOK, LockInv, NEW p \in Players, Step(p), Leaves(p)
  PROVE  Streams'
<1> DEFINE q == Peer(p)
<1>1. q \in Players /\ q # p /\ Peer(q) = p /\ q = Peer(p)
  BY PeerFacts
<1> HIDE DEF q
<1>2. /\ pc'[q] = pc[q] /\ attacking'[q] = attacking[q] /\ inbox'[q] = inbox[q]
      /\ ~Alive(p)'
  BY <1>1, OthersUnchanged, OthersKeep DEF Leaves
<1>3. SUFFICES ASSUME Alive(q)' PROVE Leftover(q, p)'
  BY <1>1, <1>2, StreamsOf
<1>4. Alive(q)
  BY <1>2, <1>3 DEF Alive
<1>5. Leftover(q, p)
  BY <1>1, <1>4, StepLeftover, StreamsOf DEF LockInv
<1>6. /\ Waits(q)' <=> Waits(q)
      /\ Answers(q)' <=> Answers(q)
      /\ Defends(q)' <=> Defends(q)
  BY <1>2 DEF Waits, WaitsResult, Answers, Defends, Between, Alive
<1>7. /\ userGrid' = userGrid /\ advGrid' = advGrid /\ usrInput' = usrInput
      /\ outcome' = outcome
  BY DEF Leaves
<1>8. /\ Shot(p)' = Shot(p) /\ (ShotFlies(p)' <=> ShotFlies(p))
      /\ Answer(q)' = Answer(q) /\ (ShotFell(q)' <=> ShotFell(q))
      /\ Afloat(p)' <=> Afloat(p)
  BY <1>7, ShotFrame DEF Afloat
<1> QED
  BY <1>2, <1>5, <1>6, <1>7, <1>8 DEF Leftover

\* What is left of a stream of one byte, or of two, when one is read.
LEMMA TailOfOne ==
  ASSUME NEW x
  PROVE  Tail(<<x>>) = << >>
  OBVIOUS

\* The defender may drop a move with its own decision to give up.
LEMMA GivesUpStreams ==
  ASSUME TypeOK, LockInv, NEW p \in Players, Step(p), GivesUp(p)
  PROVE  Streams'
<1> DEFINE q == Peer(p)
<1>1. q \in Players /\ q # p /\ Peer(q) = p /\ q = Peer(p)
  BY PeerFacts
<1> HIDE DEF q
<1>2. /\ pc'[q] = pc[q] /\ attacking' = attacking /\ inbox'[q] = inbox[q]
      /\ inbox[p] # << >> /\ inbox'[p] = Tail(inbox[p])
      /\ pc[p] = "recvMove" /\ pc'[p] = "sendForfeit" /\ outcome' = outcome
  BY <1>1, OthersUnchanged DEF GivesUp, TypeOK
<1>3. Defends(p) /\ Alive(p) /\ ~Attacks(p) /\ ~Waits(p) /\ ~Answers(p)
  BY <1>2 DEF LockInv, RoleInv, Defends, Attacks, Between, Alive, Waits, WaitsResult,
              Answers, InGame, RecvPCs
<1>4. Defends(p)' /\ Alive(p)' /\ ~Answers(p)'
  BY <1>2, <1>3 DEF Defends, Between, Alive, Waits, WaitsResult, Answers, InGame,
                    SendPCs
<1>5. (Alive(q)' <=> Alive(q)) /\ (Waits(q)' <=> Waits(q))
  BY <1>2 DEF Alive, Waits, WaitsResult
<1>6. CASE Alive(q)
  <2>1. InStep(q, p)
    BY <1>1, <1>3, <1>6, StreamsOf DEF LockInv, InStep
  <2>2. Waits(q) /\ inbox[q] = << >> /\ inbox[p] = <<Shot(q)>>
    BY <1>2, <1>3, <2>1 DEF InStep
  <2>3. InStep(q, p)'
    BY <1>2, <1>4, <1>5, <2>2 DEF InStep
  <2> QED
    BY <1>1, <1>4, <1>5, <1>6, <2>3, StreamsOf
<1>7. CASE ~Alive(q)
  <2>1. Leftover(p, q)
    BY <1>1, <1>3, <1>7, StreamsOf DEF LockInv
  <2>2. inbox'[p] = << >>
    <3>1. inbox[p] = <<FORFEIT>> \/ inbox[p] = <<Shot(q)>>
      BY <1>2, <1>3, <2>1 DEF Leftover
    <3> QED
      BY <1>2, <3>1, TailOfOne
  <2>3. Leftover(p, q)'
    BY <2>2 DEF Leftover
  <2> QED
    BY <1>1, <1>5, <1>7, <2>3, StreamsOf
<1> QED
  BY <1>6, <1>7

\* A reset only empties a stream that nobody feeds any more.
LEMMA ResetStreams ==
  ASSUME TypeOK, LockInv, NEW p \in Players, Step(p), ResetArrives(p)
  PROVE  Streams'
<1> DEFINE q == Peer(p)
<1>1. q \in Players /\ q # p /\ Peer(q) = p /\ q = Peer(p)
  BY PeerFacts
<1> HIDE DEF q
<1>2. /\ userGrid' = userGrid /\ advGrid' = advGrid /\ usrInput' = usrInput
      /\ outcome' = outcome /\ pc' = pc /\ attacking' = attacking
  BY DEF ResetArrives, boards, locals
<1>3. ~Alive(q)
  BY <1>1 DEF ResetArrives, LockInv, ConnInv
<1>4. SUFFICES ASSUME Alive(p) PROVE Leftover(p, q)'
  BY <1>1, <1>2, <1>3, StreamsOf DEF Alive
<1>5. Leftover(p, q)
  BY <1>1, <1>3, <1>4, StreamsOf DEF LockInv
<1>6. inbox'[p] = inbox[p] \/ inbox'[p] = << >>
  BY DEF ResetArrives, TypeOK
<1>7. /\ Waits(p)' <=> Waits(p)
      /\ Answers(p)' <=> Answers(p)
      /\ Defends(p)' <=> Defends(p)
  BY <1>2 DEF Waits, WaitsResult, Answers, Defends, Between, Alive
<1>8. /\ Shot(q)' = Shot(q) /\ (ShotFlies(q)' <=> ShotFlies(q))
      /\ Answer(p)' = Answer(p) /\ (ShotFell(p)' <=> ShotFell(p))
      /\ Afloat(q)' <=> Afloat(q)
  BY <1>2, ShotFrame DEF Afloat
<1> QED
  BY <1>2, <1>5, <1>6, <1>7, <1>8 DEF Leftover

\* Boats are placed before any shot.
LEMMA PlaceStreams ==
  ASSUME TypeOK, LockInv, NEW p \in Players, Step(p), PlaceBoats(p)
  PROVE  Streams'
<1> DEFINE q == Peer(p)
<1>1. q \in Players /\ q # p /\ Peer(q) = p /\ q = Peer(p)
  BY PeerFacts
<1> HIDE DEF q
<1>2. /\ UNCHANGED <<advGrid, attacking, usrInput, outcome, inbox>>
      /\ \A c \in Cells : userGrid[p][c] = DEFAULT /\ userGrid'[p][c] \in {DEFAULT, BOAT}
      /\ userGrid'[q] = userGrid[q]
      /\ pc[p] = "place" /\ pc'[p] = "connect" /\ pc'[q] = pc[q]
  BY <1>1, PlaceEffect, OthersUnchanged DEF LockInv, FleetInv, Empty
<1>3. /\ Alive(p) /\ Alive(p)' /\ ~Waits(p) /\ ~Waits(p)' /\ ~Answers(p) /\ ~Answers(p)'
      /\ Attacks(p)' <=> Attacks(p)
      /\ Defends(p)' <=> Defends(p)
      /\ pc[p] # "sendForfeit"
  BY <1>2 DEF Alive, Waits, WaitsResult, Answers, Attacks, Defends, Between, SetUp
<1>4. /\ Alive(q)' <=> Alive(q)
      /\ Waits(q)' <=> Waits(q)
      /\ Attacks(q)' <=> Attacks(q)
      /\ Defends(q)' <=> Defends(q)
      /\ Shot(q)' = Shot(q)
  BY <1>2 DEF Waits, WaitsResult, Attacks, Defends, Between, Alive, Answers, Shot
<1>5. \A r : Game!Turn(r)' <=> Game!Turn(r)
  <2>1. Game!Touched(p)' = {} /\ Game!Touched(p) = {}
    BY <1>2 DEF Game!Touched, Game!Cells, Cells, Game!MISSED_SHOT, Game!SUNKEN_BOAT,
                DEFAULT, BOAT
  <2>2. Game!Touched(q)' = Game!Touched(q)
    BY <1>2 DEF Game!Touched
  <2>3. "server" \in {p, q} /\ "client" \in {p, q}
    BY <1>1 DEF Players
  <2> QED
    BY <2>1, <2>2, <2>3 DEF Game!Turn
<1>6. ~ShotFell(q)
  BY <1>1, <1>2 DEF ShotFell, Target, DEFAULT, MISSED_SHOT, SUNKEN_BOAT
<1>7. ShotFlies(q) => ShotFlies(q)'
  BY <1>1, <1>2, <1>4, <1>5 DEF ShotFlies, Target
<1>8. ASSUME InStep(p, q) PROVE InStep(p, q)'
  BY <1>2, <1>3, <1>4, <1>5, <1>8 DEF InStep
<1>9. ASSUME InStep(q, p) PROVE InStep(q, p)'
  BY <1>2, <1>3, <1>4, <1>5, <1>6, <1>7, <1>9 DEF InStep
<1>10. ASSUME Leftover(p, q) PROVE Leftover(p, q)'
  BY <1>2, <1>3, <1>4, <1>7, <1>10 DEF Leftover
<1> QED
  BY <1>1, <1>3, <1>4, <1>8, <1>9, <1>10, StreamsOf DEF LockInv

\* A byte for a program that runs reaches it, and only it.
LEMMA SendEffect ==
  ASSUME TypeOK, LockInv, NEW p \in Players, NEW q, q = Peer(p), SendSucceeds(p)
  PROVE  /\ UNCHANGED <<userGrid, advGrid, usrInput, data>>
         /\ inbox'[p] = inbox[p]
         /\ Alive(q) => inbox'[q] = Append(inbox[q], Outgoing(p))
<1>1. q \in Players /\ q # p
  BY PeerFacts
<1>2. /\ UNCHANGED <<userGrid, advGrid, usrInput, data>>
      /\ Transmit(p, Outgoing(p))
  BY DEF SendSucceeds, boards
<1>3. CASE conn[q] = "closed"
  <2>1. ~Alive(q) /\ inbox' = inbox
    BY <1>1, <1>2, <1>3 DEF LockInv, ConnInv, Transmit
  <2> QED
    BY <1>2, <2>1
<1>4. CASE conn[q] # "closed"
  <2>1. inbox' = [inbox EXCEPT ![q] = Append(inbox[q], Outgoing(p))]
    BY <1>2, <1>4 DEF Transmit
  <2> QED
    BY <1>1, <1>2, <2>1 DEF TypeOK
<1> QED
  BY <1>3, <1>4

\* Sending keeps the streams: the opponent finds the byte it waits for.
LEMMA SendStreams ==
  ASSUME TypeInv, CountInv, LockInv, NEW p \in Players, Step(p), SendSucceeds(p)
  PROVE  Streams'
<1> DEFINE q == Peer(p)
<1>1. q \in Players /\ q # p /\ Peer(q) = p /\ q = Peer(p)
  BY PeerFacts
<1> HIDE DEF q
<1>2. /\ UNCHANGED <<userGrid, advGrid, usrInput, data>>
      /\ inbox'[p] = inbox[p]
      /\ Alive(q) => inbox'[q] = Append(inbox[q], Outgoing(p))
  BY <1>1, SendEffect DEF TypeInv
<1>3. /\ pc'[q] = pc[q] /\ attacking'[q] = attacking[q] /\ outcome'[q] = outcome[q]
  BY <1>1, OthersUnchanged, OthersKeep DEF TypeInv
<1>4. /\ Alive(q)' <=> Alive(q)
      /\ Waits(q)' <=> Waits(q)
      /\ Answers(q)' <=> Answers(q)
      /\ Attacks(q)' <=> Attacks(q)
      /\ Defends(q)' <=> Defends(q)
  BY <1>3 DEF Waits, WaitsResult, Attacks, Defends, Between, Alive, Answers
<1>5. /\ Shot(p)' = Shot(p) /\ Shot(q)' = Shot(q) /\ Answer(q)' = Answer(q)
      /\ ShotFell(q)' <=> ShotFell(q)
      /\ ShotFlies(q)' <=> ShotFlies(q)
      /\ outcome'[p] = outcome[p] => (ShotFlies(p)' <=> ShotFlies(p))
      /\ Afloat(p)' <=> Afloat(p)
      /\ Game!Turn(p)' <=> Game!Turn(p)
  BY <1>2, <1>3, ShotFrame, TurnFrame DEF Afloat
<1>6. pc[p] \in SendPCs /\ AfterSend(p, TRUE) /\ Alive(p)
  BY DEF SendSucceeds, Alive, InGame
<1>7. pc \in [Players -> PCs] /\ outcome \in [Players -> Outcomes]
      /\ attacking \in [Players -> BOOLEAN]
  BY DEF TypeInv, TypeOK
<1>8. CASE pc[p] = "sendMove"
  <2>1. Attacks(p) /\ ~Defends(p) /\ ~Waits(p) /\ ~Answers(p)
    BY <1>6, <1>8 DEF Attacks, Defends, Between, Waits, WaitsResult, Answers, LockInv, RoleInv
  <2>2. pc'[p] = "recvResult" /\ outcome'[p] = outcome[p]
    BY <1>6, <1>7, <1>8 DEF AfterSend, Goto
  <2>3. Waits(p)' /\ Alive(p)'
    BY <2>2 DEF Waits, WaitsResult, Alive, InGame, RecvPCs
  <2>4. Outgoing(p) = Shot(p)
    BY <1>8 DEF Outgoing, LockInv, RoleInv
  <2>5. ASSUME Game!Turn(p) PROVE ShotFlies(p)'
    <3>1. Shot(p) \in Cells /\ advGrid[p][Shot(p)] = DEFAULT
      BY <1>8 DEF Shot, TypeInv, InputIsCell, CountInv, Shooting
    <3>2. userGrid[q][Shot(p)] \in {DEFAULT, BOAT}
      BY <1>1, <1>6, <2>1, <3>1 DEF LockInv, Agree
    <3>3. outcome[p] = "none"
      BY <1>6 DEF LockInv, Undecided, Decided
    <3>4. ShotFlies(p)
      BY <1>1, <2>5, <3>1, <3>2, <3>3 DEF ShotFlies, Target
    <3> QED
      BY <1>5, <2>2, <3>4
  <2>6. CASE Alive(q)
    <3>1. InStep(p, q) \/ InStep(q, p)
      BY <1>1, <1>6, <2>6, StreamsOf DEF LockInv
    <3>2. CASE InStep(p, q)
      <4>1. Defends(q) /\ inbox[p] = << >> /\ inbox[q] = << >> /\ Game!Turn(p)
        BY <2>1, <3>2 DEF InStep
      <4>2. inbox'[q] = <<Shot(p)>>
        BY <1>2, <2>4, <2>6, <4>1
      <4>3. InStep(p, q)'
        BY <1>2, <1>4, <1>5, <2>3, <2>5, <4>1, <4>2 DEF InStep
      <4> QED
        BY <1>1, <1>4, <2>3, <2>6, <4>3, StreamsOf
    <3>3. CASE InStep(q, p)
      <4>1. /\ Waits(q) /\ inbox[q] = <<Answer(q)>> /\ inbox[p] = << >>
            /\ ShotFell(q) /\ Afloat(p) /\ Game!Turn(p)
        BY <2>1, <3>3 DEF InStep
      <4>2. inbox'[q] = <<Answer(q), Shot(p)>>
        BY <1>2, <2>4, <2>6, <4>1
      <4>3. InStep(q, p)'
        BY <1>2, <1>4, <1>5, <2>3, <2>5, <4>1, <4>2 DEF InStep
      <4> QED
        BY <1>1, <1>4, <2>3, <2>6, <4>3, StreamsOf
    <3> QED
      BY <3>1, <3>2, <3>3
  <2>7. CASE ~Alive(q)
    <3>1. Leftover(p, q)
      BY <1>1, <1>6, <2>7, StreamsOf DEF LockInv
    <3>2. inbox[p] = << >> \/ (inbox[p] = <<FORFEIT>> /\ outcome[q] = "forfeited")
      BY <2>1, <3>1 DEF Leftover
    <3>3. ~Answers(p)'
      BY <2>2 DEF Answers
    <3>4. Leftover(p, q)'
      BY <1>2, <1>3, <3>2, <3>3 DEF Leftover
    <3> QED
      BY <1>1, <1>4, <2>7, <3>4, StreamsOf
  <2> QED
    BY <2>6, <2>7
<1>9. CASE pc[p] = "sendResult"
  <2>1. Answers(p) /\ ~Waits(p) /\ ~Attacks(p) /\ ~Defends(p)
    BY <1>9 DEF Answers, Attacks, Defends, Between, Waits, WaitsResult
  <2>2. Alive(q) => InStep(q, p)
    BY <1>1, <1>6, <2>1, StreamsOf DEF LockInv, InStep
  <2>3. Alive(q) => /\ Waits(q) /\ inbox[q] = << >> /\ inbox[p] = << >>
                    /\ ShotFell(q) /\ data[p] = Answer(q) /\ Game!Turn(p)
    BY <2>1, <2>2 DEF InStep
  <2>4. Outgoing(p) = data[p]
    BY <1>9 DEF Outgoing
  <2>5. Alive(q) => inbox'[q] = <<Answer(q)>>
    BY <1>2, <2>3, <2>4
  <2>6. CASE userBoats[p] = 0
    <3>1. pc'[p] = "closeOk" /\ outcome'[p] = "lost"
      BY <1>6, <1>7, <1>9, <2>6 DEF AfterSend, NoBoatLeft, Conclude, Goto
    <3>2. ~Alive(p)'
      BY <3>1 DEF Alive, SetUp, InGame, SendPCs, RecvPCs
    <3>3. Alive(q) => Leftover(q, p)'
      BY <1>4, <1>5, <2>3, <2>5, <3>1 DEF Leftover
    <3> QED
      BY <1>1, <1>4, <3>2, <3>3, StreamsOf
  <2>7. CASE userBoats[p] # 0
    <3>1. pc'[p] = "loop" /\ attacking'[p] = ~attacking[p]
      BY <1>6, <1>7, <1>9, <2>7 DEF AfterSend, NoBoatLeft, NextTurn, Goto
    <3>2. ~attacking[p]
      BY <1>9 DEF LockInv, RoleInv
    <3>3. Attacks(p)' /\ Alive(p)'
      BY <3>1, <3>2 DEF Attacks, Between, Alive, Waits, WaitsResult, Answers, InGame
    <3>4. Afloat(p)
      <4>1. userBoats[p] = Cardinality(Fleet(p))
        BY <1>9 DEF CountInv, Active, InGame, SendPCs
      <4>2. Fleet(p) # {}
        BY <2>7, <4>1, FS_EmptySet
      <4> QED
        BY <4>2 DEF Fleet, Afloat
    <3>5. CASE Alive(q)
      <4>1. InStep(q, p)'
        BY <1>2, <1>4, <1>5, <2>3, <2>5, <3>3, <3>4, <3>5 DEF InStep
      <4> QED
        BY <1>1, <1>4, <3>3, <3>5, <4>1, StreamsOf
    <3>6. CASE ~Alive(q)
      <4>1. Leftover(p, q)
        BY <1>1, <1>6, <3>6, StreamsOf DEF LockInv
      <4>2. Leftover(p, q)'
        BY <1>2, <2>1, <4>1 DEF Leftover
      <4> QED
        BY <1>1, <1>4, <3>6, <4>2, StreamsOf
    <3> QED
      BY <3>5, <3>6
  <2> QED
    BY <2>6, <2>7
<1>10. CASE pc[p] = "sendForfeit"
  <2>1. ~Waits(p) /\ ~Answers(p)
    BY <1>10 DEF Answers, Waits, WaitsResult
  <2>2. pc'[p] = "closeOk" /\ outcome'[p] = "forfeited" /\ Outgoing(p) = FORFEIT
    BY <1>6, <1>7, <1>10 DEF AfterSend, Conclude, Goto, Outgoing
  <2>3. ~Alive(p)'
    BY <2>2 DEF Alive, SetUp, InGame, SendPCs, RecvPCs
  <2>4. SUFFICES ASSUME Alive(q) PROVE Leftover(q, p)'
    BY <1>1, <1>4, <2>3, StreamsOf
  <2>5. InStep(p, q) \/ InStep(q, p)
    BY <1>1, <1>6, <2>4, StreamsOf DEF LockInv
  <2>6. \/ inbox[q] = << >> /\ ~Answers(q)
        \/ inbox[q] = <<Answer(q)>> /\ Waits(q) /\ ShotFell(q) /\ Afloat(p)
    BY <2>1, <2>5 DEF InStep, Attacks, Defends, Between, Waits, WaitsResult, Answers
  <2>7. \/ inbox'[q] = <<FORFEIT>> /\ ~Answers(q)
        \/ inbox'[q] = <<Answer(q), FORFEIT>> /\ Waits(q) /\ ShotFell(q) /\ Afloat(p)
    BY <1>2, <2>2, <2>4, <2>6
  <2> QED
    BY <1>4, <1>5, <2>2, <2>7 DEF Leftover
<1> QED
  BY <1>6, <1>8, <1>9, <1>10 DEF SendPCs

-----------------------------------------------------------------------------
(* Lock step: the turns.                                                   *)

\* The cells of a board that were shot at.
Hit(f) == {c \in Cells : f[c] \in {MISSED_SHOT, SUNKEN_BOAT}}

\* The cardinality that BattleshipGame counts shots with is the one used here.
LEMMA SameCardinality == \A S : Game!Cardinality(S) = Cardinality(S)
  BY DEF Game!Cardinality, Cardinality, Game!IsFiniteSet, IsFiniteSet

\* The turn, in numbers of cells shot at on each board.
LEMMA TurnCounts ==
  /\ Game!Turn("server") <=>
       Cardinality(Hit(userGrid["client"])) = Cardinality(Hit(userGrid["server"]))
  /\ Game!Turn("client") <=>
       Cardinality(Hit(userGrid["client"])) = Cardinality(Hit(userGrid["server"])) + 1
  BY SameCardinality
     DEF Game!Turn, Game!Touched, Hit, Game!Cells, Cells, Game!MISSED_SHOT,
         Game!SUNKEN_BOAT, MISSED_SHOT, SUNKEN_BOAT

\* The same after a step.
LEMMA TurnCountsNext ==
  /\ Game!Turn("server")' <=>
       Cardinality(Hit(userGrid'["client"])) = Cardinality(Hit(userGrid'["server"]))
  /\ Game!Turn("client")' <=>
       Cardinality(Hit(userGrid'["client"])) = Cardinality(Hit(userGrid'["server"])) + 1
  BY SameCardinality
     DEF Game!Turn, Game!Touched, Hit, Game!Cells, Cells, Game!MISSED_SHOT,
         Game!SUNKEN_BOAT, MISSED_SHOT, SUNKEN_BOAT

\* A shot at an untouched cell counts once.
LEMMA HitGrows ==
  ASSUME NEW f \in [Cells -> GridStates], NEW b \in Cells, f[b] \in {DEFAULT, BOAT},
         NEW g, g = [f EXCEPT ![b] = IF @ = BOAT THEN SUNKEN_BOAT ELSE MISSED_SHOT]
  PROVE  Cardinality(Hit(g)) = Cardinality(Hit(f)) + 1
<1>1. Hit(g) = Hit(f) \cup {b} /\ b \notin Hit(f)
  BY DEF Hit, DEFAULT, BOAT, MISSED_SHOT, SUNKEN_BOAT
<1>2. IsFiniteSet(Hit(f))
  BY CellSetsFinite DEF Hit
<1> QED
  BY <1>1, <1>2, FS_AddElement

\* A shot that falls on an untouched cell passes the turn to its target.
LEMMA TurnPasses ==
  ASSUME NEW p \in Players, NEW q, q = Peer(p), NEW b \in Cells,
         userGrid[p] \in [Cells -> GridStates], userGrid[p][b] \in {DEFAULT, BOAT},
         userGrid'[p] = [userGrid[p] EXCEPT ![b] =
                            IF @ = BOAT THEN SUNKEN_BOAT ELSE MISSED_SHOT],
         userGrid'[q] = userGrid[q], Game!Turn(q)
  PROVE  Game!Turn(p)'
<1>1. Cardinality(Hit(userGrid'[p])) = Cardinality(Hit(userGrid[p])) + 1
  BY HitGrows
<1>2. \A r : Cardinality(Hit(userGrid[r])) \in Nat
  BY CellSetsFinite DEF Hit
<1>3. CASE p = "server" /\ q = "client"
  BY <1>1, <1>2, <1>3, TurnCounts, TurnCountsNext
<1>4. CASE p = "client" /\ q = "server"
  BY <1>1, <1>2, <1>4, TurnCounts, TurnCountsNext
<1> QED
  BY <1>3, <1>4 DEF Players, Peer

\* The defender has read a move: the turn passes with the board.
LEMMA MoveStreams ==
  ASSUME TypeInv, LockInv, NEW p \in Players, Step(p), NEW b \in Bytes,
         HandleMove(p, b)
  PROVE  Streams'
<1> DEFINE q == Peer(p)
<1>1. q \in Players /\ q # p /\ Peer(q) = p /\ q = Peer(p)
  BY PeerFacts
<1> HIDE DEF q
<1>2. /\ b = Shot(q) /\ b \in Cells /\ ShotFlies(q) /\ Alive(p)
      /\ userGrid'[p] = [userGrid[p] EXCEPT ![b] =
                           IF @ = BOAT THEN SUNKEN_BOAT ELSE MISSED_SHOT]
      /\ userGrid'[q] = userGrid[q] /\ advGrid' = advGrid
      /\ usrInput' = usrInput
      /\ data'[p] = IF userGrid[p][b] = BOAT THEN BOAT ELSE MISSED_SHOT
      /\ pc' = [pc EXCEPT ![p] = "sendResult"]
      /\ inbox' = [inbox EXCEPT ![p] = << >>]
      /\ Alive(q) => Waits(q) /\ inbox[q] = << >>
  BY <1>1, MoveEffect
<1>3. /\ pc \in [Players -> PCs] /\ inbox \in [Players -> Seq(Bytes)]
      /\ userGrid[p] \in [Cells -> GridStates]
  BY DEF TypeInv, TypeOK
<1>4. /\ pc'[p] = "sendResult" /\ pc'[q] = pc[q]
      /\ inbox'[p] = << >> /\ inbox'[q] = inbox[q]
  BY <1>1, <1>2, <1>3
<1>5. Answers(p)' /\ Alive(p)' /\ (Waits(q)' <=> Waits(q)) /\ (Alive(q)' <=> Alive(q))
  BY <1>4 DEF Answers, Alive, Waits, WaitsResult, InGame, SendPCs
<1>6. CASE Alive(q)
  <2>1. userGrid[p][b] \in {DEFAULT, BOAT} /\ advGrid[q][b] = DEFAULT /\ Game!Turn(q)
    BY <1>1, <1>2 DEF ShotFlies, Target
  <2>2. Game!Turn(p)'
    BY <1>1, <1>2, <1>3, <2>1, TurnPasses
  <2>3. Target(q)' = IF userGrid[p][b] = BOAT THEN SUNKEN_BOAT ELSE MISSED_SHOT
    BY <1>1, <1>2, <1>3 DEF Target, Shot
  <2>4. ShotFell(q)'
    BY <1>2, <2>1, <2>3 DEF ShotFell, Shot
  <2>5. data'[p] = Answer(q)'
    BY <1>2, <2>3 DEF Answer, SUNKEN_BOAT, MISSED_SHOT
  <2>6. InStep(q, p)'
    BY <1>2, <1>4, <1>5, <1>6, <2>2, <2>4, <2>5 DEF InStep
  <2> QED
    BY <1>1, <1>5, <1>6, <2>6, StreamsOf
<1>7. CASE ~Alive(q)
  BY <1>1, <1>4, <1>5, <1>7, StreamsOf DEF Leftover
<1> QED
  BY <1>6, <1>7

\* Where a result leads: to the next turn, or to a victory.
LEMMA ResultSteps ==
  ASSUME TypeInv, LockInv, NEW p \in Players, NEW b \in Bytes, HandleResult(p, b)
  PROVE  \/ advBoats'[p] = 0 /\ ~Alive(p)'
         \/ Defends(p)' /\ Alive(p)' /\ ~Waits(p)' /\ ~Answers(p)'
<1>1. pc \in [Players -> PCs] /\ attacking \in [Players -> BOOLEAN]
  BY DEF TypeInv, TypeOK
<1>2. CASE advBoats'[p] = 0
  <2>1. pc'[p] = "closeOk"
    BY <1>1, <1>2 DEF HandleResult, NoBoatLeft, Conclude, Goto
  <2> QED
    BY <1>2, <2>1 DEF Alive, SetUp, InGame, SendPCs, RecvPCs
<1>3. CASE advBoats'[p] # 0
  <2>1. pc'[p] = "loop" /\ attacking'[p] = ~attacking[p] /\ pc[p] = "recvResult"
    BY <1>1, <1>3 DEF HandleResult, NoBoatLeft, NextTurn, Goto
  <2>2. ~attacking'[p]
    BY <2>1 DEF LockInv, RoleInv
  <2> QED
    BY <2>1, <2>2 DEF Defends, Between, Alive, Waits, WaitsResult, Answers, InGame
<1> QED
  BY <1>2, <1>3

\* As TailOfOne, for two bytes.
LEMMA TailOfTwo ==
  ASSUME NEW x, NEW y
  PROVE  Tail(<<x, y>>) = <<y>>
  OBVIOUS

\* The attacker has read a result: it defends, or has won.
LEMMA ResultStreams ==
  ASSUME TypeInv, CountInv, LockInv, NEW p \in Players, Step(p), NEW b \in Bytes,
         HandleResult(p, b)
  PROVE  Streams'
<1> DEFINE q == Peer(p)
<1>1. q \in Players /\ q # p /\ Peer(q) = p /\ q = Peer(p)
  BY PeerFacts
<1> HIDE DEF q
<1>2. /\ Waits(p) /\ Alive(p) /\ advGrid'[q] = advGrid[q]
      /\ UNCHANGED <<userGrid, usrInput>>
      /\ inbox' = [inbox EXCEPT ![p] = Tail(inbox[p])]
  BY <1>1, ResultEffect
<1>3. /\ pc'[q] = pc[q] /\ attacking'[q] = attacking[q] /\ outcome'[q] = outcome[q]
      /\ inbox'[p] = Tail(inbox[p]) /\ inbox'[q] = inbox[q]
  BY <1>1, <1>2, OthersUnchanged, OthersKeep DEF TypeInv, TypeOK
<1>4. /\ Alive(q)' <=> Alive(q)
      /\ Waits(q)' <=> Waits(q)
      /\ Attacks(q)' <=> Attacks(q)
  BY <1>3 DEF Waits, WaitsResult, Attacks, Between, Alive, Answers
<1>5. /\ Shot(q)' = Shot(q) /\ (ShotFlies(q)' <=> ShotFlies(q))
      /\ Game!Turn(q)' <=> Game!Turn(q)
  BY <1>2, <1>3, ShotFrame, TurnFrame
<1>6. inbox[p] # << >>
  BY DEF HandleResult, ReadByte
<1>7. ~Attacks(p) /\ ~Defends(p) /\ ~Answers(p)
  BY <1>2 DEF Attacks, Defends, Between, Answers, Waits, WaitsResult
<1>8. CASE Alive(q)
  <2>1. advBoats'[p] # 0
    <3>1. outcome[q] = "none"
      BY <1>1, <1>8 DEF LockInv, Undecided, Decided
    <3> QED
      BY <1>1, <3>1, WonMeansLost
  <2>2. Defends(p)' /\ Alive(p)'
    BY <2>1, ResultSteps
  <2>3. InStep(p, q) \/ InStep(q, p)
    BY <1>1, <1>2, <1>8, StreamsOf DEF LockInv
  <2>4. InStep(p, q)
    BY <1>2, <1>6, <1>7, <2>3 DEF InStep
  <2>5. /\ inbox[q] = << >>
        /\ \/ inbox[p] = <<Answer(p)>> /\ Attacks(q) /\ Game!Turn(q)
           \/ inbox[p] = <<Answer(p), Shot(q)>> /\ Waits(q) /\ ShotFlies(q)
    BY <1>2, <1>6, <1>7, <2>4 DEF InStep
  <2>6. CASE inbox[p] = <<Answer(p)>> /\ Attacks(q) /\ Game!Turn(q)
    <3>1. inbox'[p] = << >>
      BY <1>3, <2>6, TailOfOne
    <3>2. InStep(q, p)'
      BY <1>3, <1>4, <1>5, <2>2, <2>5, <2>6, <3>1 DEF InStep
    <3> QED
      BY <1>1, <1>4, <1>8, <2>2, <3>2, StreamsOf
  <2>7. CASE inbox[p] = <<Answer(p), Shot(q)>> /\ Waits(q) /\ ShotFlies(q)
    <3>1. inbox'[p] = <<Shot(q)>>
      BY <1>3, <2>7, TailOfTwo
    <3>2. InStep(q, p)'
      BY <1>3, <1>4, <1>5, <2>2, <2>5, <2>7, <3>1 DEF InStep
    <3> QED
      BY <1>1, <1>4, <1>8, <2>2, <3>2, StreamsOf
  <2> QED
    BY <2>5, <2>6, <2>7
<1>9. CASE ~Alive(q)
  <2>1. SUFFICES ASSUME Alive(p)' PROVE Leftover(p, q)'
    BY <1>1, <1>4, <1>9, StreamsOf
  <2>2. Defends(p)' /\ ~Answers(p)'
    BY <2>1, ResultSteps
  <2>3. Leftover(p, q)
    BY <1>1, <1>2, <1>9, StreamsOf DEF LockInv
  <2>4. Head(inbox[p]) # FORFEIT
    BY DEF HandleResult, ReadByte
  <2>5. \/ inbox[p] = <<Answer(p)>>
        \/ inbox[p] = <<Answer(p), FORFEIT>> /\ outcome[q] = "forfeited"
        \/ inbox[p] = <<Answer(p), Shot(q)>> /\ ShotFlies(q)
    BY <1>6, <1>7, <2>3, <2>4 DEF Leftover
  <2>6. \/ inbox'[p] = << >>
        \/ inbox'[p] = <<FORFEIT>> /\ outcome[q] = "forfeited"
        \/ inbox'[p] = <<Shot(q)>> /\ ShotFlies(q)
    BY <1>3, <2>5, TailOfOne, TailOfTwo
  <2> QED
    BY <1>3, <1>5, <2>2, <2>6 DEF Leftover
<1> QED
  BY <1>8, <1>9

\* Every step keeps the streams.
LEMMA StreamStep ==
  ASSUME SendsHold, TypeInv, CountInv, LockInv, NEW p \in Players, Step(p)
  PROVE  Streams'
<1>1. TypeOK /\ RoleInv
  BY DEF TypeInv, LockInv
<1>2. CASE OpponentForfeits(p)
  <2> DEFINE q == Peer(p)
  <2>1. q \in Players /\ q = Peer(p)
    BY PeerFacts
  <2> HIDE DEF q
  <2>2. ~Alive(q)
    BY <1>2, <2>1, ForfeitRead
  <2>3. pc'[p] = "closeOk"
    BY <1>1, <1>2 DEF OpponentForfeits, Conclude, Goto, TypeOK
  <2>4. ~Alive(p)' /\ ~Alive(q)'
    BY <1>1, <2>1, <2>2, <2>3, DeadStays DEF Alive, SetUp, InGame, SendPCs, RecvPCs
  <2> QED
    BY <2>1, <2>4, StreamsOf
<1> QED
  BY <1>1, <1>2, StepKinds, QuietStreams, LeavesStreams, GivesUpStreams,
     PlaceStreams, ResetStreams, SendStreams, MoveStreams, ResultStreams

\* The invariant is inductive, given the types and the counters.
LEMMA NextLockInv ==
  ASSUME SendsHold
  PROVE  TypeInv /\ CountInv /\ LockInv /\ [Next]_vars => LockInv'
<1> SUFFICES ASSUME TypeInv, CountInv, LockInv, [Next]_vars PROVE LockInv'
  OBVIOUS
<1>1. ASSUME NEW p \in Players, Step(p) PROVE LockInv'
  <2>1. TypeOK /\ RoleInv /\ ConnInv /\ Undecided
    BY DEF TypeInv, LockInv
  <2> QED
    BY <1>1, <2>1, RoleStep, FleetStep, ConnStep, UndecidedStep, AgreeStep, VictoryStep,
       StreamStep DEF LockInv
<1>2. CASE UNCHANGED vars
  <2>1. /\ pc' = pc /\ userGrid' = userGrid /\ advGrid' = advGrid
        /\ usrInput' = usrInput /\ data' = data /\ attacking' = attacking
        /\ outcome' = outcome /\ conn' = conn /\ rst' = rst /\ inbox' = inbox
    BY <1>2 DEF vars, boards, locals, net
  <2>2. \A r \in Players : Game!Turn(r)' <=> Game!Turn(r)
    BY <2>1, TurnFrame
  <2>3. \A r \in Players : ShotFlies(r)' <=> ShotFlies(r)
    BY <2>1, <2>2 DEF ShotFlies, Shot, Target
  <2>4. \A r \in Players, s \in Players : /\ InStep(r, s)' <=> InStep(r, s)
                                          /\ Leftover(r, s)' <=> Leftover(r, s)
    BY <2>1, <2>2, <2>3 DEF InStep, Leftover, Attacks, Defends, Between, Alive,
       Waits, WaitsResult, Answers, ShotFell, Answer, Target, Shot, Afloat
  <2>5. Streams'
    BY <2>1, <2>4, PeerFacts DEF LockInv, Streams, Alive
  <2>6. RoleInv' /\ FleetInv' /\ ConnInv' /\ Undecided'
    BY <2>1 DEF LockInv, RoleInv, FleetInv, ConnInv, Undecided, Decided, Shot, Ships,
                Empty, Alive
  <2>7. Agree' /\ VictoryDeserved'
    BY <2>1 DEF LockInv, Agree, VictoryDeserved, Shot, Waits, WaitsResult, Alive
  <2> QED
    BY <2>5, <2>6, <2>7 DEF LockInv
<1> QED
  BY <1>1, <1>2 DEF Next, Step

-----------------------------------------------------------------------------
(* The theorems that lock step gives.                                      *)

\* It holds before anything is placed: the server is to shoot first.
LEMMA InitLockInv == Init => LockInv
<1> SUFFICES ASSUME Init PROVE LockInv
  OBVIOUS
<1>1. \A p \in Players :
        /\ pc[p] = "place" /\ outcome[p] = "none" /\ inbox[p] = << >>
        /\ conn[p] = "none" /\ rst[p] = FALSE /\ attacking[p] = (p = "server")
        /\ userGrid[p] = [c \in Cells |-> DEFAULT]
        /\ advGrid[p] = [c \in Cells |-> DEFAULT]
  BY DEF Init
<1>2. RoleInv
  BY <1>1 DEF RoleInv
<1>3. FleetInv
  BY <1>1 DEF FleetInv, Empty, Placed, InGame, SendPCs, RecvPCs, Players
<1>4. ConnInv /\ Undecided
  BY <1>1 DEF ConnInv, Undecided, Decided, Players, Peer
<1>5. Agree /\ VictoryDeserved
  BY <1>1, PeerFacts DEF Agree, VictoryDeserved
<1>6. Streams
  <2>1. Hit(userGrid["client"]) = Hit(userGrid["server"])
    BY <1>1 DEF Players
  <2>2. Game!Turn("server")
    BY <2>1, TurnCounts
  <2>3. \A p \in Players : Alive(p) /\ Between(p)
    BY <1>1 DEF Alive, Between, Waits, WaitsResult, Answers, SetUp
  <2>4. InStep("server", "client")
    BY <1>1, <2>2, <2>3 DEF InStep, Attacks, Defends, Players
  <2> QED
    BY <2>3, <2>4 DEF Streams, Players, Peer
<1> QED
  BY <1>2, <1>3, <1>4, <1>5, <1>6 DEF LockInv

\* As long as no send is given up the two programs move in lock step,
\* although nothing in a byte says what it is or which turn it belongs to.
THEOREM LockStep == SendsHold => (Spec => []LockInv)
<1> SUFFICES ASSUME SendsHold PROVE Spec => []LockInv
  OBVIOUS
<1> QED
  BY InitTypeInv, NextTypeInv, InitCountInv, NextCountInv, InitLockInv, NextLockInv,
     PTL DEF Spec

\* What lock step says of the boards, the turns and the results.
LEMMA LockImpliesBoards == LockInv => BoardsAgree
<1> SUFFICES ASSUME LockInv, NEW p \in Players, NEW c \in Cells
             PROVE  \/ advGrid[p][c] = userGrid[Peer(p)][c]
                    \/ /\ advGrid[p][c] = DEFAULT
                       /\ \/ userGrid[Peer(p)][c] = BOAT
                          \/ c = usrInput[p] /\ (WaitsResult(p) \/ ~Playing(p))
  BY DEF BoardsAgree
<1>1. ~Alive(p) => ~Playing(p)
  BY DEF Alive, Playing
<1> QED
  BY <1>1 DEF LockInv, Agree, Shot, Waits

LEMMA LockImpliesTurns == LockInv => TurnsAlternate
<1> SUFFICES ASSUME LockInv, Playing("server"), Playing("client")
             PROVE  /\ \E p \in Players : attacking[p]
                    /\ (\A p \in Players : attacking[p]) =>
                         \E p \in Players : WaitsResult(p) /\ inbox[p] # << >>
  BY DEF TurnsAlternate
<1>1. \A p \in Players : Alive(p)
  BY DEF Alive, Playing, Players
<1>2. PICK a \in Players : InStep(a, Peer(a))
  BY <1>1 DEF LockInv, Streams
<1>3. \A p \in Players : /\ Waits(p) => attacking[p] /\ WaitsResult(p)
                         /\ Answers(p) => ~attacking[p]
  BY DEF LockInv, RoleInv, Waits, WaitsResult, Answers
<1>4. attacking[a]
  BY <1>2, <1>3 DEF InStep, Attacks
<1>5. attacking[Peer(a)] => WaitsResult(a) /\ inbox[a] # << >>
  <2> DEFINE d == Peer(a)
  <2>1. d \in Players /\ d = Peer(a)
    BY PeerFacts
  <2> HIDE DEF d
  <2>2. \/ Defends(d) \/ Answers(d)
        \/ Waits(a) /\ inbox[a] = <<Answer(a)>>
        \/ Waits(a) /\ inbox[a] = <<Answer(a), Shot(d)>>
    BY <1>2, <2>1 DEF InStep
  <2>3. Defends(d) \/ Answers(d) => ~attacking[d]
    BY <1>3, <2>1 DEF Defends
  <2>4. Waits(a) => WaitsResult(a)
    BY DEF Waits
  <2>5. <<Answer(a)>> # << >> /\ <<Answer(a), Shot(d)>> # << >>
    OBVIOUS
  <2>6. attacking[d] => Waits(a) /\ inbox[a] # << >>
    BY <2>2, <2>3, <2>5
  <2> QED
    BY <2>1, <2>4, <2>6
<1> QED
  BY <1>4, <1>5, PeerFacts

LEMMA LockImpliesResult == TypeInv /\ LockInv => ResultIsGridState
<1> SUFFICES ASSUME TypeInv, LockInv, NEW p \in Players,
                    WaitsResult(p), inbox[p] # << >>
             PROVE  LET byte == Head(inbox[p])
                        cell == userGrid[Peer(p)][usrInput[p]]
                    IN  \/ byte = FORFEIT
                        \/ byte = BOAT /\ cell = SUNKEN_BOAT
                        \/ byte = MISSED_SHOT /\ cell = MISSED_SHOT
  BY DEF ResultIsGridState
<1>1. Head(inbox[p]) # FORFEIT => ShotFell(p) /\ Head(inbox[p]) = Answer(p)
  BY ResultRead DEF TypeInv, LockInv, Waits
<1> QED
  BY <1>1 DEF ShotFell, Answer, Target, Shot, MISSED_SHOT, SUNKEN_BOAT

\* As long as no send is given up, what a player knows of the board of the
\* other is true, and misses at most the result that is on its way.
THEOREM BoardsStayEqual == SendsHold => (Spec => []BoardsAgree)
<1> SUFFICES ASSUME SendsHold PROVE Spec => []BoardsAgree
  OBVIOUS
<1> QED
  BY LockStep, LockImpliesBoards, PTL

\* Each program counts its own turns, and yet the two never both wait for a
\* move, and both attack only while a result is on its way.
THEOREM TurnsAreTaken == SendsHold => (Spec => []TurnsAlternate)
<1> SUFFICES ASSUME SendsHold PROVE Spec => []TurnsAlternate
  OBVIOUS
<1> QED
  BY LockStep, LockImpliesTurns, PTL

\* Whoever is told it won has sunk every boat of an opponent that knows it
\* lost, or faces one that gave up.
THEOREM VictoriesAreDeserved == SendsHold => (Spec => []VictoryDeserved)
<1> SUFFICES ASSUME SendsHold PROVE Spec => []VictoryDeserved
  OBVIOUS
<1>1. LockInv => VictoryDeserved
  BY DEF LockInv
<1> QED
  BY <1>1, LockStep, PTL

\* The byte taken for the result of a shot, if it is no FORFEIT, is the state of
\* the cell shot at, and neither the move that follows it nor an older result.
THEOREM ResultsAreResults == SendsHold => (Spec => []ResultIsGridState)
<1> SUFFICES ASSUME SendsHold PROVE Spec => []ResultIsGridState
  OBVIOUS
<1> QED
  BY LockStep, InitTypeInv, NextTypeInv, LockImpliesResult, PTL DEF Spec

-----------------------------------------------------------------------------
(* Nobody waits in vain: what a program that ended has left behind, and    *)
(* what lock step says of two programs in recv().                          *)

\* A program that ended has closed its socket, if there was a connection, and
\* there is none before both programs have left their set-up.
ShutInv ==
  \A p \in Players :
    /\ pc[p] \in Ended /\ conn["client"] # "none" => conn[p] = "closed"
    /\ pc[p] \in {"place", "connect"} => conn["client"] = "none"

\* How a program ends, and what the end leaves to happen.
LEMMA EndSteps ==
  ASSUME TypeOK, NEW p \in Players, Step(p)
  PROVE  /\ pc'[p] \in {"place", "connect"} => pc[p] \in {"place", "connect"}
         /\ pc'[p] \in Ended => \/ pc[p] \in Ended /\ (UNCHANGED net \/ ResetArrives(p))
                                \/ Shut(p)
                                \/ pc[p] = "connect" /\ UNCHANGED net
<1> USE DEF SetUp, InGame, SendPCs, RecvPCs, Ended
<1>1. pc \in [Players -> PCs]
  BY DEF TypeOK
<1>2. CASE Program(p)
  BY <1>1, <1>2 DEF Program, Accept, Register, LoopTest, ClearReturns, CheckCell,
         SendSucceeds, AfterSend, Conclude, NextTurn, SendKilled, RecvFails,
         RecvStale, RecvFailed, OpponentForfeits, HandleResult, HandleMove,
         CloseSocket, Goto
<1>3. CASE User(p)
  BY <1>1, <1>3 DEF User, PlaceBoats, EnterCell, PromptForfeit, PromptInterrupted,
         GiveUpAtPrompt, ClearInterrupted, CheckCell, RecvInterrupted, RecvFailed,
         Signal, Kill, Goto
<1>4. CASE System(p)
  BY <1>1, <1>4 DEF System, Listen, AcceptFails, Connect, SetUpFails, SendFails,
         AfterSend, Conclude, NextTurn, ResetArrives, Goto
<1> QED
  BY <1>2, <1>3, <1>4 DEF Step

\* The connection begins with connect(), which needs a server in accept().
LEMMA ConnectionStarts ==
  ASSUME TypeOK, NEW p \in Players, Step(p)
  PROVE  /\ conn["client"] # "none" => conn'["client"] # "none"
         /\ conn'["client"] # "none" =>
              conn["client"] # "none" \/ (p = "client" /\ Connect)
         /\ \A q \in Players : q # p => conn'[q] = conn[q]
<1>1. conn \in [Players -> {"none", "open", "reset", "closed"}]
  BY DEF TypeOK
<1>2. CASE UNCHANGED net
  BY <1>2 DEF net
<1>3. CASE Shut(p)
  <2>1. UNCHANGED net \/ (conn["client"] # "none" /\ conn' = [conn EXCEPT ![p] = "closed"])
    BY <1>3 DEF Shut
  <2>2. "closed" # "none" /\ "client" \in Players
    BY DEF Players
  <2> QED
    BY <1>1, <2>1, <2>2 DEF net
<1>4. CASE ResetArrives(p)
  BY <1>1, <1>4 DEF ResetArrives
<1>5. CASE Transmit(p, Outgoing(p)) \/ \E b \in Bytes : ReadByte(p, b)
  BY <1>5 DEF Transmit, ReadByte
<1>6. CASE (p = "client" /\ Connect) \/ (p = "server" /\ Accept)
  <2>0. "client" \in Players /\ "server" \in Players
    BY DEF Players
  <2>1. CASE p = "client" /\ Connect
    <3>1. conn' = [conn EXCEPT !["client"] = "open"]
      BY <2>1 DEF Connect
    <3> QED
      BY <1>1, <2>0, <2>1, <3>1
  <2>2. CASE p = "server" /\ Accept
    <3>1. conn' = [conn EXCEPT !["server"] = "open"] /\ conn["client"] # "none"
      BY <2>2 DEF Accept
    <3> QED
      BY <1>1, <2>0, <2>2, <3>1
  <2> QED
    BY <1>6, <2>1, <2>2
<1> QED
  BY <1>2, <1>3, <1>4, <1>5, <1>6, ConnSteps

LEMMA ShutStep ==
  ASSUME TypeOK, ShutInv, NEW p \in Players, Step(p)
  PROVE  ShutInv'
<1>0. /\ pc \in [Players -> PCs]
      /\ conn \in [Players -> {"none", "open", "reset", "closed"}]
      /\ "client" \in Players
  BY DEF TypeOK, Players
<1>1. CASE p = "client" /\ Connect
  <2>1. /\ pc["server"] = "accept" /\ pc' = [pc EXCEPT !["client"] = "register"]
    BY <1>1 DEF Connect, Goto
  <2>2. \A q \in Players : pc'[q] \in {"accept", "register"}
    BY <1>0, <2>1 DEF Players
  <2> QED
    BY <2>2 DEF ShutInv, Ended
<1>2. CASE ~(p = "client" /\ Connect)
  <2>0. conn'["client"] # "none" <=> conn["client"] # "none"
    BY <1>2, ConnectionStarts
  <2>1. ASSUME NEW q \in Players, q # p
        PROVE  /\ pc'[q] \in Ended /\ conn'["client"] # "none" => conn'[q] = "closed"
               /\ pc'[q] \in {"place", "connect"} => conn'["client"] = "none"
    <3>1. pc'[q] = pc[q] /\ conn'[q] = conn[q]
      BY <2>1, OthersUnchanged, ConnectionStarts
    <3> QED
      BY <2>0, <3>1 DEF ShutInv
  <2>2. pc'[p] \in {"place", "connect"} => conn'["client"] = "none"
    BY <2>0, EndSteps DEF ShutInv
  <2>3. ASSUME pc'[p] \in Ended, conn'["client"] # "none" PROVE conn'[p] = "closed"
    <3>1. CASE pc[p] \in Ended /\ (UNCHANGED net \/ ResetArrives(p))
      BY <2>0, <2>3, <3>1 DEF ShutInv, ResetArrives, net
    <3>2. CASE Shut(p)
      BY <1>0, <2>0, <2>3, <3>2 DEF Shut
    <3>3. CASE pc[p] = "connect"
      BY <2>0, <2>3, <3>3 DEF ShutInv
    <3> QED
      BY <2>3, <3>1, <3>2, <3>3, EndSteps
  <2> QED
    BY <2>1, <2>2, <2>3 DEF ShutInv
<1> QED
  BY <1>1, <1>2

LEMMA NextShutInv == TypeOK /\ ShutInv /\ [Next]_vars => ShutInv'
<1> SUFFICES ASSUME TypeOK, ShutInv, [Next]_vars PROVE ShutInv'
  OBVIOUS
<1>1. CASE UNCHANGED vars
  BY <1>1 DEF vars, net, ShutInv
<1>2. ASSUME NEW p \in Players, Step(p) PROVE ShutInv'
  BY <1>2, ShutStep
<1> QED
  BY <1>1, <1>2 DEF Next, Step

\* Of two programs in recv(), one has a byte to read.
LEMMA LockImpliesProgress == LockInv /\ ShutInv => NobodyWaitsInVain
<1> SUFFICES ASSUME LockInv, ShutInv, NEW p \in Players, Blocked(p)
             PROVE  pc[Peer(p)] \notin Ended /\ ~Blocked(Peer(p))
  BY DEF NobodyWaitsInVain
<1> DEFINE q == Peer(p)
<1>1. q \in Players /\ p = Peer(q) /\ q = Peer(p)
  BY PeerFacts
<1> HIDE DEF q
<1>2. pc[p] \in RecvPCs /\ inbox[p] = << >> /\ conn[q] # "closed"
  BY <1>1 DEF Blocked, NothingToCome
<1>3. conn["client"] # "none"
  BY <1>2 DEF LockInv, FleetInv, InGame
<1>4. pc[q] \notin Ended
  BY <1>1, <1>2, <1>3 DEF ShutInv
<1>5. ASSUME Blocked(q) PROVE FALSE
  <2>1. pc[q] \in RecvPCs /\ inbox[q] = << >>
    BY <1>5 DEF Blocked
  <2>2. Alive(p) /\ Alive(q)
    BY <1>2, <2>1 DEF Alive, InGame
  <2>3. InStep(p, q) \/ InStep(q, p)
    BY <1>1, <2>2, StreamsOf DEF LockInv
  <2>4. ASSUME NEW a \in Players, NEW d \in Players, InStep(a, d),
               pc[a] \in RecvPCs, inbox[a] = << >>, pc[d] \in RecvPCs, inbox[d] = << >>
        PROVE  FALSE
    <3>1. ~Attacks(a) /\ ~Attacks(d) /\ ~Answers(a) /\ ~Answers(d) /\ pc[d] # "sendForfeit"
      BY <2>4 DEF RecvPCs, Attacks, Between, Waits, WaitsResult, Answers, LockInv, RoleInv
    <3> QED
      BY <2>4, <3>1 DEF InStep
  <2> QED
    BY <1>1, <1>2, <2>1, <2>3, <2>4
<1> QED
  BY <1>1, <1>4, <1>5

\* recv() has no timeout and needs none: whoever is blocked in it waits for a
\* program that is there and not blocked, as long as no send is given up.
THEOREM RecvReturns == SendsHold => (Spec => []NobodyWaitsInVain)
<1> SUFFICES ASSUME SendsHold PROVE Spec => []NobodyWaitsInVain
  OBVIOUS
<1>1. Init => ShutInv
  BY DEF Init, ShutInv, Ended, Players
<1>2. TypeInv => TypeOK
  BY DEF TypeInv
<1> QED
  BY <1>1, <1>2, InitTypeInv, NextTypeInv, NextShutInv, LockStep, LockImpliesProgress,
     PTL DEF Spec

-----------------------------------------------------------------------------
(* The game of BattleshipGame.                                             *)

\* The game and the programs name the same cells, players and marks.
LEMMA GameNames ==
  /\ Game!Cells = Cells /\ Game!Players = Players
  /\ \A r : Game!Peer(r) = Peer(r) /\ (Game!Afloat(r) <=> Afloat(r))
  /\ Game!DEFAULT = DEFAULT /\ Game!BOAT = BOAT
  /\ Game!MISSED_SHOT = MISSED_SHOT /\ Game!SUNKEN_BOAT = SUNKEN_BOAT
  BY DEF Game!Cells, Cells, Game!Players, Players, Game!Peer, Peer, Game!Afloat, Afloat,
         Game!DEFAULT, DEFAULT, Game!BOAT, BOAT, Game!MISSED_SHOT, MISSED_SHOT,
         Game!SUNKEN_BOAT, SUNKEN_BOAT

\* In the game both fleets are placed.
LEMMA FleetsPlaced ==
  ASSUME TypeInv, LockInv, NEW p \in Players, pc[p] \in InGame, NEW r \in Players
  PROVE  Cardinality(Ships(r)) = BoatNum /\ Game!Placed(r)
<1>1. conn["client"] # "none"
  BY DEF LockInv, FleetInv
<1>2. Cardinality(Ships(r)) = BoatNum
  BY <1>1 DEF LockInv, FleetInv
<1>3. BoatNum # 0
  BY BoatAssumption, GridAssumption
<1>4. Ships(r) # {}
  BY <1>2, <1>3, FS_EmptySet
<1>5. Game!Placed(r)
  BY <1>4, GameNames DEF Game!Placed, Ships, DEFAULT, BOAT, SUNKEN_BOAT
<1> QED
  BY <1>2, <1>5

\* A program that does not wait, and has not just lost, sees boats afloat on
\* both boards.
LEMMA BothAfloat ==
  ASSUME TypeInv, CountInv, LockInv, NEW p \in Players, NEW q, q = Peer(p),
         pc[p] \in InGame, ~Waits(p)
  PROVE  /\ Afloat(q)
         /\ Afloat(p) <=> userBoats[p] # 0
<1>1. q \in Players
  BY PeerFacts
<1>2. Afloat(q)
  BY <1>1, FleetsPlaced, OpponentAfloat DEF Alive
<1>3. userBoats[p] = Cardinality(Fleet(p))
  BY DEF CountInv, Active
<1>4. Cardinality(Fleet(p)) = 0 <=> Fleet(p) = {}
  BY CellSetsFinite, FS_EmptySet DEF Fleet
<1> QED
  BY <1>2, <1>3, <1>4 DEF Afloat, Fleet

\* Placing the boats is the first move of the game.
LEMMA PlaceIsPlace ==
  ASSUME TypeInv, LockInv, NEW p \in Players, PlaceBoats(p)
  PROVE  Game!Next
<1>1. Empty(p) /\ pc[p] = "place"
  BY DEF PlaceBoats, LockInv, FleetInv
<1>2. ~Game!Placed(p)
  BY <1>1, GameNames DEF Game!Placed, Empty
<1>3. Game!Place(p)
  BY <1>2, GameNames, SameCardinality DEF PlaceBoats, Game!Place
<1> QED
  BY <1>3, GameNames DEF Game!Next

\* The shot of the game takes place when the defender reads the move: the
\* attacker was entitled to it when it was sent, and still is.
LEMMA MoveIsShot ==
  ASSUME TypeInv, CountInv, LockInv, NEW p \in Players, NEW b \in Bytes,
         HandleMove(p, b)
  PROVE  Game!Next
<1> DEFINE q == Peer(p)
<1>1. q \in Players /\ q = Peer(p) /\ p = Peer(q)
  BY PeerFacts
<1>2. \A r \in Players : r = p \/ r = q
  BY DEF Players, Peer
<1> HIDE DEF q
<1>3. b = Shot(q) /\ b \in Cells /\ ShotFlies(q) /\ Alive(p)
  BY <1>1, MoveRead DEF TypeInv, LockInv
<1>4. userGrid[p][b] \in {DEFAULT, BOAT} /\ outcome[q] = "none" /\ Game!Turn(q)
  BY <1>1, <1>3 DEF ShotFlies, Target
<1>5. outcome[p] = "none"
  BY <1>3 DEF LockInv, Undecided, Decided
<1>6. pc[p] = "recvMove"
  BY DEF HandleMove
<1>7. Afloat(q) /\ Afloat(p)
  <2>1. pc[p] \in InGame /\ ~Waits(p) /\ userBoats[p] # 0
    BY <1>6 DEF InGame, RecvPCs, Waits, WaitsResult, TypeInv, CountersPositive
  <2> QED
    BY <1>1, <2>1, BothAfloat
<1>8. b \notin Game!Touched(p)
  BY <1>4, GameNames DEF Game!Touched, DEFAULT, BOAT, MISSED_SHOT, SUNKEN_BOAT
<1>9. /\ userGrid' = [userGrid EXCEPT ![p][b] =
                        IF @ = BOAT THEN SUNKEN_BOAT ELSE MISSED_SHOT]
      /\ UNCHANGED outcome
  BY DEF HandleMove, Mark
<1>10. Game!Shoot(q, b)
  BY <1>1, <1>4, <1>5, <1>7, <1>8, <1>9, <1>2, GameNames DEF Game!Shoot
<1> QED
  BY <1>1, <1>3, <1>10, GameNames DEF Game!Next

\* A verdict is told with the step that ends the game for a program.
LEMMA VerdictIsTold ==
  ASSUME TypeInv, CountInv, LockInv, NEW p \in Players, Step(p), outcome' # outcome
  PROVE  Game!Next
<1> DEFINE q == Peer(p)
<1>1. q \in Players /\ q = Peer(p)
  BY PeerFacts
<1> HIDE DEF q
<1> USE DEF Game!Tell
<1>2. CASE /\ \E b \in Bytes : HandleResult(p, b)
           /\ outcome' = [outcome EXCEPT ![p] = "won"]
           /\ advBoats'[p] = 0
  <2>1. outcome[q] = "lost"
    BY <1>1, <1>2, WonMeansLost
  <2>2. outcome[p] = "none" /\ UNCHANGED userGrid
    BY <1>2 DEF HandleResult, LockInv, Undecided, Decided, Alive, InGame, RecvPCs
  <2>3. Game!Win(p)
    BY <1>1, <1>2, <2>1, <2>2, GameNames DEF Game!Win
  <2> QED
    BY <2>3, GameNames DEF Game!Next
<1>3. CASE /\ OpponentForfeits(p)
           /\ outcome' = [outcome EXCEPT ![p] = "opponentForfeited"]
  <2>1. outcome[q] = "forfeited" /\ Alive(p)
    BY <1>1, <1>3, ForfeitRead
  <2>2. outcome[p] = "none" /\ UNCHANGED userGrid
    BY <1>3, <2>1 DEF OpponentForfeits, boards, LockInv, Undecided, Decided
  <2>3. Game!WinByForfeit(p)
    BY <1>1, <1>3, <2>1, <2>2, GameNames DEF Game!WinByForfeit
  <2> QED
    BY <2>3, GameNames DEF Game!Next
<1>4. CASE /\ pc[p] = "sendForfeit" /\ UNCHANGED boards
           /\ outcome' = [outcome EXCEPT ![p] = "forfeited"]
  <2>1. pc[p] \in InGame /\ ~Waits(p) /\ Alive(p) /\ userBoats[p] # 0
    BY <1>4 DEF InGame, SendPCs, Waits, WaitsResult, Alive, TypeInv, CountersPositive
  <2>2. Afloat(p) /\ Afloat(q)
    BY <1>1, <2>1, BothAfloat
  <2>3. outcome[p] = "none" /\ UNCHANGED userGrid
    BY <1>4, <2>1 DEF boards, LockInv, Undecided, Decided
  <2>4. Game!GiveUp(p)
    BY <1>1, <1>4, <2>2, <2>3, GameNames DEF Game!GiveUp
  <2> QED
    BY <2>4, GameNames DEF Game!Next
<1>5. CASE /\ pc[p] = "sendResult" /\ userBoats[p] = 0 /\ UNCHANGED boards
           /\ outcome' = [outcome EXCEPT ![p] = "lost"]
  <2>1. pc[p] \in InGame /\ ~Waits(p) /\ Alive(p)
    BY <1>5 DEF InGame, SendPCs, Waits, WaitsResult, Alive
  <2>2. ~Afloat(p) /\ Game!Placed(p)
    BY <1>1, <1>5, <2>1, BothAfloat, FleetsPlaced
  <2>3. outcome[p] = "none" /\ UNCHANGED userGrid
    BY <1>5, <2>1 DEF boards, LockInv, Undecided, Decided
  <2>4. Game!Lose(p)
    BY <1>5, <2>2, <2>3, GameNames DEF Game!Lose
  <2> QED
    BY <2>4, GameNames DEF Game!Next
<1> QED
  BY <1>2, <1>3, <1>4, <1>5, VerdictSteps DEF TypeInv

\* The rest of what the programs do is invisible in the game.
LEMMA OtherStepsStutter ==
  ASSUME NEW p \in Players, Step(p), outcome' = outcome
  PROVE  \/ UNCHANGED <<userGrid, outcome>>
         \/ PlaceBoats(p)
         \/ \E b \in Bytes : HandleMove(p, b)
  BY BoardSteps DEF boards, Register, HandleResult

\* The two programs, which share no memory, no clock and no turn number, play
\* the game of BattleshipGame as long as no send is given up.
THEOREM GameIsPlayed == SendsHold => (Spec => PlaysTheGame)
<1> SUFFICES ASSUME SendsHold PROVE Spec => PlaysTheGame
  OBVIOUS
<1>1. Init => Game!Init
  BY GameNames DEF Init, Game!Init
<1>2. TypeInv /\ CountInv /\ LockInv /\ [Next]_vars => [Game!Next]_(Game!vars)
  <2> SUFFICES ASSUME TypeInv, CountInv, LockInv, [Next]_vars
               PROVE  Game!Next \/ UNCHANGED <<userGrid, outcome>>
    BY DEF Game!vars
  <2>1. ASSUME NEW p \in Players, Step(p)
        PROVE  Game!Next \/ UNCHANGED <<userGrid, outcome>>
    BY <2>1, VerdictIsTold, OtherStepsStutter, PlaceIsPlace, MoveIsShot
  <2>2. CASE UNCHANGED vars
    BY <2>2 DEF vars, boards
  <2> QED
    BY <2>1, <2>2 DEF Next, Step
<1> QED
  BY <1>1, <1>2, InitTypeInv, NextTypeInv, InitCountInv, NextCountInv, LockStep, PTL
     DEF Spec, PlaysTheGame, Game!Spec

\* The theorems about the abstract game, read for the two programs.
GameFacts == INSTANCE BattleshipGameProofs WITH board <- userGrid, verdict <- outcome

\* The game the theorems of BattleshipGameProofs are about is that game.
LEMMA SameGame == PlaysTheGame => GameFacts!Spec
<1>1. Game!Init => GameFacts!Init
  BY DEF Game!Init, GameFacts!Init, Game!Players, GameFacts!Players, Game!Cells,
         GameFacts!Cells, Game!DEFAULT, GameFacts!DEFAULT
<1>2. /\ \A p : Game!Peer(p) = GameFacts!Peer(p)
      /\ Game!Players = GameFacts!Players /\ Game!Cells = GameFacts!Cells
      /\ Game!DEFAULT = GameFacts!DEFAULT /\ Game!BOAT = GameFacts!BOAT
      /\ Game!MISSED_SHOT = GameFacts!MISSED_SHOT
      /\ Game!SUNKEN_BOAT = GameFacts!SUNKEN_BOAT
      /\ \A S : Game!Cardinality(S) = GameFacts!Cardinality(S)
  BY DEF Game!Peer, GameFacts!Peer, Game!Players, GameFacts!Players, Game!Cells,
         GameFacts!Cells, Game!DEFAULT, GameFacts!DEFAULT, Game!BOAT, GameFacts!BOAT,
         Game!MISSED_SHOT, GameFacts!MISSED_SHOT, Game!SUNKEN_BOAT,
         GameFacts!SUNKEN_BOAT, Game!Cardinality, GameFacts!Cardinality
<1>3. \A p : /\ Game!Touched(p) = GameFacts!Touched(p)
             /\ Game!Afloat(p) <=> GameFacts!Afloat(p)
             /\ Game!Placed(p) <=> GameFacts!Placed(p)
             /\ Game!Turn(p) <=> GameFacts!Turn(p)
  BY <1>2 DEF Game!Touched, GameFacts!Touched, Game!Afloat, GameFacts!Afloat,
         Game!Placed, GameFacts!Placed, Game!Turn, GameFacts!Turn
<1>4. [Game!Next]_(Game!vars) => [GameFacts!Next]_(GameFacts!vars)
  BY <1>2, <1>3 DEF Game!Next, GameFacts!Next, Game!vars, GameFacts!vars, Game!Place,
         GameFacts!Place, Game!Shoot, GameFacts!Shoot, Game!Lose, GameFacts!Lose,
         Game!Win, GameFacts!Win, Game!GiveUp, GameFacts!GiveUp, Game!WinByForfeit,
         GameFacts!WinByForfeit, Game!Tell, GameFacts!Tell
<1> QED
  BY <1>1, <1>4, PTL DEF PlaysTheGame, Game!Spec, GameFacts!Spec

\* What the two users are told never contradicts itself nor the boards.
THEOREM VerdictsOfPrograms == SendsHold => (Spec => []GameFacts!VerdictsAgree)
<1> SUFFICES ASSUME SendsHold PROVE Spec => []GameFacts!VerdictsAgree
  OBVIOUS
<1>1. GameFacts!BoardAssumption
  BY GridAssumption, BoatAssumption DEF GameFacts!BoardAssumption
<1>2. GameFacts!Spec => []GameFacts!VerdictsAgree
  BY <1>1, GameFacts!VerdictsAlwaysAgree
<1> QED
  BY <1>2, GameIsPlayed, SameGame, PTL

\* The boards do not change any more once one user has been told a verdict,
\* although the other program may still run and read.
THEOREM BoardsOfPrograms == SendsHold => (Spec => GameFacts!BoardFrozen)
<1> SUFFICES ASSUME SendsHold PROVE Spec => GameFacts!BoardFrozen
  OBVIOUS
<1>1. GameFacts!BoardAssumption
  BY GridAssumption, BoatAssumption DEF GameFacts!BoardAssumption
<1>2. GameFacts!Spec => GameFacts!BoardFrozen
  BY <1>1, GameFacts!BoardsAreFrozen
<1> QED
  BY <1>2, GameIsPlayed, SameGame, PTL

=============================================================================
