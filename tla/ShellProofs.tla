----------------------------- MODULE ShellProofs -----------------------------
(***************************************************************************)
(* Theorems about Shell, for every size of the pipe, every number of       *)
(* descriptors and any number of commands.                                 *)
(***************************************************************************)
EXTENDS Shell, TLAPS

-----------------------------------------------------------------------------
(* The inductive invariant.                                                *)

Right == {"closeRead", "closeWrite", "wait2"}

Idle == {"none", "zombie", "reaped"}

\* The child that the shell waits for, or is about to.
Current(p) ==
  \/ pc[Sh] = "wait1" /\ p = child1
  \/ pc[Sh] \in Right /\ p = child2

\* What each of the two shells knows nothing of.
Labs ==
  /\ lab = 5 => /\ ~is_pipe /\ child2 = 0
                /\ pc[Sh] \in {"prompt", "wait1", "waitAny"} \cup Ended
  /\ lab = 7 => unattended = {} /\ pc[Sh] # "waitAny"
  /\ pc[Sh] \in {"pipe", "fork2"} \cup Right => is_pipe

\* Pids to come are fresh, and the second child of a line follows the first.
Numbers ==
  /\ child1 < nextPid /\ child2 < nextPid
  /\ \A p \in Pids : p >= nextPid =>
       pc[p] = "none" /\ p \notin unattended /\ out[p] = 0 /\ input[p] = "ignored"
  /\ pc[Sh] \in {"wait1", "fork2"} \cup Right => child1 \in Pids
  /\ pc[Sh] \in Right => child2 > child1
  /\ pc[Sh] \in {"wait1", "fork2"} => child2 < child1
  /\ child2 > child1 /\ ~is_pipe => pc[Sh] \in {"fork1"} \cup Ended
  /\ lab = 7 /\ pc[Sh] \in {"pipe", "fork1"} => nextPid < MaxPid
  /\ lab = 7 /\ pc[Sh] \in {"wait1", "fork2"} => nextPid <= MaxPid

\* The terminal, and some ends of the pipe in the slots of pipe_fd.
Piped(S) ==
  [f \in Fds |-> IF "r" \in S /\ f = pipe_fd["r"] THEN "r"
                 ELSE IF "w" \in S /\ f = pipe_fd["w"] THEN "w" ELSE Terminal[f]]

\* The descriptors of the shell, at each of its steps.
ShellEnds ==
  /\ pc[Sh] \in Ended => fds[Sh] = NoFds
  /\ pc[Sh] \in {"prompt", "pipe", "wait2", "waitAny"} => fds[Sh] = Terminal
  /\ pc[Sh] \in {"fork1", "wait1"} =>
       fds[Sh] = IF is_pipe THEN Piped({"r", "w"}) ELSE Terminal
  /\ pc[Sh] \in {"fork2", "closeRead"} => fds[Sh] = Piped({"r", "w"})
  /\ pc[Sh] = "closeWrite" => fds[Sh] = Piped({"w"})
  /\ is_pipe /\ pc[Sh] \in {"fork1", "wait1", "fork2"} \cup Right =>
       pipe_fd["r"] > STDERR /\ pipe_fd["w"] > pipe_fd["r"]

Holds(p) == \E f \in Fds : fds[p][f] \in {"r", "w"}

\* The dead hold nothing, and only the current child of a pipeline an end.
Holders ==
  \A p \in Pids :
    /\ pc[p] \in Idle => fds[p] = NoFds
    /\ Holds(p) => is_pipe /\ Current(p)

Foreground ==
  \A p \in Pids : pc[p] \in {"none", "reaped"} \/ p \in unattended \/ Current(p)

\* What the two children of a pipeline hold, at each of their steps.
Roles ==
  \A p \in Pids :
    /\ pc[p] \in {"closeUnused1", "dup1"} => is_pipe /\ pc[Sh] = "wait1" /\ p = child1
    /\ pc[p] \in {"closeUnused2", "dup2", "exec2"} => pc[Sh] \in Right /\ p = child2
    /\ pc[p] = "exec1" => pc[Sh] \notin Right
    /\ pc[p] \in {"closeUnused1", "dup1"} => fds[p][pipe_fd["w"]] = "w"
    /\ pc[p] \in {"closeUnused2", "dup2"} => fds[p][pipe_fd["r"]] = "r"
    /\ pc[p] \in {"exec1", "runs"} /\ is_pipe /\ pc[Sh] = "wait1" => fds[p][STDOUT] = "w"
    /\ pc[p] \in {"exec2", "runs"} /\ pc[Sh] \in Right => fds[p][STDIN] = "r"

\* What was written is in the pipe or was read.
Flow ==
  /\ \A p \in Pids :
       /\ out[p] > 0 => pc[p] = "runs" /\ is_pipe /\ pc[Sh] = "wait1" /\ p = child1
       /\ input[p] = "reading" => pc[p] = "runs" /\ pc[Sh] \in Right /\ p = child2
       /\ pc[p] \in ChildPCs \ {"runs", "zombie", "reaped"} => input[p] = "ignored"
  /\ is_pipe /\ pc[Sh] = "fork1" => received = 0 /\ buffer = 0 /\ produced = 0
  /\ is_pipe /\ pc[Sh] = "wait1" /\ pc[child1] \in {"closeUnused1", "dup1", "exec1"} =>
       received = 0 /\ buffer = 0 /\ produced = 0
  /\ is_pipe /\ pc[Sh] \in {"wait1", "fork2"} \cup Right =>
       received + buffer + out[child1] = produced

PcType == pc \in [Procs -> ShellPCs \cup ChildPCs]

Inv ==
  /\ TypeOK /\ PcType
  /\ Labs /\ Numbers
  /\ ShellEnds /\ Holders
  /\ Foreground /\ Roles
  /\ Flow /\ PipelineDelivers

-----------------------------------------------------------------------------
LEMMA ProcFacts ==
  /\ Sh \in Procs /\ Sh \notin Pids
  /\ \A p \in Pids : p \in Procs /\ p \in Nat /\ p > 0
  /\ \A p \in Procs : p # Sh => p \in Pids
  /\ 0 \in Fds /\ 1 \in Fds /\ 2 \in Fds /\ 3 \in Fds /\ 4 \in Fds
  /\ \A f \in Fds : f \in Nat
  /\ \A p \in 1..MaxPid : p \in Pids
  BY FdAssumption, RunAssumption DEF Procs, Sh, Pids, Fds

LEMMA TableFacts ==
  /\ Terminal \in [Fds -> Ends] /\ NoFds \in [Fds -> Ends]
  /\ \A f \in Fds : Terminal[f] \notin {"r", "w"} /\ NoFds[f] \notin {"r", "w"}
  /\ \A f \in Fds : f > STDERR <=> Terminal[f] = "none"
  BY ProcFacts DEF Terminal, NoFds, Ends, STDIN, STDOUT, STDERR

LEMMA InitInv == Init => Inv
<1> SUFFICES ASSUME Init PROVE Inv
  OBVIOUS
<1> USE ProcFacts, TableFacts, RunAssumption, PipeAssumption, FdAssumption
<1>1. /\ pc[Sh] = "prompt" /\ fds[Sh] = Terminal
      /\ \A p \in Pids : pc[p] = "none" /\ fds[p] = NoFds /\ out[p] = 0 /\ input[p] = "ignored"
  BY DEF Init
<1>2. TypeOK /\ PcType
  <2>1. /\ pipe_fd \in [{"r", "w"} -> Fds]
        /\ fds \in [Procs -> [Fds -> Ends]]
    BY DEF Init
  <2>2. /\ out \in [Pids -> 0..MaxOutput]
        /\ input \in [Pids -> {"ignored", "reading", "ended"}]
        /\ buffer \in 0..PipeSize /\ produced \in 0..MaxOutput /\ received \in 0..MaxOutput
    BY DEF Init
  <2>3. PcType
    BY DEF Init, PcType, ShellPCs, ChildPCs
  <2>4. child1 \in 0..MaxPid /\ child2 \in 0..MaxPid /\ nextPid \in 1..(MaxPid + 1)
    BY DEF Init
  <2> QED
    BY <1>1, <2>1, <2>2, <2>3, <2>4 DEF Init, TypeOK, ShellPCs, ChildPCs
<1>3. Labs /\ Numbers /\ ShellEnds /\ Foreground /\ Roles
  BY <1>1 DEF Init, Labs, Numbers, ShellEnds, Foreground, Roles, Ended, Right
<1>4. Holders
  BY <1>1 DEF Holders, Holds
<1>5. Flow /\ PipelineDelivers
  BY <1>1 DEF Init, Flow, PipelineDelivers, Right
<1> QED
  BY <1>2, <1>3, <1>4, <1>5 DEF Inv

-----------------------------------------------------------------------------
(* A process exits.                                                        *)

\* The shell exits: at the prompt, or because a call failed.
LEMMA ShellExitsInv ==
  Inv /\ (ExitCommand \/ PipeFails \/ Fork1Fails \/ Fork2Fails) => Inv'
<1> SUFFICES ASSUME Inv, ExitCommand \/ PipeFails \/ Fork1Fails \/ Fork2Fails PROVE Inv'
  OBVIOUS
<1> USE ProcFacts, TableFacts DEF Inv
<1>1. /\ pc[Sh] \in {"prompt", "pipe", "fork1", "fork2"}
      /\ Terminate(Sh)
      /\ UNCHANGED <<lab, nested, locals, nextPid, programs, unattended>>
  BY DEF ExitCommand, PipeFails, Fork1Fails, Fork2Fails
<1>2. /\ pc'[Sh] \in Ended
      /\ pc' \in [Procs -> ShellPCs \cup ChildPCs]
      /\ \A p \in Pids : pc'[p] = pc[p] /\ fds'[p] = fds[p]
      /\ fds' \in [Procs -> [Fds -> Ends]]
  BY <1>1 DEF Terminate, Goto, Ended, PcType, TypeOK, ShellPCs
<1>3. TypeOK' /\ PcType'
  BY <1>1, <1>2 DEF TypeOK, PcType, locals, programs, ShellPCs
<1>4. \A p \in Pids : ~Current(p) /\ Current(p)' = FALSE
  BY <1>1, <1>2 DEF Current, Right, Ended
<1>5. Labs' /\ Numbers' /\ Foreground'
  BY <1>1, <1>2, <1>4 DEF Labs, Numbers, Foreground, locals, programs, Right, Ended
<1>9. ShellEnds'
  <2>1. fds'[Sh] = NoFds
    BY <1>1 DEF Terminate, TypeOK
  <2> QED
    BY <1>2, <2>1 DEF ShellEnds, Right, Ended
<1>6. Holders'
  BY <1>1, <1>2, <1>4 DEF Holders, Holds
<1>7. Roles'
  BY <1>1, <1>2 DEF Roles, locals, programs, Right, Ended
<1>8. Flow' /\ PipelineDelivers'
  BY <1>1, <1>2 DEF Flow, PipelineDelivers, locals, programs, Right, Ended
<1> QED
  BY <1>3, <1>5, <1>6, <1>7, <1>8, <1>9

\* A child exits: it is killed, or has failed to execute a program, or has
\* come to the end of it.
LEMMA ChildExitsInv ==
  ASSUME Inv, NEW p \in Pids, KillCommand(p) \/ ExecFails(p) \/ ProgramExits(p)
  PROVE  Inv'
<1> USE ProcFacts, TableFacts DEF Inv
<1>1. /\ Terminate(p)
      /\ pc[p] \notin Idle
      /\ UNCHANGED <<lab, nested, locals, nextPid, programs, unattended>>
  BY DEF KillCommand, ExecFails, ProgramExits, Idle
<1>2. /\ pc'[p] = "zombie" /\ pc' \in [Procs -> ShellPCs \cup ChildPCs]
      /\ \A q \in Procs \ {p} : pc'[q] = pc[q] /\ fds'[q] = fds[q]
      /\ fds'[p] = NoFds /\ fds' \in [Procs -> [Fds -> Ends]]
      /\ pc'[Sh] = pc[Sh] /\ fds'[Sh] = fds[Sh]
  BY <1>1 DEF Terminate, Goto, PcType, TypeOK, ChildPCs
<1>3. TypeOK' /\ PcType'
  BY <1>1, <1>2 DEF TypeOK, PcType, locals, programs, ChildPCs
<1>4. \A q \in Pids : Current(q)' = Current(q)
  BY <1>1, <1>2 DEF Current, locals
<1>5. Labs' /\ ShellEnds'
  BY <1>1, <1>2 DEF Labs, ShellEnds, Piped, locals
<1>6. Numbers'
  BY <1>1, <1>2 DEF Numbers, Idle, locals, programs
<1>7. Foreground'
  BY <1>1, <1>2, <1>4 DEF Foreground, Idle
<1>8. Holders'
  BY <1>1, <1>2, <1>4 DEF Holders, Holds, locals
<1>9. Roles'
  BY <1>1, <1>2 DEF Roles, locals
<1>10. out[p] = 0 /\ input[p] # "reading"
  <2>1. out[p] \in Nat
    BY DEF TypeOK
  <2>2. CASE KillCommand(p)
    BY <2>1, <2>2 DEF KillCommand, Flow, Right
  <2>3. CASE ExecFails(p)
    BY <2>1, <2>3 DEF ExecFails, Flow
  <2>4. CASE ProgramExits(p)
    BY <2>4 DEF ProgramExits
  <2> QED
    BY <2>2, <2>3, <2>4
<1>11. PipelineDelivers'
  BY <1>1 DEF PipelineDelivers, locals, programs
<1>12. Flow'
  <2>1. /\ UNCHANGED <<out, input, received, buffer, produced, is_pipe, child1, child2>>
        /\ \A q \in Pids : q # p => pc'[q] = pc[q]
        /\ ~(out[p] > 0)
    BY <1>1, <1>2, <1>10 DEF locals, programs
  <2>2. \A q \in Pids :
          /\ out[q] > 0 => pc'[q] = "runs" /\ is_pipe /\ pc[Sh] = "wait1" /\ q = child1
          /\ input[q] = "reading" => pc'[q] = "runs" /\ pc[Sh] \in Right /\ q = child2
          /\ pc'[q] \in ChildPCs \ {"runs", "zombie", "reaped"} => input[q] = "ignored"
    BY <1>2, <1>10, <2>1 DEF Flow
  <2>3. is_pipe /\ pc[Sh] = "wait1" /\ pc'[child1] \in {"closeUnused1", "dup1", "exec1"} =>
          received = 0 /\ buffer = 0 /\ produced = 0
    BY <1>2, <2>1 DEF Flow, Numbers
  <2> QED
    BY <1>2, <2>1, <2>2, <2>3 DEF Flow
<1> QED
  BY <1>3, <1>5, <1>6, <1>7, <1>8, <1>9, <1>11, <1>12

-----------------------------------------------------------------------------
(* The steps of the shell.                                                 *)

LEMMA EnterInv ==
  ASSUME Inv, NEW piped \in BOOLEAN, EnterCommand(piped)
  PROVE  Inv'
<1> USE ProcFacts, TableFacts DEF Inv
<1>1. /\ lab = 7 /\ pc[Sh] = "prompt" /\ nextPid < MaxPid
      /\ is_pipe' = piped
      /\ pc'[Sh] = IF piped THEN "pipe" ELSE "fork1"
      /\ pc' \in [Procs -> ShellPCs \cup ChildPCs]
      /\ \A p \in Pids : pc'[p] = pc[p]
      /\ UNCHANGED <<lab, nested, pipe_fd, child1, child2, nextPid, fds, programs, unattended>>
  BY DEF EnterCommand, AtPrompt, Goto, PcType, ShellPCs
<1>2. TypeOK' /\ PcType'
  BY <1>1 DEF TypeOK, PcType, programs, ShellPCs
<1>3. \A p \in Pids : ~Current(p) /\ Current(p)' = FALSE
  BY <1>1 DEF Current, Right
<1>4. Labs' /\ Numbers' /\ ShellEnds' /\ Foreground'
  BY <1>1, <1>3 DEF Labs, Numbers, ShellEnds, Foreground, programs, Right, Ended
<1>5. Holders'
  BY <1>1, <1>3 DEF Holders, Holds
<1>6. Roles'
  BY <1>1 DEF Roles, Right
<1>7. Flow' /\ PipelineDelivers'
  BY <1>1 DEF Flow, PipelineDelivers, Numbers, programs, Right, Ended
<1> QED
  BY <1>2, <1>4, <1>5, <1>6, <1>7

LEMMA MinFacts ==
  ASSUME NEW S \in SUBSET Nat, NEW x \in S, \A y \in S : x <= y
  PROVE  Min(S) = x
<1>1. \A z \in S : (\A y \in S : z <= y) => z = x
  OBVIOUS
<1> QED
  BY <1>1 DEF Min

\* The two lowest free slots are those after the terminal.
LEMMA SlotFacts ==
  ASSUME Inv, pc[Sh] = "pipe"
  PROVE  Min(FreeFds(Sh)) = 3 /\ Min(FreeFds(Sh) \ {3}) = 4
<1>1. FreeFds(Sh) = {f \in Fds : f > STDERR}
  BY TableFacts DEF Inv, ShellEnds, FreeFds
<1>2. /\ FreeFds(Sh) \in SUBSET Nat /\ 3 \in FreeFds(Sh)
      /\ \A f \in FreeFds(Sh) : 3 <= f
  BY <1>1, ProcFacts DEF STDERR
<1>3. /\ FreeFds(Sh) \ {3} \in SUBSET Nat /\ 4 \in FreeFds(Sh) \ {3}
      /\ \A f \in FreeFds(Sh) \ {3} : 4 <= f
  BY <1>1, ProcFacts DEF STDERR
<1> QED
  BY <1>2, <1>3, MinFacts

LEMMA PipeInv == Inv /\ Pipe => Inv'
<1> SUFFICES ASSUME Inv, Pipe PROVE Inv'
  OBVIOUS
<1> USE ProcFacts, TableFacts DEF Inv
<1>1. /\ pipe_fd' = [e \in {"r", "w"} |-> IF e = "r" THEN 3 ELSE 4]
      /\ fds' = [fds EXCEPT ![Sh][3] = "r", ![Sh][4] = "w"]
      /\ pc[Sh] = "pipe" /\ pc'[Sh] = "fork1"
      /\ pc' \in [Procs -> ShellPCs \cup ChildPCs]
      /\ \A p \in Pids : pc'[p] = pc[p]
      /\ buffer' = 0 /\ produced' = 0 /\ received' = 0
      /\ UNCHANGED <<lab, nested, is_pipe, child1, child2, nextPid, out, input, unattended>>
  BY SlotFacts DEF Pipe, Goto, PcType, ShellPCs
<1>2. pipe_fd'["r"] = 3 /\ pipe_fd'["w"] = 4
  BY <1>1
<1>3. /\ fds' \in [Procs -> [Fds -> Ends]]
      /\ fds'[Sh] = [fds[Sh] EXCEPT ![3] = "r", ![4] = "w"]
      /\ \A p \in Pids : fds'[p] = fds[p]
  BY <1>1 DEF TypeOK, Ends
<1>4. is_pipe /\ fds[Sh] = Terminal
  BY <1>1 DEF Labs, ShellEnds
<1>5. fds'[Sh] = Piped({"r", "w"})'
  <2>1. \A f \in Fds : fds'[Sh][f] = IF f = 3 THEN "r" ELSE IF f = 4 THEN "w" ELSE Terminal[f]
    BY <1>3, <1>4
  <2> QED
    BY <1>2, <1>3, <2>1 DEF Piped
<1>6. TypeOK' /\ PcType'
  <2>1. pipe_fd' \in [{"r", "w"} -> Fds]
    BY <1>1
  <2> QED
    BY <1>1, <1>3, <2>1, RunAssumption, PipeAssumption DEF TypeOK, PcType, ShellPCs
<1>7. \A p \in Pids : ~Current(p) /\ Current(p)' = FALSE
  BY <1>1 DEF Current, Right
<1>8. Labs' /\ Numbers' /\ Foreground'
  BY <1>1, <1>7 DEF Labs, Numbers, Foreground, Right, Ended
<1>9. ShellEnds'
  BY <1>1, <1>2, <1>4, <1>5 DEF ShellEnds, Ended, Right, STDERR
<1>10. Holders'
  BY <1>1, <1>3, <1>7 DEF Holders, Holds
<1>11. Roles'
  BY <1>1, <1>3 DEF Roles, Right
<1>12. Flow' /\ PipelineDelivers'
  BY <1>1 DEF Flow, PipelineDelivers, Right
<1> QED
  BY <1>6, <1>8, <1>9, <1>10, <1>11, <1>12

\* What fork() does to the tables, in each of the three places of it.
LEMMA ForkFacts ==
  ASSUME Inv, nextPid \in Pids, NEW next \in ShellPCs, NEW start \in ChildPCs,
         ForkTo(next, start)
  PROVE  /\ nextPid' = nextPid + 1
         /\ pc' \in [Procs -> ShellPCs \cup ChildPCs]
         /\ fds' \in [Procs -> [Fds -> Ends]]
         /\ pc'[Sh] = next /\ pc'[nextPid] = start
         /\ fds'[Sh] = fds[Sh] /\ fds'[nextPid] = fds[Sh]
         /\ \A p \in Pids \ {nextPid} : pc'[p] = pc[p] /\ fds'[p] = fds[p]
         /\ pc[nextPid] = "none" /\ nextPid \notin unattended
         /\ out[nextPid] = 0 /\ input[nextPid] = "ignored"
<1> USE ProcFacts DEF Inv
<1>1. nextPid \in Procs /\ nextPid # Sh
  OBVIOUS
<1>2. /\ pc[nextPid] = "none" /\ nextPid \notin unattended
      /\ out[nextPid] = 0 /\ input[nextPid] = "ignored"
  BY DEF Numbers
<1> QED
  BY <1>1, <1>2 DEF ForkTo, PcType, TypeOK

LEMMA Fork1Inv == Inv /\ Fork1 => Inv'
<1> SUFFICES ASSUME Inv, Fork1 PROVE Inv'
  OBVIOUS
<1> USE ProcFacts, TableFacts DEF Inv
<1> DEFINE start == IF is_pipe THEN "closeUnused1" ELSE "exec1"
<1>0. PICK c : c = nextPid
  OBVIOUS
<1>1. c \in Pids /\ c <= MaxPid /\ c \in Nat /\ MaxPid \in Nat
  BY <1>0, RunAssumption DEF Fork1, Numbers, TypeOK
<1>2. /\ lab = 7 /\ pc[Sh] = "fork1"
      /\ ForkTo("wait1", start)
      /\ child1' = c
      /\ UNCHANGED <<lab, nested, is_pipe, pipe_fd, child2, programs, unattended>>
  BY <1>0 DEF Fork1
<1>3. /\ nextPid' = c + 1
      /\ pc' \in [Procs -> ShellPCs \cup ChildPCs]
      /\ fds' \in [Procs -> [Fds -> Ends]]
      /\ pc'[Sh] = "wait1" /\ pc'[c] = start
      /\ fds'[Sh] = fds[Sh] /\ fds'[c] = fds[Sh]
      /\ \A p \in Pids \ {c} : pc'[p] = pc[p] /\ fds'[p] = fds[p]
      /\ pc[c] = "none" /\ c \notin unattended
      /\ out[c] = 0 /\ input[c] = "ignored"
  BY <1>0, <1>1, <1>2, ForkFacts DEF ShellPCs, ChildPCs
<1>4. start \in ChildPCs /\ start \notin Idle
  BY DEF ChildPCs, Idle
<1>5. TypeOK' /\ PcType'
  <2>1. \A p \in Pids : pc'[p] \in ChildPCs
    BY <1>3, <1>4 DEF TypeOK
  <2> QED
    BY <1>1, <1>2, <1>3, <2>1, RunAssumption DEF TypeOK, PcType, programs, ShellPCs
<1>6. \A p \in Pids : ~Current(p) /\ (Current(p)' <=> p = c)
  BY <1>2, <1>3 DEF Current, Right
<1>7. Labs' /\ Foreground'
  BY <1>2, <1>3, <1>6 DEF Labs, Foreground, Right
<1>8. Numbers'
  BY <1>0, <1>1, <1>2, <1>3 DEF Numbers, programs, Right, Ended, TypeOK
<1>9. ShellEnds'
  BY <1>2, <1>3 DEF ShellEnds, Ended, Piped, Right
<1>10. Holders'
  <2>1. fds[Sh] = IF is_pipe THEN Piped({"r", "w"}) ELSE Terminal
    BY <1>2 DEF ShellEnds
  <2>2. ~is_pipe => ~Holds(c)'
    BY <1>3, <2>1 DEF Holds
  <2>3. \A p \in Pids \ {c} : ~Holds(p)'
    BY <1>3, <1>6 DEF Holders, Holds
  <2> QED
    BY <1>2, <1>3, <1>4, <1>6, <2>2, <2>3 DEF Holders
<1>11. Roles'
  <2>1. is_pipe => fds[Sh][pipe_fd["w"]] = "w"
    BY <1>2 DEF ShellEnds, Piped, TypeOK
  <2>2. \A p \in Pids \ {c} : pc'[p] \in {"none", "reaped"}
    BY <1>2, <1>3, <1>6 DEF Foreground, Labs
  <2> QED
    BY <1>2, <1>3, <2>1, <2>2 DEF Roles, Right
<1>12. Flow'
  BY <1>1, <1>2, <1>3, <1>4 DEF Flow, programs, Right, ChildPCs
<1>13. PipelineDelivers'
  BY <1>0, <1>1, <1>2 DEF PipelineDelivers, Numbers, programs, TypeOK
<1> QED
  BY <1>5, <1>7, <1>8, <1>9, <1>10, <1>11, <1>12, <1>13

LEMMA Fork2Inv == Inv /\ Fork2 => Inv'
<1> SUFFICES ASSUME Inv, Fork2 PROVE Inv'
  OBVIOUS
<1> USE ProcFacts, TableFacts DEF Inv
<1>0. PICK c : c = nextPid
  OBVIOUS
<1>1. c \in Pids /\ c <= MaxPid /\ c \in Nat /\ MaxPid \in Nat /\ lab = 7 /\ is_pipe
  BY <1>0, RunAssumption DEF Fork2, Numbers, Labs, TypeOK, Ended
<1>2. /\ pc[Sh] = "fork2"
      /\ ForkTo("closeRead", "closeUnused2")
      /\ child2' = c
      /\ UNCHANGED <<lab, nested, is_pipe, pipe_fd, child1, programs, unattended>>
  BY <1>0 DEF Fork2
<1>3. /\ nextPid' = c + 1
      /\ pc' \in [Procs -> ShellPCs \cup ChildPCs]
      /\ fds' \in [Procs -> [Fds -> Ends]]
      /\ pc'[Sh] = "closeRead" /\ pc'[c] = "closeUnused2"
      /\ fds'[Sh] = fds[Sh] /\ fds'[c] = fds[Sh]
      /\ \A p \in Pids \ {c} : pc'[p] = pc[p] /\ fds'[p] = fds[p]
      /\ pc[c] = "none" /\ c \notin unattended
      /\ out[c] = 0 /\ input[c] = "ignored"
  BY <1>0, <1>1, <1>2, ForkFacts DEF ShellPCs, ChildPCs
<1>5. TypeOK' /\ PcType'
  <2>1. \A p \in Pids : pc'[p] \in ChildPCs
    BY <1>3 DEF TypeOK, ChildPCs
  <2> QED
    BY <1>1, <1>2, <1>3, <2>1, RunAssumption DEF TypeOK, PcType, programs, ShellPCs
<1>6. \A p \in Pids : ~Current(p) /\ (Current(p)' <=> p = c)
  BY <1>2, <1>3 DEF Current, Right
<1>7. Labs' /\ Foreground'
  BY <1>1, <1>2, <1>3, <1>6 DEF Labs, Foreground, Right
<1>8. Numbers'
  BY <1>0, <1>1, <1>2, <1>3 DEF Numbers, programs, Right, Ended, TypeOK
<1>9. ShellEnds'
  BY <1>2, <1>3 DEF ShellEnds, Ended, Piped, Right
<1>10. Holders'
  <2>1. \A p \in Pids \ {c} : ~Holds(p)'
    BY <1>3, <1>6 DEF Holders, Holds
  <2> QED
    BY <1>1, <1>2, <1>3, <1>6, <2>1 DEF Holders, Idle
<1>11. Roles'
  <2>1. fds[Sh][pipe_fd["r"]] = "r"
    BY <1>2 DEF ShellEnds, Piped, TypeOK
  <2>2. \A p \in Pids \ {c} : pc'[p] \in {"none", "reaped"}
    BY <1>1, <1>2, <1>3, <1>6 DEF Foreground, Labs
  <2> QED
    BY <1>2, <1>3, <2>1, <2>2 DEF Roles, Right
<1>12. Flow'
  BY <1>1, <1>2, <1>3 DEF Flow, programs, Right
<1>13. PipelineDelivers'
  BY <1>0, <1>1, <1>2, <1>3 DEF PipelineDelivers, programs
<1> QED
  BY <1>5, <1>7, <1>8, <1>9, <1>10, <1>11, <1>12, <1>13

\* The shell of lab5 forks.
LEMMA LaunchInv ==
  ASSUME Inv, NEW background \in BOOLEAN, Launch(background)
  PROVE  Inv'
<1> USE ProcFacts, TableFacts DEF Inv
<1> DEFINE next == IF background THEN "prompt" ELSE "wait1"
<1>0. PICK c : c = nextPid
  OBVIOUS
<1>1. /\ c \in Pids /\ c <= MaxPid /\ c \in Nat /\ MaxPid \in Nat
      /\ lab = 5 /\ ~is_pipe /\ child2 = 0
  BY <1>0, RunAssumption DEF Launch, AtPrompt, Labs, TypeOK, Pids
<1>2. /\ pc[Sh] = "prompt"
      /\ ForkTo(next, "exec1")
      /\ child1' = c
      /\ unattended' = IF background THEN unattended \cup {c} ELSE unattended
      /\ UNCHANGED <<lab, nested, is_pipe, pipe_fd, child2, programs>>
  BY <1>0 DEF Launch, AtPrompt
<1>3. /\ nextPid' = c + 1
      /\ pc' \in [Procs -> ShellPCs \cup ChildPCs]
      /\ fds' \in [Procs -> [Fds -> Ends]]
      /\ pc'[Sh] = next /\ pc'[c] = "exec1"
      /\ fds'[Sh] = fds[Sh] /\ fds'[c] = fds[Sh]
      /\ \A p \in Pids \ {c} : pc'[p] = pc[p] /\ fds'[p] = fds[p]
      /\ pc[c] = "none" /\ c \notin unattended
      /\ out[c] = 0 /\ input[c] = "ignored"
  BY <1>0, <1>1, <1>2, ForkFacts DEF ShellPCs, ChildPCs
<1>5. TypeOK' /\ PcType'
  <2>1. \A p \in Pids : pc'[p] \in ChildPCs
    BY <1>3 DEF TypeOK, ChildPCs
  <2> QED
    BY <1>1, <1>2, <1>3, <2>1, RunAssumption DEF TypeOK, PcType, programs, ShellPCs
<1>6. \A p \in Pids : ~Current(p) /\ (Current(p)' <=> p = c /\ ~background)
  BY <1>2, <1>3 DEF Current, Right
<1>7. Labs' /\ Foreground'
  BY <1>1, <1>2, <1>3, <1>6 DEF Labs, Foreground, Right
<1>8. Numbers'
  BY <1>0, <1>1, <1>2, <1>3 DEF Numbers, programs, Right, Ended, TypeOK
<1>9. ShellEnds'
  BY <1>1, <1>2, <1>3 DEF ShellEnds, Ended, Right
<1>10. Holders'
  <2>1. \A p \in Pids : ~Holds(p)'
    BY <1>2, <1>3, <1>6 DEF Holders, Holds, ShellEnds
  <2> QED
    BY <1>2, <1>3, <2>1 DEF Holders, Idle
<1>11. Roles'
  BY <1>1, <1>2, <1>3 DEF Roles, Right
<1>12. Flow' /\ PipelineDelivers'
  BY <1>1, <1>2, <1>3 DEF Flow, PipelineDelivers, programs, Right
<1> QED
  BY <1>5, <1>7, <1>8, <1>9, <1>10, <1>11, <1>12

LEMMA LaunchFailsInv ==
  ASSUME Inv, NEW background \in BOOLEAN, LaunchFails(background)
  PROVE  Inv'
<1> USE ProcFacts, TableFacts DEF Inv
<1>1. /\ lab = 5 /\ pc[Sh] = "prompt" /\ pc'[Sh] = "waitAny"
      /\ pc' \in [Procs -> ShellPCs \cup ChildPCs]
      /\ \A p \in Pids : pc'[p] = pc[p]
      /\ UNCHANGED <<lab, nested, locals, nextPid, fds, programs, unattended>>
  BY DEF LaunchFails, AtPrompt, Goto, PcType, ShellPCs
<1>2. TypeOK' /\ PcType'
  BY <1>1 DEF TypeOK, PcType, locals, programs, ShellPCs
<1>3. \A p \in Pids : ~Current(p) /\ Current(p)' = FALSE
  BY <1>1 DEF Current, Right
<1>4. Labs' /\ Numbers' /\ ShellEnds' /\ Foreground'
  BY <1>1, <1>3 DEF Labs, Numbers, ShellEnds, Foreground, locals, programs, Right, Ended
<1>5. Holders'
  BY <1>1, <1>3 DEF Holders, Holds
<1>6. Roles'
  BY <1>1 DEF Roles, Labs, locals, Right
<1>7. Flow' /\ PipelineDelivers'
  BY <1>1 DEF Flow, PipelineDelivers, Labs, locals, programs, Right
<1> QED
  BY <1>2, <1>4, <1>5, <1>6, <1>7

\* A child is reaped, by waitpid() of its pid or of any.
LEMMA WaitAnyInv == Inv /\ WaitAnyChild => Inv'
<1> SUFFICES ASSUME Inv, WaitAnyChild PROVE Inv'
  OBVIOUS
<1> USE ProcFacts, TableFacts DEF Inv
<1>1. /\ pc[Sh] = "waitAny" /\ pc'[Sh] = "prompt" /\ lab = 5
      /\ \A p \in Pids : pc'[p] = pc[p] \/ (pc[p] = "zombie" /\ pc'[p] = "reaped")
      /\ UNCHANGED <<lab, nested, locals, nextPid, fds, programs, unattended>>
  BY DEF WaitAnyChild, Labs, TypeOK
<1>2. pc' \in [Procs -> ShellPCs \cup ChildPCs]
  <2>1. \A p \in Procs : pc'[p] \in ShellPCs \cup ChildPCs
    BY <1>1 DEF PcType, ShellPCs, ChildPCs
  <2> QED
    BY <2>1 DEF WaitAnyChild
<1>3. TypeOK' /\ PcType'
  BY <1>1, <1>2 DEF TypeOK, PcType, locals, programs, ShellPCs, ChildPCs
<1>4. \A p \in Pids : ~Current(p) /\ Current(p)' = FALSE
  BY <1>1 DEF Current, Right
<1>5. Labs' /\ Numbers' /\ ShellEnds' /\ Foreground'
  BY <1>1, <1>4 DEF Labs, Numbers, ShellEnds, Foreground, locals, programs, Right, Ended
<1>6. Holders'
  BY <1>1, <1>4 DEF Holders, Holds, Idle
<1>7. Roles'
  BY <1>1 DEF Roles, locals, Right
<1>8. Flow' /\ PipelineDelivers'
  BY <1>1 DEF Flow, PipelineDelivers, Labs, locals, programs, Right
<1> QED
  BY <1>3, <1>5, <1>6, <1>7, <1>8

LEMMA WaitInv == Inv /\ (Wait1 \/ Wait2 \/ WaitForeground) => Inv'
<1> SUFFICES ASSUME Inv, Wait1 \/ Wait2 \/ WaitForeground PROVE Inv'
  OBVIOUS
<1> USE ProcFacts, TableFacts DEF Inv
<1>1. PICK p \in Pids, next \in {"prompt", "fork2"} :
        /\ Current(p) /\ WaitFor(p, next)
        /\ \/ pc[Sh] = "wait1" /\ next = IF is_pipe THEN "fork2" ELSE "prompt"
           \/ pc[Sh] = "wait2" /\ next = "prompt" /\ is_pipe
  <2>1. CASE Wait1
    BY <2>1 DEF Wait1, Numbers, Current
  <2>2. CASE WaitForeground
    BY <2>2 DEF WaitForeground, Numbers, Labs, Current
  <2>3. CASE Wait2
    <3>1. child2 \in Pids
      BY <2>3 DEF Wait2, Numbers, TypeOK, Right, Pids
    <3> QED
      BY <2>3, <3>1 DEF Wait2, Labs, Current, Right
  <2> QED
    BY <2>1, <2>2, <2>3
<1>2. /\ pc'[Sh] = next /\ pc[p] \in {"zombie", "reaped"} /\ pc'[p] = "reaped"
      /\ \A q \in Pids \ {p} : pc'[q] = pc[q]
      /\ pc' \in [Procs -> ShellPCs \cup ChildPCs]
      /\ UNCHANGED <<lab, nested, locals, nextPid, fds, programs, unattended>>
  BY <1>1 DEF WaitFor, PcType, ShellPCs, ChildPCs, Wait1, Wait2, WaitForeground
<1>3. TypeOK' /\ PcType'
  BY <1>1, <1>2 DEF TypeOK, PcType, locals, programs, ShellPCs, ChildPCs
<1>4. \A q \in Pids : (Current(q) <=> q = p) /\ Current(q)' = FALSE
  BY <1>1, <1>2 DEF Current, Right
<1>5. Labs' /\ Foreground'
  BY <1>1, <1>2, <1>4 DEF Labs, Foreground, locals, Right
<1>6. Numbers'
  <2>1. \A q \in Pids : q >= nextPid =>
          pc'[q] = "none" /\ q \notin unattended /\ out[q] = 0 /\ input[q] = "ignored"
    BY <1>2 DEF Numbers
  <2>2. pc'[Sh] = "fork2" => child1 \in Pids /\ pc[Sh] = "wait1"
    BY <1>1, <1>2 DEF Numbers
  <2>3. child2 > child1 => is_pipe
    BY <1>1 DEF Numbers, Labs, Ended, Right
  <2> QED
    BY <1>1, <1>2, <2>1, <2>2, <2>3 DEF Numbers, locals, programs, Right
<1>7. ShellEnds'
  BY <1>1, <1>2 DEF ShellEnds, Ended, Piped, locals, Right
<1>8. Holders'
  <2>1. fds[p] = NoFds
    BY <1>2 DEF Holders, Idle
  <2>2. \A q \in Pids : ~Holds(q)
    BY <1>4, <2>1 DEF Holders, Holds
  <2> QED
    BY <1>2, <2>2 DEF Holders, Holds, Idle
<1>9. Roles'
  BY <1>1, <1>2, <1>4 DEF Roles, Current, locals, Right
<1>10. Flow' /\ PipelineDelivers'
  BY <1>1, <1>2, <1>4 DEF Flow, Current, PipelineDelivers, locals, programs, Right
<1> QED
  BY <1>3, <1>5, <1>6, <1>7, <1>8, <1>9, <1>10

LEMMA CloseInv == Inv /\ (CloseRead \/ CloseWrite) => Inv'
<1> SUFFICES ASSUME Inv, CloseRead \/ CloseWrite PROVE Inv'
  OBVIOUS
<1> USE ProcFacts, TableFacts DEF Inv
<1>1. PICK e \in {"r", "w"} :
        /\ Close(Sh, pipe_fd[e])
        /\ \/ e = "r" /\ pc[Sh] = "closeRead" /\ Goto(Sh, "closeWrite")
           \/ e = "w" /\ pc[Sh] = "closeWrite" /\ Goto(Sh, "wait2")
        /\ UNCHANGED <<lab, nested, locals, nextPid, programs, unattended>>
  BY DEF CloseRead, CloseWrite
<1>2. /\ pipe_fd["r"] \in Fds /\ pipe_fd["w"] \in Fds
      /\ pipe_fd["r"] > STDERR /\ pipe_fd["w"] > pipe_fd["r"]
      /\ is_pipe
  BY <1>1 DEF TypeOK, ShellEnds, Labs, Right
<1>3. /\ fds'[Sh] = [fds[Sh] EXCEPT ![pipe_fd[e]] = "none"]
      /\ \A p \in Pids : fds'[p] = fds[p]
      /\ fds' \in [Procs -> [Fds -> Ends]]
  BY <1>1, <1>2 DEF Close, TypeOK, Ends
<1>4. /\ pc'[Sh] = IF e = "r" THEN "closeWrite" ELSE "wait2"
      /\ pc[Sh] \in Right /\ pc'[Sh] \in Right
      /\ \A p \in Pids : pc'[p] = pc[p]
      /\ pc' \in [Procs -> ShellPCs \cup ChildPCs]
  BY <1>1 DEF Goto, PcType, ShellPCs, Right
<1>5. TypeOK' /\ PcType'
  BY <1>1, <1>3, <1>4 DEF TypeOK, PcType, locals, programs, ShellPCs, Right
<1>6. \A p \in Pids : Current(p)' = Current(p)
  BY <1>1, <1>4 DEF Current, locals, Right
<1>7. Labs' /\ Numbers' /\ Foreground'
  BY <1>1, <1>4, <1>6 DEF Labs, Numbers, Foreground, locals, programs, Right, Ended
<1>8. ShellEnds'
  <2>1. CASE e = "r"
    <3>1. fds'[Sh] = Piped({"w"})
      <4>1. fds[Sh] = Piped({"r", "w"})
        BY <1>1, <2>1 DEF ShellEnds
      <4> QED
        BY <1>2, <1>3, <2>1, <4>1 DEF Piped, STDERR
    <3> QED
      BY <1>1, <1>2, <1>4, <2>1, <3>1 DEF ShellEnds, Ended, Piped, locals
  <2>2. CASE e = "w"
    <3>1. fds'[Sh] = Terminal
      <4>1. fds[Sh] = Piped({"w"})
        BY <1>1, <2>2 DEF ShellEnds
      <4>2. Terminal[pipe_fd["w"]] = "none"
        BY <1>2 DEF STDERR
      <4>3. \A f \in Fds : fds'[Sh][f] = Terminal[f]
        BY <1>2, <1>3, <2>2, <4>1, <4>2 DEF Piped
      <4> QED
        BY <1>3, <4>3
    <3> QED
      BY <1>1, <1>2, <1>4, <2>2, <3>1 DEF ShellEnds, Ended, locals
  <2> QED
    BY <2>1, <2>2
<1>9. Holders'
  BY <1>1, <1>3, <1>4, <1>6 DEF Holders, Holds, locals
<1>10. Roles'
  BY <1>1, <1>3, <1>4 DEF Roles, locals, Right
<1>11. Flow' /\ PipelineDelivers'
  BY <1>1, <1>4 DEF Flow, PipelineDelivers, locals, programs, Right
<1> QED
  BY <1>5, <1>7, <1>8, <1>9, <1>10, <1>11

-----------------------------------------------------------------------------
(* The steps of the children.                                              *)

\* The slots of the pipe in a child of a pipeline.
LEMMA SlotsOfChild ==
  ASSUME Inv, NEW p \in Pids, pc[p] \in {"closeUnused1", "dup1", "closeUnused2", "dup2"}
  PROVE  /\ pipe_fd["r"] \in Fds /\ pipe_fd["w"] \in Fds
         /\ pipe_fd["r"] > STDERR /\ pipe_fd["w"] > STDERR /\ pipe_fd["r"] # pipe_fd["w"]
         /\ is_pipe /\ Current(p)
<1> USE ProcFacts DEF Inv
<1>1. is_pipe /\ Current(p) /\ pc[Sh] \in {"wait1"} \cup Right
  BY DEF Roles, Labs, Current
<1>2. pipe_fd["r"] \in Fds /\ pipe_fd["w"] \in Fds
  BY DEF TypeOK
<1> QED
  BY <1>1, <1>2 DEF ShellEnds, STDERR

LEMMA ChildFdInv ==
  ASSUME Inv, NEW p \in Pids,
         CloseUnused1(p) \/ RedirectOutput(p) \/ CloseUnused2(p) \/ RedirectInput(p)
  PROVE  Inv'
<1> USE ProcFacts, TableFacts DEF Inv
<1> DEFINE r == pipe_fd["r"]
           w == pipe_fd["w"]
<1>1. PICK l \in ChildPCs, f \in Fds, e \in Ends :
        /\ Goto(p, l)
        /\ fds' = [fds EXCEPT ![p][f] = e]
        /\ \/ pc[p] = "closeUnused1" /\ l = "dup1" /\ f = r
           \/ pc[p] = "dup1" /\ l = "exec1" /\ f = STDOUT /\ e = fds[p][w]
           \/ pc[p] = "closeUnused2" /\ l = "dup2" /\ f = w
           \/ pc[p] = "dup2" /\ l = "exec2" /\ f = STDIN /\ e = fds[p][r]
  <2>1. CASE CloseUnused1(p)
    BY <2>1, SlotsOfChild DEF CloseUnused1, Close, ChildPCs, Ends
  <2>2. CASE CloseUnused2(p)
    BY <2>2, SlotsOfChild DEF CloseUnused2, Close, ChildPCs, Ends
  <2>3. CASE RedirectOutput(p)
    <3>1. fds[p][w] \in Ends
      BY <2>3, SlotsOfChild DEF RedirectOutput, TypeOK
    <3> QED
      BY <2>3, <3>1 DEF RedirectOutput, Dup2, ChildPCs, STDOUT
  <2>4. CASE RedirectInput(p)
    <3>1. fds[p][r] \in Ends
      BY <2>4, SlotsOfChild DEF RedirectInput, TypeOK
    <3> QED
      BY <2>4, <3>1 DEF RedirectInput, Dup2, ChildPCs, STDIN
  <2> QED
    BY <2>1, <2>2, <2>3, <2>4
<1>2. /\ UNCHANGED <<lab, nested, locals, nextPid, programs, unattended>>
      /\ pc[p] \in {"closeUnused1", "dup1", "closeUnused2", "dup2"}
      /\ pc'[p] = l /\ pc'[Sh] = pc[Sh]
      /\ \A q \in Pids \ {p} : pc'[q] = pc[q] /\ fds'[q] = fds[q]
      /\ pc' \in [Procs -> ShellPCs \cup ChildPCs]
      /\ fds' \in [Procs -> [Fds -> Ends]]
      /\ fds'[p] = [fds[p] EXCEPT ![f] = e] /\ fds'[Sh] = fds[Sh]
  BY <1>1 DEF CloseUnused1, CloseUnused2, RedirectOutput, RedirectInput, Goto, PcType, TypeOK
<1>3. /\ r \in Fds /\ w \in Fds /\ r > STDERR /\ w > STDERR /\ r # w
      /\ is_pipe /\ Current(p)
  BY <1>2, SlotsOfChild
<1>4. TypeOK' /\ PcType'
  BY <1>1, <1>2 DEF TypeOK, PcType, locals, programs
<1>5. \A q \in Pids : Current(q)' = Current(q)
  BY <1>2 DEF Current, locals
<1>6. Labs' /\ ShellEnds' /\ Foreground'
  BY <1>2, <1>3, <1>5 DEF Labs, ShellEnds, Piped, Foreground, locals
<1>7. Numbers'
  BY <1>2 DEF Numbers, locals, programs
<1>8. Holders'
  BY <1>1, <1>2, <1>3, <1>5 DEF Holders, Holds, Idle, locals
<1>9. Roles'
  <2>1. \A q \in Pids \ {p} : /\ pc'[q] = pc[q] /\ fds'[q] = fds[q]
    BY <1>2
  <2>2. /\ pc[p] = "closeUnused1" => fds'[p][w] = "w"
        /\ pc[p] = "dup1" => fds'[p][STDOUT] = "w"
        /\ pc[p] = "closeUnused2" => fds'[p][r] = "r"
        /\ pc[p] = "dup2" => fds'[p][STDIN] = "r"
    BY <1>1, <1>2, <1>3 DEF Roles, TypeOK
  <2>3. /\ pc[p] \in {"closeUnused1", "dup1"} => pc[Sh] = "wait1" /\ p = child1
        /\ pc[p] \in {"closeUnused2", "dup2"} => pc[Sh] \in Right /\ p = child2
    BY DEF Roles
  <2> QED
    BY <1>1, <1>2, <1>3, <2>1, <2>2, <2>3 DEF Roles, Right, locals
<1>10. PipelineDelivers'
  BY <1>2 DEF PipelineDelivers, locals, programs
<1>11. Flow'
  <2>1. /\ UNCHANGED <<out, input, received, buffer, produced, is_pipe, child1, child2>>
        /\ l \in {"dup1", "exec1", "dup2", "exec2"}
        /\ input[p] = "ignored" /\ ~(out[p] > 0)
    BY <1>1, <1>2 DEF Flow, locals, programs, ChildPCs
  <2>2. \A q \in Pids :
          /\ out[q] > 0 => pc'[q] = "runs" /\ is_pipe /\ pc[Sh] = "wait1" /\ q = child1
          /\ input[q] = "reading" => pc'[q] = "runs" /\ pc[Sh] \in Right /\ q = child2
          /\ pc'[q] \in ChildPCs \ {"runs", "zombie", "reaped"} => input[q] = "ignored"
    BY <1>2, <2>1 DEF Flow
  <2>3. is_pipe /\ pc[Sh] = "wait1" /\ pc'[child1] \in {"closeUnused1", "dup1", "exec1"} =>
          received = 0 /\ buffer = 0 /\ produced = 0
    BY <1>1, <1>2, <2>1 DEF Flow, Numbers
  <2> QED
    BY <1>2, <2>1, <2>2, <2>3 DEF Flow
<1> QED
  BY <1>4, <1>6, <1>7, <1>8, <1>9, <1>10, <1>11

\* What concerns the programs only leaves the rest of the invariant alone.
LEMMA ProgramFrame ==
  ASSUME Inv, UNCHANGED <<lab, nested, locals, nextPid, fds, unattended>>,
         NEW p \in Pids, pc[p] \in {"exec1", "exec2", "runs"}, pc'[p] = "runs",
         pc'[Sh] = pc[Sh], \A q \in Pids \ {p} : pc'[q] = pc[q]
  PROVE  /\ Labs' /\ ShellEnds' /\ Foreground' /\ Holders' /\ Roles'
         /\ \A q \in Pids : Current(q)' = Current(q)
<1> USE ProcFacts DEF Inv
<1>1. \A q \in Pids : Current(q)' = Current(q)
  BY DEF Current, locals
<1>2. Labs' /\ ShellEnds' /\ Foreground'
  BY <1>1 DEF Labs, ShellEnds, Piped, Foreground, locals
<1>3. Holders'
  BY <1>1 DEF Holders, Holds, Idle, locals
<1>4. Roles'
  BY DEF Roles, Right, locals
<1> QED
  BY <1>1, <1>2, <1>3, <1>4

LEMMA ExecvInv ==
  ASSUME Inv, NEW p \in Pids, Execv(p)
  PROVE  Inv'
<1> USE ProcFacts, RunAssumption DEF Inv
<1> DEFINE left  == is_pipe /\ p = child1
           right == is_pipe /\ p = child2
<1>1. PICK bytes \in 0..MaxOutput, does \in {"ignored", "reading"} :
        /\ out' = [out EXCEPT ![p] = bytes]
        /\ input' = [input EXCEPT ![p] = does]
        /\ produced' = IF left THEN bytes ELSE produced
        /\ ~left => bytes = 0
        /\ ~right => does = "ignored"
  <2>1. PICK bytes \in IF left THEN 0..MaxOutput ELSE {0} :
          /\ out' = [out EXCEPT ![p] = bytes]
          /\ produced' = IF left THEN bytes ELSE produced
    BY DEF Execv
  <2>2. PICK does \in IF right THEN {"ignored", "reading"} ELSE {"ignored"} :
          input' = [input EXCEPT ![p] = does]
    BY DEF Execv
  <2>3. bytes \in 0..MaxOutput /\ does \in {"ignored", "reading"}
    BY <2>1, <2>2
  <2> QED
    BY <2>1, <2>2, <2>3
<1>2. /\ pc[p] \in {"exec1", "exec2"} /\ pc'[p] = "runs" /\ pc'[Sh] = pc[Sh]
      /\ \A q \in Pids \ {p} : pc'[q] = pc[q]
      /\ pc' \in [Procs -> ShellPCs \cup ChildPCs]
      /\ UNCHANGED <<lab, nested, locals, nextPid, fds, buffer, received, unattended>>
  BY DEF Execv, Goto, PcType, ChildPCs
<1>3. Labs' /\ ShellEnds' /\ Foreground' /\ Holders' /\ Roles'
  BY <1>2, ProgramFrame
<1>4. TypeOK' /\ PcType'
  <2>1. out' \in [Pids -> 0..MaxOutput] /\ input' \in [Pids -> {"ignored", "reading", "ended"}]
    BY <1>1 DEF TypeOK
  <2> QED
    BY <1>1, <1>2, <2>1 DEF TypeOK, PcType, locals, ChildPCs
<1>5. Numbers'
  BY <1>1, <1>2 DEF Numbers, locals, TypeOK
\* A program is executed in the child that the shell waits for, in a pipeline.
<1>6. is_pipe => Current(p)
  <2>1. lab = 7 => Current(p)
    BY <1>2 DEF Foreground, Labs
  <2> QED
    BY <2>1 DEF Labs, TypeOK
<1>7. /\ left => pc[Sh] = "wait1" /\ pc[p] = "exec1"
      /\ right => pc[Sh] \in Right /\ p = child2
      /\ input[p] = "ignored" /\ out[p] = 0
  <2>1. out[p] \in Nat
    BY DEF TypeOK
  <2>2. left => pc[Sh] = "wait1" /\ pc[p] = "exec1"
    <3>1. left /\ pc[Sh] \in Right => FALSE
      BY <1>6 DEF Current, Numbers, Right
    <3> QED
      BY <1>2, <1>6, <3>1 DEF Current, Roles
  <2>3. right => pc[Sh] \in Right /\ p = child2
    <3>1. ~(right /\ pc[Sh] = "wait1")
      BY <1>6 DEF Current, Right, Numbers
    <3> QED
      BY <1>6, <3>1 DEF Current
  <2> QED
    BY <1>2, <2>1, <2>2, <2>3 DEF Flow, ChildPCs
<1>8. Flow'
  <2>1. \A q \in Pids \ {p} : out'[q] = out[q] /\ input'[q] = input[q]
    BY <1>1 DEF TypeOK
  <2>2. out'[p] = bytes /\ input'[p] = does
    BY <1>1 DEF TypeOK
  <2>3. \A q \in Pids :
          /\ out'[q] > 0 => pc'[q] = "runs" /\ is_pipe /\ pc[Sh] = "wait1" /\ q = child1
          /\ input'[q] = "reading" => pc'[q] = "runs" /\ pc[Sh] \in Right /\ q = child2
          /\ pc'[q] \in ChildPCs \ {"runs", "zombie", "reaped"} => input'[q] = "ignored"
    BY <1>1, <1>2, <1>7, <2>1, <2>2 DEF Flow
  <2>4. is_pipe /\ pc[Sh] \in {"wait1", "fork2"} \cup Right =>
          received + buffer + out'[child1] = produced'
    <3>1. CASE left
      BY <1>1, <1>7, <2>2, <3>1 DEF Flow, TypeOK
    <3>2. CASE ~left
      <4>1. is_pipe => p # child1
        BY <3>2
      <4> QED
        BY <1>1, <2>1, <3>2, <4>1 DEF Flow, Numbers
    <3> QED
      BY <3>1, <3>2
  <2>5. is_pipe /\ pc[Sh] = "wait1" /\ pc'[child1] \in {"closeUnused1", "dup1", "exec1"} =>
          received = 0 /\ buffer = 0 /\ produced' = 0
    BY <1>1, <1>2 DEF Flow, Numbers
  <2>6. ~(is_pipe /\ pc[Sh] = "fork1")
    BY <1>6 DEF Current, Right
  <2> QED
    BY <1>2, <2>3, <2>4, <2>5, <2>6 DEF Flow, locals
<1>9. PipelineDelivers'
  <2>1. is_pipe /\ child2 > child1 => child2 = p \/ input'[child2] = input[child2]
    BY <1>1 DEF TypeOK, Pids
  <2>2. input'[p] # "ended"
    BY <1>1 DEF TypeOK
  <2>3. ~(left /\ child2 > child1)
    BY <1>7 DEF TypeOK, Numbers
  <2> QED
    BY <1>1, <1>2, <2>1, <2>2, <2>3 DEF PipelineDelivers, locals
<1> QED
  BY <1>3, <1>4, <1>5, <1>8, <1>9

LEMMA WriteInv ==
  ASSUME Inv, NEW p \in Pids, Write(p)
  PROVE  Inv'
<1> USE ProcFacts, RunAssumption, PipeAssumption DEF Inv
<1>1. /\ out[p] \in Nat /\ out[p] <= MaxOutput /\ out[p] > 0
      /\ out' = [out EXCEPT ![p] = out[p] - 1]
      /\ pc[p] = "runs"
      /\ UNCHANGED <<lab, nested, locals, nextPid, pc, fds, input, produced, received, unattended>>
  BY DEF Write, TypeOK
<1>2. is_pipe /\ pc[Sh] = "wait1" /\ p = child1
  BY <1>1 DEF Flow
<1>3. fds[p][STDOUT] = "w" /\ buffer < PipeSize /\ buffer' = buffer + 1
  BY <1>1, <1>2 DEF Roles, Write
<1>4. Labs' /\ ShellEnds' /\ Foreground' /\ Holders' /\ Roles'
  BY <1>1, ProgramFrame
<1>5. out' \in [Pids -> 0..MaxOutput] /\ out'[p] = out[p] - 1
      /\ \A q \in Pids \ {p} : out'[q] = out[q]
  BY <1>1 DEF TypeOK
<1>6. TypeOK' /\ PcType'
  BY <1>1, <1>3, <1>5 DEF TypeOK, PcType, locals
<1>7. Numbers'
  BY <1>1, <1>5 DEF Numbers, locals
<1>8. received + (buffer + 1) + (out[p] - 1) = produced
  BY <1>1, <1>2 DEF Flow, TypeOK
<1>9. Flow'
  BY <1>1, <1>2, <1>3, <1>5, <1>8 DEF Flow, locals, Right
<1>10. PipelineDelivers'
  BY <1>1 DEF PipelineDelivers, locals
<1> QED
  BY <1>4, <1>6, <1>7, <1>9, <1>10

LEMMA ReadInv ==
  ASSUME Inv, NEW p \in Pids, Read(p)
  PROVE  Inv'
<1> USE ProcFacts, RunAssumption, PipeAssumption DEF Inv
<1>1. /\ pc[p] = "runs" /\ input[p] = "reading"
      /\ UNCHANGED <<lab, nested, locals, nextPid, pc, fds, out, produced, unattended>>
  BY DEF Read
<1>2. pc[Sh] \in Right /\ p = child2 /\ is_pipe
  BY <1>1 DEF Flow, Labs
<1>3. fds[p][STDIN] = "r"
  BY <1>1, <1>2 DEF Roles
<1>4. Labs' /\ ShellEnds' /\ Foreground' /\ Holders' /\ Roles'
  BY <1>1, ProgramFrame
\* The writer is dead: what it wrote is in the pipe.
<1>5. /\ child1 \in Pids /\ out[child1] = 0
      /\ received + buffer = produced
      /\ received \in Nat /\ buffer \in Nat /\ produced \in Nat /\ produced <= MaxOutput
      /\ buffer <= PipeSize
  <2>1. child1 \in Pids /\ out[child1] \in Nat
    BY <1>2 DEF Numbers, TypeOK
  <2>2. out[child1] = 0
    BY <1>2, <2>1 DEF Flow, Right
  <2>3. received \in Nat /\ buffer \in Nat /\ produced \in Nat /\ produced <= MaxOutput
        /\ buffer <= PipeSize
    BY DEF TypeOK
  <2>4. received + buffer + out[child1] = produced
    BY <1>2 DEF Flow
  <2> QED
    BY <2>1, <2>2, <2>3, <2>4
<1>6. CASE buffer > 0
  <2>1. buffer' = buffer - 1 /\ received' = received + 1 /\ UNCHANGED input
    BY <1>3, <1>6 DEF Read
  <2>2. received' + buffer' + out[child1] = produced /\ received' \in 0..MaxOutput
        /\ buffer' \in 0..PipeSize
    BY <1>5, <1>6, <2>1
  <2>3. TypeOK' /\ PcType' /\ Numbers'
    BY <1>1, <2>1, <2>2 DEF TypeOK, PcType, Numbers, locals
  <2>4. Flow'
    BY <1>1, <1>2, <2>1, <2>2 DEF Flow, locals, Right
  <2>5. PipelineDelivers'
    BY <1>1, <1>2, <2>1 DEF PipelineDelivers, locals
  <2> QED
    BY <1>4, <2>3, <2>4, <2>5
<1>7. CASE ~(buffer > 0)
  <2>1. UNCHANGED <<buffer, received>> /\ input' = [input EXCEPT ![p] = "ended"]
    BY <1>3, <1>7 DEF Read
  <2>2. /\ input' \in [Pids -> {"ignored", "reading", "ended"}]
        /\ input'[p] = "ended" /\ \A q \in Pids \ {p} : input'[q] = input[q]
    BY <2>1 DEF TypeOK
  <2>3. TypeOK' /\ PcType'
    BY <1>1, <2>1, <2>2 DEF TypeOK, PcType, locals
  <2>4. Numbers'
    BY <1>1, <2>2 DEF Numbers, locals
  <2>5. Flow'
    BY <1>1, <1>2, <2>1, <2>2 DEF Flow, locals
  <2>6. PipelineDelivers'
    BY <1>1, <1>5, <1>7, <2>1 DEF PipelineDelivers, locals
  <2> QED
    BY <1>4, <2>3, <2>4, <2>5, <2>6
<1> QED
  BY <1>6, <1>7

-----------------------------------------------------------------------------
LEMMA NextInv == Inv /\ [Next]_vars => Inv'
<1> SUFFICES ASSUME Inv, [Next]_vars PROVE Inv'
  OBVIOUS
<1>1. CASE ShellSteps
  BY <1>1, PipeInv, ShellExitsInv, Fork1Inv, Fork2Inv, WaitInv, CloseInv, WaitAnyInv
  DEF ShellSteps
<1>2. CASE User
  BY <1>2, ShellExitsInv, ChildExitsInv, EnterInv, LaunchInv, LaunchFailsInv DEF User
<1>3. ASSUME NEW p \in Pids, ChildSteps(p) PROVE Inv'
  BY <1>3, ChildFdInv, ChildExitsInv, ExecvInv, WriteInv, ReadInv DEF ChildSteps
<1>4. CASE UNCHANGED vars
  <2> USE DEF vars, locals, programs
  <2>1. TypeOK' /\ PcType' /\ Labs' /\ Numbers'
    BY <1>4 DEF Inv, TypeOK, PcType, Labs, Numbers
  <2>2. ShellEnds' /\ Holders' /\ Foreground' /\ Roles'
    BY <1>4 DEF Inv, ShellEnds, Piped, Holders, Holds, Foreground, Current, Roles
  <2>3. Flow' /\ PipelineDelivers'
    BY <1>4 DEF Inv, Flow, PipelineDelivers
  <2> QED
    BY <2>1, <2>2, <2>3 DEF Inv
<1> QED
  BY <1>1, <1>2, <1>3, <1>4 DEF Next

-----------------------------------------------------------------------------
(* Who waits for whom.                                                     *)

\* A child that was created exists, and the reader of a pipeline, once it has
\* closed the end it does not use, holds no write end.
Reader ==
  /\ \A p \in Pids : p < nextPid => pc[p] # "none"
  /\ pc[Sh] \in Right =>
       \A f \in Fds : fds[child2][f] = "w" => pc[child2] = "closeUnused2" /\ f = pipe_fd["w"]

\* The steps that create no child and touch no descriptor of the reader.
LEMMA ReaderFrame ==
  ASSUME Inv, Reader, nextPid' = nextPid, pipe_fd' = pipe_fd, child2' = child2,
         \A p \in Pids : pc[p] # "none" => pc'[p] # "none",
         pc'[Sh] \in Right =>
           /\ pc[Sh] \in Right
           /\ \/ fds'[child2] = fds[child2]
                   /\ (pc[child2] = "closeUnused2" => pc'[child2] = "closeUnused2")
              \/ \A f \in Fds : fds'[child2][f] # "w"
              \/ fds'[child2] = fds[child2] /\ pc[child2] # "closeUnused2"
  PROVE  Reader'
  BY DEF Reader

LEMMA ReaderFork ==
  ASSUME Inv, Reader, NEW next \in ShellPCs, NEW start \in ChildPCs \ {"none"},
         nextPid \in Pids, ForkTo(next, start), pipe_fd' = pipe_fd,
         next \in Right => /\ next = "closeRead" /\ start = "closeUnused2"
                           /\ pc[Sh] = "fork2" /\ child2' = nextPid
  PROVE  Reader'
<1> USE ProcFacts, TableFacts DEF Inv
<1>0. PICK c \in Pids : c = nextPid
  OBVIOUS
<1>1. /\ nextPid' = c + 1 /\ pc'[Sh] = next /\ pc'[c] = start
      /\ fds'[c] = fds[Sh]
      /\ \A p \in Pids \ {c} : pc'[p] = pc[p]
  BY <1>0, ForkFacts
<1>2. \A p \in Pids : p < c + 1 => p = c \/ p < c
  BY <1>0
<1>3. \A p \in Pids : p < nextPid' => pc'[p] # "none"
  BY <1>0, <1>1, <1>2 DEF Reader
<1>4. ASSUME next \in Right, NEW f \in Fds, fds[Sh][f] = "w" PROVE f = pipe_fd["w"]
  <2>1. fds[Sh] = Piped({"r", "w"})
    BY <1>4 DEF ShellEnds
  <2> QED
    BY <1>4, <2>1 DEF Piped
<1> QED
  BY <1>0, <1>1, <1>3, <1>4 DEF Reader

LEMMA ReaderShell == Inv /\ Reader /\ ShellSteps => Reader'
<1> SUFFICES ASSUME Inv, Reader, ShellSteps PROVE Reader'
  OBVIOUS
<1> USE ProcFacts, TableFacts DEF Inv
<1>1. CASE Pipe
  <2>1. /\ nextPid' = nextPid /\ pc'[Sh] = "fork1" /\ \A p \in Pids : pc'[p] = pc[p]
    BY <1>1 DEF Pipe, Goto, PcType
  <2> QED
    BY <2>1 DEF Reader, Right
<1>2. CASE PipeFails \/ Fork1Fails \/ Fork2Fails
  <2>1. /\ nextPid' = nextPid /\ pc'[Sh] \in Ended /\ \A p \in Pids : pc'[p] = pc[p]
    BY <1>2 DEF PipeFails, Fork1Fails, Fork2Fails, Terminate, Goto, PcType, Ended
  <2> QED
    BY <2>1 DEF Reader, Right, Ended
<1>3. CASE Fork1
  <2> DEFINE start == IF is_pipe THEN "closeUnused1" ELSE "exec1"
  <2>1. nextPid \in Pids
    BY <1>3, RunAssumption DEF Fork1, Numbers, TypeOK
  <2>2. start \in ChildPCs \ {"none"} /\ "wait1" \in ShellPCs /\ "wait1" \notin Right
    BY DEF ChildPCs, ShellPCs, Right
  <2>3. ForkTo("wait1", start) /\ pipe_fd' = pipe_fd
    BY <1>3 DEF Fork1
  <2> HIDE DEF start
  <2> QED
    BY <2>1, <2>2, <2>3, ReaderFork
<1>4. CASE Fork2
  <2>1. nextPid \in Pids
    BY <1>4, RunAssumption DEF Fork2, Numbers, Labs, TypeOK, Ended
  <2>2. "closeUnused2" \in ChildPCs \ {"none"} /\ "closeRead" \in ShellPCs
    BY DEF ChildPCs, ShellPCs
  <2>3. /\ ForkTo("closeRead", "closeUnused2") /\ pipe_fd' = pipe_fd
        /\ pc[Sh] = "fork2" /\ child2' = nextPid
    BY <1>4 DEF Fork2
  <2> QED
    BY <2>1, <2>2, <2>3, ReaderFork
<1>5. CASE Wait1 \/ Wait2 \/ WaitForeground
  <2>1. /\ nextPid' = nextPid /\ pc'[Sh] \in {"prompt", "fork2"}
        /\ \A p \in Pids : pc'[p] = pc[p] \/ pc'[p] = "reaped"
    BY <1>5 DEF Wait1, Wait2, WaitForeground, WaitFor, PcType
  <2> QED
    BY <2>1 DEF Reader, Right
<1>6. CASE WaitAnyChild
  <2>1. /\ nextPid' = nextPid /\ pc'[Sh] = "prompt"
        /\ \A p \in Pids : pc'[p] = pc[p] \/ pc'[p] = "reaped"
    BY <1>6 DEF WaitAnyChild
  <2> QED
    BY <2>1 DEF Reader, Right
<1>7. CASE CloseRead \/ CloseWrite
  <2>1. /\ nextPid' = nextPid /\ pipe_fd' = pipe_fd /\ child2' = child2
        /\ pc[Sh] \in Right /\ \A p \in Pids : pc'[p] = pc[p] /\ fds'[p] = fds[p]
    BY <1>7 DEF CloseRead, CloseWrite, Close, Goto, locals, Right, PcType, TypeOK
  <2>2. child2 \in Pids
    BY <2>1 DEF Numbers, TypeOK, Right, Pids
  <2> QED
    BY <2>1, <2>2, ReaderFrame
<1> QED
  BY <1>1, <1>2, <1>3, <1>4, <1>5, <1>6, <1>7 DEF ShellSteps

LEMMA ReaderUser == Inv /\ Reader /\ User => Reader'
<1> SUFFICES ASSUME Inv, Reader, User PROVE Reader'
  OBVIOUS
<1> USE ProcFacts, TableFacts DEF Inv
<1>1. CASE ExitCommand
  <2>1. /\ nextPid' = nextPid /\ pc'[Sh] \in Ended /\ \A p \in Pids : pc'[p] = pc[p]
    BY <1>1 DEF ExitCommand, Terminate, Goto, PcType, Ended
  <2> QED
    BY <2>1 DEF Reader, Right, Ended
<1>2. ASSUME NEW p \in Pids, KillCommand(p) PROVE Reader'
  <2>1. /\ nextPid' = nextPid /\ pc'[Sh] = "prompt"
        /\ \A q \in Pids : pc'[q] = pc[q] \/ pc'[q] = "zombie"
    BY <1>2 DEF KillCommand, Terminate, Goto, PcType
  <2> QED
    BY <2>1 DEF Reader, Right
<1>3. ASSUME NEW piped \in BOOLEAN, EnterCommand(piped) PROVE Reader'
  <2>1. /\ nextPid' = nextPid /\ pc'[Sh] \in {"pipe", "fork1"}
        /\ \A q \in Pids : pc'[q] = pc[q]
    BY <1>3 DEF EnterCommand, Goto, PcType
  <2> QED
    BY <2>1 DEF Reader, Right
<1>4. ASSUME NEW background \in BOOLEAN, Launch(background) PROVE Reader'
  <2> DEFINE next == IF background THEN "prompt" ELSE "wait1"
  <2>1. nextPid \in Pids
    BY <1>4, RunAssumption DEF Launch, TypeOK, Pids
  <2>2. "exec1" \in ChildPCs \ {"none"} /\ next \in ShellPCs /\ next \notin Right
    BY DEF ChildPCs, ShellPCs, Right
  <2>3. ForkTo(next, "exec1") /\ pipe_fd' = pipe_fd
    BY <1>4 DEF Launch
  <2> HIDE DEF next
  <2> QED
    BY <2>1, <2>2, <2>3, ReaderFork
<1>5. ASSUME NEW background \in BOOLEAN, LaunchFails(background) PROVE Reader'
  <2>1. /\ nextPid' = nextPid /\ pc'[Sh] = "waitAny"
        /\ \A q \in Pids : pc'[q] = pc[q]
    BY <1>5 DEF LaunchFails, Goto, PcType
  <2> QED
    BY <2>1 DEF Reader, Right
<1> QED
  BY <1>1, <1>2, <1>3, <1>4, <1>5 DEF User

\* The reader closes its write end; no other step of a child gives it one.
LEMMA ReaderChild ==
  ASSUME Inv, Reader, NEW p \in Pids, ChildSteps(p)
  PROVE  Reader'
<1> USE ProcFacts, TableFacts DEF Inv
<1>1. /\ nextPid' = nextPid /\ pipe_fd' = pipe_fd /\ child2' = child2
      /\ pc'[Sh] = pc[Sh] /\ pc'[p] # "none"
      /\ \A q \in Pids \ {p} : pc'[q] = pc[q] /\ fds'[q] = fds[q]
  BY DEF ChildSteps, CloseUnused1, RedirectOutput, CloseUnused2, RedirectInput, ExecFails,
         Execv, Write, Read, ProgramExits, Close, Dup2, Goto, Terminate, locals, PcType, TypeOK
<1>2. pc[Sh] \in Right => child2 \in Pids
  BY DEF Numbers, TypeOK, Right, Pids
<1>3. CASE p # child2 \/ pc[Sh] \notin Right
  BY <1>1, <1>2, <1>3, ReaderFrame
<1>4. CASE p = child2 /\ pc[Sh] \in Right
  <2>1. ~CloseUnused1(p) /\ ~RedirectOutput(p)
    BY <1>4 DEF CloseUnused1, RedirectOutput, Roles, Right
  <2>2. CASE CloseUnused2(p)
    <3>1. fds'[p] = [fds[p] EXCEPT ![pipe_fd["w"]] = "none"] /\ pipe_fd["w"] \in Fds
      BY <2>2 DEF CloseUnused2, Close, TypeOK
    <3>2. \A f \in Fds : fds'[p][f] # "w"
      BY <1>4, <3>1 DEF Reader, TypeOK
    <3> QED
      BY <1>1, <1>4, <3>2, ReaderFrame
  <2>3. CASE RedirectInput(p)
    <3>1. fds'[p] = [fds[p] EXCEPT ![STDIN] = fds[p][pipe_fd["r"]]] /\ pc[p] = "dup2"
      BY <2>3 DEF RedirectInput, Dup2, TypeOK
    <3>2. fds[p][pipe_fd["r"]] = "r"
      BY <3>1 DEF Roles
    <3>3. \A f \in Fds : fds'[p][f] # "w"
      BY <1>4, <3>1, <3>2 DEF Reader, TypeOK
    <3> QED
      BY <1>1, <1>4, <3>3, ReaderFrame
  <2>4. CASE ExecFails(p) \/ ProgramExits(p)
    <3>1. fds'[p] = NoFds
      BY <2>4 DEF ExecFails, ProgramExits, Terminate, TypeOK
    <3>2. \A f \in Fds : fds'[p][f] # "w"
      BY <3>1
    <3> QED
      BY <1>1, <1>4, <3>2, ReaderFrame
  <2>5. CASE Execv(p) \/ Write(p) \/ Read(p)
    <3>1. fds' = fds /\ pc[p] # "closeUnused2"
      BY <2>5 DEF Execv, Write, Read
    <3> QED
      BY <1>1, <1>4, <3>1, ReaderFrame
  <2> QED
    BY <2>1, <2>2, <2>3, <2>4, <2>5 DEF ChildSteps
<1> QED
  BY <1>3, <1>4

LEMMA ReaderNext == Inv /\ Reader /\ [Next]_vars => Reader'
  BY ReaderShell, ReaderUser, ReaderChild DEF Next, vars, locals, Reader

\* A left-hand program that waits has filled the pipe; a right-hand one that
\* waited would be waiting for itself.
LEMMA NobodyHangs == Inv /\ Reader => NoCommandHangs
<1> SUFFICES ASSUME Inv, Reader PROVE NoCommandHangs
  OBVIOUS
<1> USE ProcFacts, TableFacts, RunAssumption, PipeAssumption DEF Inv
<1>1. ASSUME pc[Sh] = "wait1", ~Dead(child1), ~GoesOn(child1)
      PROVE  is_pipe /\ produced > PipeSize
  <2>1. child1 \in Pids /\ pc[child1] # "none" /\ out[child1] \in Nat
    BY <1>1 DEF Numbers, Reader, TypeOK
  <2>2. input[child1] # "reading"
    BY <1>1, <2>1 DEF Flow, Right
  <2>3. out[child1] > 0 /\ ~(buffer < PipeSize)
    BY <1>1, <2>1, <2>2 DEF GoesOn, Dead
  <2>4. is_pipe /\ received + buffer + out[child1] = produced
    BY <1>1, <2>1, <2>3 DEF Flow
  <2>5. received \in Nat /\ buffer \in Nat /\ produced \in Nat
    BY DEF TypeOK
  <2> QED
    BY <2>1, <2>3, <2>4, <2>5
<1>2. ASSUME pc[Sh] = "wait2", ~Dead(child2) PROVE GoesOn(child2)
  <2>1. child2 \in Pids /\ pc[child2] # "none" /\ out[child2] \in Nat /\ is_pipe
    BY <1>2 DEF Numbers, Reader, TypeOK, Labs, Right, Pids
  <2>2. ~(out[child2] > 0)
    BY <1>2, <2>1 DEF Flow
  <2>3. ASSUME pc[child2] = "runs" PROVE ~Open("w")
    <3>1. ASSUME NEW q \in Procs, NEW f \in Fds PROVE fds[q][f] # "w"
      <4>1. CASE q = Sh
        BY <1>2, <4>1 DEF ShellEnds
      <4>2. CASE q = child2
        BY <1>2, <2>3, <4>2 DEF Reader, Right
      <4>3. CASE q # Sh /\ q # child2
        BY <1>2, <4>3 DEF Holders, Holds, Current, Right
      <4> QED
        BY <4>1, <4>2, <4>3
    <3> QED
      BY <3>1 DEF Open
  <2> QED
    BY <1>2, <2>1, <2>2, <2>3 DEF GoesOn, Dead
<1> QED
  BY <1>1, <1>2 DEF NoCommandHangs

-----------------------------------------------------------------------------
(* The theorems.                                                           *)

\* Who holds which end of the pipe, and where every byte is, at any time.
THEOREM Invariance == Spec => []Inv
<1> QED
  BY InitInv, NextInv, PTL DEF Spec

\* The descriptors, the pipe and the places of the processes keep their types:
\* the pipe never holds more than its size, nor the reader gets more than
\* was written.
THEOREM TypeCorrect == Spec => []TypeOK
<1>1. Inv => TypeOK
  BY DEF Inv
<1> QED
  BY <1>1, Invariance, PTL

\* Whichever calls of a command fail, no process holds an end of a pipe when
\* the shell is back at its prompt, then with the terminal only, or has ended.
THEOREM PipesAreReleased == Spec => []PipeReleased
<1>1. Inv => PipeReleased
  <2> SUFFICES ASSUME Inv, pc[Sh] \in {"prompt"} \cup Ended
               PROVE  /\ pc[Sh] = "prompt" => fds[Sh] = Terminal
                      /\ ~Open("r") /\ ~Open("w")
    BY DEF PipeReleased
  <2>1. fds[Sh] = IF pc[Sh] = "prompt" THEN Terminal ELSE NoFds
    BY DEF Inv, ShellEnds
  <2>2. \A p \in Pids : ~Holds(p)
    BY DEF Inv, Holders, Current, Right, Ended
  <2>3. ASSUME NEW p \in Procs, NEW f \in Fds PROVE fds[p][f] \notin {"r", "w"}
    BY <2>1, <2>2, ProcFacts, TableFacts DEF Holds
  <2> QED
    BY <2>1, <2>3 DEF Open
<1> QED
  BY <1>1, Invariance, PTL

\* Every foreground program was waited for when the prompt comes back, and
\* when the shell ends.
THEOREM ForegroundIsReaped == Spec => []ForegroundReaped
<1>1. Inv => ForegroundReaped
  BY DEF Inv, Foreground, ForegroundReaped, Current, Right, Ended
<1> QED
  BY <1>1, Invariance, PTL

\* A right-hand program that has read to the end of its input has every byte
\* of the left-hand one, although the latter was dead before it started.
THEOREM PipelinesDeliver == Spec => []PipelineDelivers
<1>1. Inv => PipelineDelivers
  BY DEF Inv
<1> QED
  BY <1>1, Invariance, PTL

\* The shell never sleeps on a child that sleeps, in any interleaving and
\* whatever the pipe holds, unless the left-hand program writes more than that.
THEOREM CommandsGoOn == Spec => []NoCommandHangs
<1>1. Init => Reader
  BY ProcFacts DEF Init, Reader, Right
<1> QED
  BY <1>1, InitInv, NextInv, ReaderNext, NobodyHangs, PTL DEF Spec

=============================================================================
