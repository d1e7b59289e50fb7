------------------------------- MODULE Shell -------------------------------
(***************************************************************************)
(* The two shells of the repository with the processes they start:         *)
(* lab7/sh.c, which connects two programs with a pipe, and lab5/sh.c,      *)
(* which leaves programs in the background.  Each system call of the shell *)
(* and of its children is a step; descriptors are those of lab9/process.c: *)
(* a table per process, copied by fork, filled from its lowest free slot,  *)
(* closed when the process exits.                                          *)
(*                                                                         *)
(* Of a command line only the marks "|" and "&" matter.  A program writes  *)
(* so many bytes to its standard output, then perhaps reads its standard   *)
(* input to the end, and exits.                                            *)
(***************************************************************************)
EXTENDS Integers, FiniteSets, FiniteSetsExt

CONSTANTS PipeSize,   \* bytes a pipe holds
          FdMax,      \* FD_MAX: descriptors of a process
          MaxOutput,  \* bound: bytes a program writes
          MaxPid      \* bound: children created in a behaviour

ASSUME PipeAssumption == PipeSize \in Nat \ {0}
ASSUME FdAssumption   == FdMax \in Nat /\ FdMax >= 5
ASSUME RunAssumption  == MaxOutput \in Nat /\ MaxPid \in Nat

Sh    == 0                \* the shell; its children are numbered from 1
Pids  == 1..MaxPid
Procs == {Sh} \cup Pids
Fds   == 0..(FdMax - 1)

STDIN  == 0
STDOUT == 1
STDERR == 2

\* What a descriptor stands for: nothing, the terminal, an end of the pipe.
Ends == {"none", "tty", "r", "w"}

VARIABLES
  lab,        \* which of the two shells it is
  nested,     \* the shell was started by another one; getpid() # 1
  is_pipe,    \* the local of that name, for the line being processed
  pipe_fd,    \* the local of that name, which the children inherit
  child1,     \* pid_child1, or pid_child
  child2,     \* pid_child2
  nextPid,
  pc,         \* the next system call of the shell and of each child
  fds,        \* pcb->fd_array
  buffer,     \* bytes in the pipe
  out,        \* bytes each program has still to write
  input,      \* what each program does of its standard input
  produced,   \* history: bytes the left program writes in all
  received,   \* history: bytes read from the pipe
  unattended  \* history: the children started in the background

locals   == <<is_pipe, pipe_fd, child1, child2>>
programs == <<buffer, out, input, produced, received>>
vars     == <<lab, nested, locals, nextPid, pc, fds, programs, unattended>>

Ended    == {"exited", "panic"}
ShellPCs == {"prompt", "pipe", "fork1", "wait1", "fork2", "closeRead", "closeWrite",
             "wait2", "waitAny"} \cup Ended
ChildPCs == {"none", "closeUnused1", "dup1", "exec1", "closeUnused2", "dup2", "exec2",
             "runs", "zombie", "reaped"}

TypeOK ==
  /\ lab \in {5, 7}
  /\ nested \in BOOLEAN
  /\ is_pipe \in BOOLEAN
  /\ pipe_fd \in [{"r", "w"} -> Fds]
  /\ child1 \in 0..MaxPid /\ child2 \in 0..MaxPid
  /\ nextPid \in 1..(MaxPid + 1)
  /\ pc[Sh] \in ShellPCs
  /\ \A p \in Pids : pc[p] \in ChildPCs
  /\ fds \in [Procs -> [Fds -> Ends]]
  /\ buffer \in 0..PipeSize
  /\ out \in [Pids -> 0..MaxOutput]
  /\ input \in [Pids -> {"ignored", "reading", "ended"}]
  /\ produced \in 0..MaxOutput /\ received \in 0..MaxOutput
  /\ unattended \subseteq Pids

\* The first three descriptors are the terminal (create_process()).
Terminal == [f \in Fds |-> IF f \in {STDIN, STDOUT, STDERR} THEN "tty" ELSE "none"]
NoFds    == [f \in Fds |-> "none"]

Init ==
  /\ lab \in {5, 7}
  /\ nested \in BOOLEAN
  /\ is_pipe = FALSE
  /\ pipe_fd = [e \in {"r", "w"} |-> 0]
  /\ child1 = 0 /\ child2 = 0
  /\ nextPid = 1
  /\ pc = [p \in Procs |-> IF p = Sh THEN "prompt" ELSE "none"]
  /\ fds = [p \in Procs |-> IF p = Sh THEN Terminal ELSE NoFds]
  /\ buffer = 0
  /\ out = [p \in Pids |-> 0]
  /\ input = [p \in Pids |-> "ignored"]
  /\ produced = 0 /\ received = 0
  /\ unattended = {}

Goto(p, l) == pc' = [pc EXCEPT ![p] = l]

-----------------------------------------------------------------------------
(* System calls.                                                           *)

Close(p, f) == fds' = [fds EXCEPT ![p][f] = "none"]

Dup2(p, old, new) == fds' = [fds EXCEPT ![p][new] = fds[p][old]]

\* Faulty variant: the root process exits like any other.
TerminateAny(p) ==
  /\ fds' = [fds EXCEPT ![p] = NoFds]
  /\ Goto(p, "zombie")

\* do_exit(): the descriptors are closed, and a child waits to be reaped.
\* The root process may not exit: the kernel stops.
Terminate(p) ==
  /\ fds' = [fds EXCEPT ![p] = NoFds]
  /\ Goto(p, IF p # Sh THEN "zombie" ELSE IF nested THEN "exited" ELSE "panic")

\* fork(): the child has the descriptors of the shell.
ForkTo(next, start) ==
  /\ nextPid' = nextPid + 1
  /\ pc' = [pc EXCEPT ![Sh] = next, ![nextPid] = start]
  /\ fds' = [fds EXCEPT ![nextPid] = fds[Sh]]

\* proc_new_fd(): the lowest free slot.
FreeFds(p) == {f \in Fds : fds[p][f] = "none"}

\* Faulty variant: waitpid() with WNOHANG.
WaitNoHang(p, next) == Goto(Sh, next)

\* waitpid() of a child: it returns when the child is dead, and cleans it.
\* A child already cleaned is not found, and waitpid() returns at once.
WaitFor(p, next) ==
  /\ pc[p] \in {"zombie", "reaped"}
  /\ pc' = [pc EXCEPT ![Sh] = next, ![p] = "reaped"]

\* Something keeps that end of the pipe open.
Open(e) == \E p \in Procs : \E f \in Fds : fds[p][f] = e

-----------------------------------------------------------------------------
(* Both shells, between two commands.                                      *)

AtPrompt(n) == lab = n /\ pc[Sh] = "prompt"

\* "exit", which the root shell refuses.
ExitCommand ==
  /\ pc[Sh] = "prompt"
  /\ nested
  /\ Terminate(Sh)
  /\ UNCHANGED <<lab, nested, locals, nextPid, programs, unattended>>

\* "kill" of a child started before, at any point of its life.
KillCommand(p) ==
  /\ pc[Sh] = "prompt"
  /\ pc[p] \notin {"none", "zombie", "reaped"}
  /\ Terminate(p)
  /\ UNCHANGED <<lab, nested, locals, nextPid, programs, unattended>>

-----------------------------------------------------------------------------
(* process_cmd() of lab7/sh.c.                                             *)

\* A line that names a program, or two with a "|" between them.
EnterCommand(piped) ==
  /\ AtPrompt(7)
  /\ nextPid < MaxPid
  /\ is_pipe' = piped
  /\ Goto(Sh, IF piped THEN "pipe" ELSE "fork1")
  /\ UNCHANGED <<lab, nested, pipe_fd, child1, child2, nextPid, fds, programs,
                 unattended>>

Pipe ==
  /\ pc[Sh] = "pipe"
  /\ Cardinality(FreeFds(Sh)) >= 2
  /\ LET r == Min(FreeFds(Sh))
         w == Min(FreeFds(Sh) \ {r})
     IN  /\ pipe_fd' = [e \in {"r", "w"} |-> IF e = "r" THEN r ELSE w]
         /\ fds' = [fds EXCEPT ![Sh][r] = "r", ![Sh][w] = "w"]
  /\ buffer' = 0 /\ produced' = 0 /\ received' = 0
  /\ Goto(Sh, "fork1")
  /\ UNCHANGED <<lab, nested, is_pipe, child1, child2, nextPid, out, input, unattended>>

PipeFails ==
  /\ pc[Sh] = "pipe"
  /\ Terminate(Sh)
  /\ UNCHANGED <<lab, nested, locals, nextPid, programs, unattended>>

Fork1 ==
  /\ lab = 7
  /\ pc[Sh] = "fork1"
  /\ ForkTo("wait1", IF is_pipe THEN "closeUnused1" ELSE "exec1")
  /\ child1' = nextPid
  /\ UNCHANGED <<lab, nested, is_pipe, pipe_fd, child2, programs, unattended>>

\* The two ends are closed, then the shell exits.
Fork1Fails ==
  /\ lab = 7
  /\ pc[Sh] = "fork1"
  /\ Terminate(Sh)
  /\ UNCHANGED <<lab, nested, locals, nextPid, programs, unattended>>

Wait1 ==
  /\ lab = 7
  /\ pc[Sh] = "wait1"
  /\ WaitFor(child1, IF is_pipe THEN "fork2" ELSE "prompt")
  /\ UNCHANGED <<lab, nested, locals, nextPid, fds, programs, unattended>>

Fork2 ==
  /\ pc[Sh] = "fork2"
  /\ ForkTo("closeRead", "closeUnused2")
  /\ child2' = nextPid
  /\ UNCHANGED <<lab, nested, is_pipe, pipe_fd, child1, programs, unattended>>

Fork2Fails ==
  /\ pc[Sh] = "fork2"
  /\ Terminate(Sh)
  /\ UNCHANGED <<lab, nested, locals, nextPid, programs, unattended>>

\* Faulty variant: the read end stays open in the shell.
KeepRead ==
  /\ pc[Sh] = "closeRead"
  /\ Goto(Sh, "closeWrite")
  /\ UNCHANGED <<lab, nested, locals, nextPid, fds, programs, unattended>>

CloseRead ==
  /\ pc[Sh] = "closeRead"
  /\ Close(Sh, pipe_fd["r"])
  /\ Goto(Sh, "closeWrite")
  /\ UNCHANGED <<lab, nested, locals, nextPid, programs, unattended>>

\* Faulty variant: the shell keeps the write end while it waits for the reader.
KeepWriteToo ==
  /\ pc[Sh] = "closeWrite"
  /\ Goto(Sh, "wait2")
  /\ UNCHANGED <<lab, nested, locals, nextPid, fds, programs, unattended>>

CloseWrite ==
  /\ pc[Sh] = "closeWrite"
  /\ Close(Sh, pipe_fd["w"])
  /\ Goto(Sh, "wait2")
  /\ UNCHANGED <<lab, nested, locals, nextPid, programs, unattended>>

Wait2 ==
  /\ pc[Sh] = "wait2"
  /\ WaitFor(child2, "prompt")
  /\ UNCHANGED <<lab, nested, locals, nextPid, fds, programs, unattended>>

\* The left-hand child closes the read end, and the right-hand one the
\* other.
CloseUnused1(p) ==
  /\ pc[p] = "closeUnused1"
  /\ Close(p, pipe_fd["r"])
  /\ Goto(p, "dup1")
  /\ UNCHANGED <<lab, nested, locals, nextPid, programs, unattended>>

\* Faulty variant: the standard output of the left-hand program is not
\* redirected.
NoRedirection(p) ==
  /\ pc[p] = "dup1"
  /\ Goto(p, "exec1")
  /\ UNCHANGED <<lab, nested, locals, nextPid, fds, programs, unattended>>

RedirectOutput(p) ==
  /\ pc[p] = "dup1"
  /\ Dup2(p, pipe_fd["w"], STDOUT)
  /\ Goto(p, "exec1")
  /\ UNCHANGED <<lab, nested, locals, nextPid, programs, unattended>>

\* Faulty variant: the right-hand child keeps the write end.
KeepWrite(p) ==
  /\ pc[p] = "closeUnused2"
  /\ Goto(p, "dup2")
  /\ UNCHANGED <<lab, nested, locals, nextPid, fds, programs, unattended>>

CloseUnused2(p) ==
  /\ pc[p] = "closeUnused2"
  /\ Close(p, pipe_fd["w"])
  /\ Goto(p, "dup2")
  /\ UNCHANGED <<lab, nested, locals, nextPid, programs, unattended>>

RedirectInput(p) ==
  /\ pc[p] = "dup2"
  /\ Dup2(p, pipe_fd["r"], STDIN)
  /\ Goto(p, "exec2")
  /\ UNCHANGED <<lab, nested, locals, nextPid, programs, unattended>>

\* execv() fails: an end of the pipe is closed, a message perhaps written to
\* the terminal, and the child exits.
ExecFails(p) ==
  /\ pc[p] \in {"exec1", "exec2"}
  /\ Terminate(p)
  /\ UNCHANGED <<lab, nested, locals, nextPid, programs, unattended>>

-----------------------------------------------------------------------------
(* process_cmd() of lab5/sh.c.                                             *)

\* The fork() of a command; the shell goes on at once after an "&".  The
\* child has nothing to do before execv().
Launch(background) ==
  /\ AtPrompt(5)
  /\ nextPid <= MaxPid
  /\ ForkTo(IF background THEN "prompt" ELSE "wait1", "exec1")
  /\ child1' = nextPid
  /\ unattended' = IF background THEN unattended \cup {nextPid} ELSE unattended
  /\ UNCHANGED <<lab, nested, is_pipe, pipe_fd, child2, programs>>

\* fork() returns -1, which is not tested: the shell waits for that "pid".
LaunchFails(background) ==
  /\ AtPrompt(5)
  /\ ~background
  /\ Goto(Sh, "waitAny")
  /\ UNCHANGED <<lab, nested, locals, nextPid, fds, programs, unattended>>

\* waitpid(pid_child)
WaitForeground ==
  /\ lab = 5
  /\ pc[Sh] = "wait1"
  /\ WaitFor(child1, "prompt")
  /\ UNCHANGED <<lab, nested, locals, nextPid, fds, programs, unattended>>

\* waitpid(-1) cleans the first dead child, or returns at once.
WaitAnyChild ==
  /\ pc[Sh] = "waitAny"
  /\ LET dead == {p \in Pids : pc[p] = "zombie"}
     IN  pc' = [p \in Procs |-> IF p = Sh THEN "prompt"
                                ELSE IF p \in dead /\ p = Min(dead) THEN "reaped"
                                ELSE pc[p]]
  /\ UNCHANGED <<lab, nested, locals, nextPid, fds, programs, unattended>>

-----------------------------------------------------------------------------
(* The programs and the pipe.                                              *)

\* execv() replaces the child by a program, which has the descriptors left
\* by the shell.  What it writes or reads only matters when the line has a
\* pipe on that side of it.
Execv(p) ==
  /\ pc[p] \in {"exec1", "exec2"}
  /\ \E bytes \in IF is_pipe /\ p = child1 THEN 0..MaxOutput ELSE {0} :
       /\ out' = [out EXCEPT ![p] = bytes]
       /\ produced' = IF is_pipe /\ p = child1 THEN bytes ELSE produced
  /\ \E does \in IF is_pipe /\ p = child2 THEN {"ignored", "reading"} ELSE {"ignored"} :
       input' = [input EXCEPT ![p] = does]
  /\ Goto(p, "runs")
  /\ UNCHANGED <<lab, nested, locals, nextPid, fds, buffer, received, unattended>>

\* A program that writes into a full pipe waits.
Write(p) ==
  /\ pc[p] = "runs"
  /\ out[p] > 0
  /\ fds[p][STDOUT] = "w" => buffer < PipeSize
  /\ buffer' = IF fds[p][STDOUT] = "w" THEN buffer + 1 ELSE buffer
  /\ out' = [out EXCEPT ![p] = @ - 1]
  /\ UNCHANGED <<lab, nested, locals, nextPid, pc, fds, input, produced, received,
                 unattended>>

\* A program that reads an empty pipe waits as long as somebody may write.
Read(p) ==
  /\ pc[p] = "runs"
  /\ out[p] = 0
  /\ input[p] = "reading"
  /\ IF fds[p][STDIN] = "r" /\ buffer > 0
       THEN /\ buffer' = buffer - 1
            /\ received' = received + 1
            /\ UNCHANGED input
       ELSE /\ fds[p][STDIN] = "r" => ~Open("w")
            /\ input' = [input EXCEPT ![p] = "ended"]
            /\ UNCHANGED <<buffer, received>>
  /\ UNCHANGED <<lab, nested, locals, nextPid, pc, fds, out, produced, unattended>>

ProgramExits(p) ==
  /\ pc[p] = "runs"
  /\ out[p] = 0
  /\ input[p] # "reading"
  /\ Terminate(p)
  /\ UNCHANGED <<lab, nested, locals, nextPid, programs, unattended>>

-----------------------------------------------------------------------------
ShellSteps ==
  \/ Pipe \/ PipeFails
  \/ Fork1 \/ Fork1Fails
  \/ Wait1
  \/ Fork2 \/ Fork2Fails
  \/ CloseRead
  \/ CloseWrite
  \/ Wait2
  \/ WaitForeground
  \/ WaitAnyChild

ChildSteps(p) ==
  \/ CloseUnused1(p)
  \/ RedirectOutput(p)
  \/ CloseUnused2(p)
  \/ RedirectInput(p)
  \/ ExecFails(p)
  \/ Execv(p)
  \/ Write(p)
  \/ Read(p)
  \/ ProgramExits(p)

User ==
  \/ ExitCommand
  \/ \E p \in Pids : KillCommand(p)
  \/ \E piped \in BOOLEAN : EnterCommand(piped)
  \/ \E background \in BOOLEAN : Launch(background) \/ LaunchFails(background)

Next == ShellSteps \/ User \/ \E p \in Pids : ChildSteps(p)

Spec == Init /\ [][Next]_vars

\* The scheduler runs every process that can go on; what the user types, and
\* whether a call fails, is anybody's guess.
FairSpec == Spec /\ WF_vars(ShellSteps) /\ \A p \in Pids : WF_vars(ChildSteps(p))

-----------------------------------------------------------------------------
(* Properties.                                                             *)

\* Between two commands, and after a failing pipe() or fork() has made the
\* shell exit, nothing is left of a pipe: neither the shell nor any process it
\* started holds an end of it.  At the prompt the shell has its terminal only,
\* so that the next command finds its two free slots.
PipeReleased ==
  /\ pc[Sh] \in {"prompt"} \cup Ended => ~Open("r") /\ ~Open("w")
  /\ pc[Sh] = "prompt" => fds[Sh] = Terminal

\* The shell has waited for every program it started but those of the
\* background: no zombie of a foreground command outlives the command, not
\* even when the second fork() of a pipeline fails and the shell exits with it.
ForegroundReaped ==
  pc[Sh] \in {"prompt"} \cup Ended =>
    \A p \in Pids \ unattended : pc[p] \in {"none", "reaped"}

\* A right-hand program that reads to the end of its input has read every
\* byte the left-hand program had to write.
PipelineDelivers ==
  is_pipe /\ child2 > child1 /\ input[child2] = "ended" => received = produced

\* Nothing makes the next call of that child wait: the pipe it writes to has
\* room, the one it reads has a byte or no writer.
GoesOn(p) ==
  /\ pc[p] \notin {"none", "zombie", "reaped"}
  /\ pc[p] = "runs" /\ out[p] > 0 /\ fds[p][STDOUT] = "w" => buffer < PipeSize
  /\ pc[p] = "runs" /\ out[p] = 0 /\ input[p] = "reading" /\ fds[p][STDIN] = "r" =>
       buffer > 0 \/ ~Open("w")

Dead(p) == pc[p] \in {"zombie", "reaped"}

\* The shell never sleeps on a child that sleeps, but for a left-hand program
\* that writes more than the pipe holds: at any time, an end of the pipe left
\* open in one of the three processes would make the reader wait for itself,
\* for the shell or for a dead writer.
NoCommandHangs ==
  /\ pc[Sh] = "wait1" =>
       Dead(child1) \/ GoesOn(child1) \/ (is_pipe /\ produced > PipeSize)
  /\ pc[Sh] = "wait2" => Dead(child2) \/ GoesOn(child2)

\* The prompt comes back after every command, unless the left-hand program
\* writes more than the pipe holds: the shell only starts the reader once the
\* writer is dead.  This is said of a shell that never ends, because one that
\* fails to create a pipe or a child does not come back: it calls exit(),
\* nested or not, and that of the root shell stops the kernel.  An unsuccessful
\* fork() of the shell without pipes is not such a failure, and is covered.
CommandEnds ==
  [](pc[Sh] \notin Ended) =>
    ((pc[Sh] # "prompt") ~>
       (pc[Sh] = "prompt" \/ (is_pipe /\ produced > PipeSize)))

=============================================================================
