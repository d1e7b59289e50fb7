# Models and proofs for HEIG_SYE

This directory holds TLA+ models of the programs of this repository, the TLC
configurations that check them on small instances, and TLAPS proofs of the
properties that matter most. The repository is a collection of fourteen
exercises around the SO3 operating system: six complete C programs and one
kernel file (3328 lines of C), and patches on SO3 files that are not here.

- [The system](#the-system): inventory of the components
- [Modules](#modules): how models correspond to the code
- [What TLC checks](#what-tlc-checks): runs, bounds, fairness
- [What is proved](#what-is-proved)
- [Disagreements found](#disagreements-found)
- [What is not modelled](#what-is-not-modelled)
- [Plan](#plan)

## The system

The components are separate programs. The only ones that interact are the two
copies of battleship (through a TCP connection), the shells with the kernel
(through fork, exec, wait and pipes) and the threads of the letter counter
(through shared memory).

| component | state it keeps | operations | what is hard | what makes it correct |
|---|---|---|---|---|
| **battleship** `lab8/battleship.c` | two grids, two boat counters, a turn counter, a signal flag, `errno`, a socket; per process | place boats, listen/accept/connect, prompt, send and receive a byte, handle a move or a result, forfeit, close | two processes whose turn counters are private; untagged bytes; a signal between or inside system calls; failing sends, resets, deaths; both block in `recv()` with no timeout | the boards agree, turns alternate, verdicts are deserved and agree, both programs end |
| **process management** `lab9/process.c` | list of PCBs, parent pointers, states, main threads, their join queues, memory, descriptors | fork, execve, exit, waitpid, sbrk, renice, look-ups | waitpid sleeps between a look-up and its use; exec replaces a thread others wait for; zombies that are kept for their children; renice and the listing follow PCBs with interrupts enabled | no orphan, no lost wake-up, no use of a freed PCB, only the dead are reaped |
| **page replacement** `lab13/memreplace.c` | page table bits, 8-bit virtual clock, time of use per page | access under LRU, access under WSC | wrapping clock; bits written in four places | three frames, no page lost, LRU order, second chance |
| **virtual memory** `lab11/memsim.c`, `lab12/memsim.c` | page table of 16-bit entries, memory bytes | `get_byte`, `store_byte`, initialisation | frame numbers and rights share an entry; inverted mapping | it is a memory with rights |
| **shell with pipe** `lab7/sh.c` | descriptors of three processes, a bounded pipe | pipe, fork, dup2, exec, waitpid, kill, exit | the order of waits, ends left open, a full pipe, the second of two calls that fails | every command ends, the pipe is given back, every byte is delivered |
| **shell with background** `lab5/sh.c` | children not waited for | fork, exec, waitpid, kill, exit | zombies; a failing fork whose result is used as a pid | the children of the foreground are reaped |
| **letter counter** `lab6/lab6.patch` | text, chunks, counters per thread | split, create, count, join, sum | a creation that fails while threads run; bounds of the alphabet | every letter is counted once; no memory is freed in use |
| **ls, ln** `lab14` | none | one-shot directory and link calls | - | - |
| **kernel exercises** `lab4`, `lab9`, `lab10` patches, **introductory patches** `lab1`-`lab3` | none here | edits of files that are not in the repository | - | - |

The hazards of each component, with the line where each bites and the
properties that watch it, are the `hazards` of PROJECT.json.

## Modules

### Battleship.tla - `lab8/battleship.c`

Both copies of the program and the TCP connection between them. Every variable
of the program that decides something is a function over `{"server",
"client"}`: `pc` is where the program stands, `attacking` is `firstIter % 2`
(only its parity is read), `retryCount` that of the `socketSend()` in progress,
`eintr` says that `errno` holds `EINTR`. `outcome` is the verdict printed.
The connection is `inbox` (bytes sent to a side and not read), `conn` (the
state of a side's socket) and `rst` (a reset on its way); it is external code,
modelled by what the program can see of it.

A step is what happens between two points where the user, the peer or the
kernel can interfere: one system call and the code up to the next one. So
`socketSend()` is `SendSucceeds`, `SendFails` or `SendKilled`, each with the
code of its callers (`AfterSend`); `socketRecv()` is `RecvFails`,
`RecvInterrupted`, `RecvStale`, or a byte handed to `OpponentForfeits`,
`HandleResult` or `HandleMove`. SIGTSTP may arrive while a call is blocked
(the `...Interrupted` actions: the call returns `EINTR`) or anywhere else in
the loop (`Signal`: only the flag is left). SIGINT and SIGPIPE keep their
default action (`Kill`, `SendKilled`). `errno` is not reset by a call that
succeeds, and `socketRecv()` tests it without looking at the value returned:
`RecvStale` consumes a byte and reports a failure.

### BattleshipGame.tla - what battleship promises

Two boards and two verdicts, without processes, bytes or signals. Players
shoot in turn at cells not shot before, whoever has boats may give up while the
game is undecided, a defeat is announced before the victory that answers it.
`Battleship!PlaysTheGame` is the refinement with `board <- userGrid` and
`verdict <- outcome`.

### BattleshipLockstep.tla - why bytes without tags are enough

No new behaviour: predicates on the state of Battleship that say, for each pair
of places of the two programs, which bytes are between them (`InStep`, and
`Leftover` once one program is gone), and their conjunction `LockInv` with what
goes with it. The run `play` checks it, on this module, with what follows from it,
and `BattleshipProofs` proves it an invariant.

### Process.tla - `lab9/process.c`

There is one processor. fork(), execve() and waitpid() run with interrupts
disabled, and so does exit() once its descriptors are closed: each is one action,
except waitpid, cut in two by `thread_join()` (`WaitPid`/`WaitAny`, and
`WaitReturns` with the child pointer it kept). `procList` is `proc_list` (pids
grow, so its order is theirs), `mainThread` is named by its process and the
number of execve() calls before it, `joinQueue` is the queue of each thread.
`pgtable` says whether waitpid has given the memory back.

`do_renice()` and `dump_proc()` leave interrupts enabled, so that other processes
run between two of their steps: `Renice` looks the process up and `SetPrio` uses
what was found; `dump_proc` starts at the head of the list and each `PrintEntry`
prints one process and follows the pointer to the next. `visit` is the call in
progress and the PCB it stands on.

`fault` says how the kernel stopped: `panic` (the root process exits),
`assert` (an ASSERT of execve), `joinNull` (`thread_join(NULL)`), `freedPcb`
(waitpid uses a PCB after it was freed), `noPcb` (`do_renice()` of a process that
does not exist) and `stalePcb` (`do_renice()` or `dump_proc()` follows a PCB that
has no main thread or is gone). `foreign` and `again` are history variables:
somebody waited for a process that is not its child, or named in waitpid a process
already reaped. The code refuses neither. After a fault the model stops.

`thread_join()` and `thread_exit()` are not in the repository. From their use:
join queues the caller on a thread that lives and cleans a zombie; the exit of a
thread makes ready all that are queued on it. Calls that fail (unknown pid, no
zombie, no such file) return without changing this state: they are stutters.
`WNOHANG` on a live child likewise. Only main threads make calls. Ptrace, the only
user of the WAITING state, is not in the repository. Exit codes and names are left
out; memory and descriptors are the subject of the next two modules.

### ProcMemory.tla - `lab9/process.c`

The user memory of the processes: which frames are free, the reference count of
each, the list of pages and the page table of each process, `page_count` and the
two ends of the heap. `Fork`, `Execve`, `Sbrk`, `Exit` and `Reap` are whole
handlers. `do_sbrk()` does not disable interrupts, but it only touches the break
of its own process, whose threads other than the main one are not modelled.
`allocate_page`, `release_proc_pages` and `add_page_to_proc` (`Add`) are operators
on the record `memory`, composed in the order in which
`setup_proc_image_replace()` calls them (`Replace`). The layout is that of the
code: the stack below the page of arguments, the image from page 1, the heap one
page past the *number* of pages counted so far, whatever their places.
`get_free_page()`, `create_mapping()`, `reset_root_pgtable()` and
`duplicate_user_space()` are not in the repository: the first hands out the lowest
free frame (which one does not matter to the properties), the last copies every
mapped page of the parent to a new frame of the child. Want of a frame is
`BUG_ON(!page)`: the model stops.

Process and ProcMemory are two views of one kernel. Their steps have the same
names and neither reads what the other keeps, except that a process is reaped
only when it is a zombie, which ProcMemory takes as the guard of `Reap` and
Process shows (`OnlyDeadReaped`).

### Shell.tla - `lab7/sh.c` and `lab5/sh.c`

The shell, the processes it starts and the one pipe between two of them. `lab`
says which program it is. Each system call of the shell and of its children is a
step, so that they interleave: `pc` is the next one of each process. `fds` are
the descriptors of each process, copied by fork, filled from the lowest free
slot (`proc_new_fd()`), overwritten by dup2, emptied by exit. `pipe_fd`,
`is_pipe` and the two pids are locals of `process_cmd()`, which a child finds as
they were at the fork. The left program writes any number of bytes up to
`MaxOutput`, the right one reads to the end of its input or does not read. The
pipe is code of the kernel that is not here: a writer waits while it is full, a
reader while it is empty and somebody holds a write end.

A failing `pipe()`, `fork()` or `execv()` is an action of its own. When lab7's
shell exits, it ends (`nested`: another shell started it) or the kernel stops,
since the root process may not exit. Lab5's shell does not test `fork()`, and
waits for "process -1" (`LaunchFails`, `WaitAnyChild`).

### LetterCounter.tla - `lab6/lab6.patch`

`main()` and its threads, which share the text and the array of parameters.
`CreateThread`, `JoinThread`, `Display` and the `free()` calls are the steps of
`main()`; clearing the counters, one turn of the loop, and the return are the
steps of a thread. A thread touches memory that may be gone: `fault` is the
first such access - `freed`, `overread` (past the text), `overrun` (past the
counters) - after which the model stops. A character is a case and an offset
from the first letter; the offset `LettersNb` is the character just past the
alphabet, which the code takes for a letter.

### MemSim.tla and VirtualMemory.tla - `lab12/memsim.c`, `lab11/memsim.c`

`get_byte` and `store_byte` over a page table whose entries are the numbers
`init_page_table()` writes, shifts and masks being products and remainders.
`attributes` is `MEMORY_PTE_ATTRIBUTES_ACTIVE`; the program of lab11 is the one
without. VirtualMemory is the abstract memory: an array of bytes, the set of
readable and that of writable addresses. `MemSim!IsAMemory` is the refinement.

### PageReplace.tla - `lab13/memreplace.c`

A bit of the page table is the set of pages that have it. `policy` is the argument
of the program, which never changes. An access is one turn of the main loop: the
fault, the victim, the exchange, the reference bit, the clock and the times of
use. `updateTDU` changes nothing, as in the code: its condition, `REF_BIT_MASK &
VALID_BIT_MASK`, is the constant 0. `clock` and `lastUse` are history variables:
the unbounded clock the 8-bit one stands for.

### Others

`MCBattleship` and `MCPageReplace` hold what only TLC needs. The theorems are in
`BattleshipProofs` (about Battleship and BattleshipLockstep),
`BattleshipGameProofs`, `ProcessProofs`, `ProcMemoryProofs`,
`ShellProofs`, `LetterCounterProofs`, `MemSimProofs` and `PageReplaceProofs`.
Definitions introduced by "Faulty variant" are what a plausible mistake in the
code would make of the definition that follows; nothing else uses them.

## What TLC checks

All runs say `CHECK_DEADLOCK FALSE`, because what they model stops: a game ends
or its programs die, the kernel stops at a fault, a program ends, and the numbers
of accesses, processes, execve() calls and stores are bounded.

| run | question | bounds and why they are enough |
|---|---|---|
| `play` | Do the two programs stay in step? `TypeOK`, `BoatsCounted`, `BoardsAgree`, `TurnsAlternate`, `NobodyWaitsInVain`, `VictoryDeserved`, `ResultIsGridState`, `LockInv`, and the refinement `PlaysTheGame` | 3 cells and 2 boats: a hit that ends nothing, a miss, a repeated cell and the last hit all occur. One retry and at most one failure per send: a send may fail and be retried, but no byte is given up (see `lost_result` for what happens otherwise) |
| `live` | Does every game end? `GameEnds`, under fairness | 3 cells, 1 boat; the boat of the server is in a fixed cell, all orders of shots remaining |
| `quit` | Is a player's Ctrl+Z announced? violated | see below |
| `lost_result` | Is what the attacker reads a result? violated with the real limit of 3 retries | see below |
| `pages` | Are pages and frames conserved, and is the right page evicted? `TypeOK`, `FramesConserved`, `NoPageLost`, `RecentUntilWrap`, `SecondChance` | 5 pages, 3 frames, both policies, every sequence of 8 accesses; the clock has 5 values and a window of 2, so that it comes round, and under WSC all pages are out of the window at some accesses and none at others |
| `wrap` | Does LRU survive the wrap? violated | the real 8-bit clock; page 0 until access 253, then free |
| `processes` | `TypeOK`, `ParentsListed`, `WaitersQueued`, `FaultsExplained`, `SomeoneRuns`, `OnlyDeadReaped`, and `ExitWakesWaiters` under fairness | 3 processes with two execve() each: a grandchild, a zombie kept for its child, two waiters on one child, a cycle of waiters, an exec under a waiter, twice in a row, and a process reaped during a `do_renice()` or a `dump_proc()` all occur |
| `exec_assert` | Do the ASSERTs of execve() hold? violated | 3 processes |
| `frames` | Is memory conserved and private? `TypeOK`, `FramesAccounted`, `FramesPrivate`, `HeapMapped`, `PagesCounted` | 3 processes, 10 frames, images of 1 and 2 pages: one process may have two images in turn, a smaller or a larger one after it, and two processes with images exhaust the frames |
| `shell` | Does a command line come to its end, whole and without leftovers? `TypeOK`, `PipeReleased`, `ForegroundReaped`, `PipelineDelivers`, `NoCommandHangs`, and `CommandEnds` under fairness | 5 children: two pipelines and one more command, or five in the background; a pipe of 2 bytes and programs that write up to 3, so that a full pipe occurs; 6 descriptors, one more than the shell and a pipe need |
| `letters` | Are the counts exact and the memory safe? `TypeOK`, `CountsExact`, `FaultsExplained`, and `Terminates` under fairness | texts of up to 3 characters over an alphabet of 2, up to 3 threads: fewer characters than threads, a remainder, none; failures at every creation and join |
| `memory` | `TypeOK`, `FramesPermuted`, `IsAMemory` | 4 pages of 8 bytes, one per combination of the rights of `init_page_table()`; 2 stores, for a page and one it could overwrite. Eight is the smallest page whose offset holds the three attribute bits |

Two questions have a theorem and no run: that indices and counters stay exact
when results are lost for good and the two programs drift apart
(`TypeCorrect` and `CountersAreExact` of BattleshipProofs, which assume nothing
of the failures), and that the abstract game is consistent
(`BattleshipGameProofs`).

**Fairness.** `Battleship!FairSpec` asks that a program that can take a step
does (the system schedules both), that a reset on its way arrives, and that a
prompted user ends up typing a cell not attacked yet (strong, since rejected
input comes back to the prompt, which is the loop the program offers). Nothing is
assumed of signals, failures of send, or kills. A program suspended for ever,
for instance by Ctrl+Z before its handler is installed, is thereby left out.
`Process!FairSpec` asks only that the processor does not stay idle while a thread
is ready (`Dispatch`): programs need not exit, wait or execute anything, and one
that is busy may keep the processor for ever from threads of its priority or of a
lower one, as `lab9/rapport.md:47` and `:65` report. `ExitWakesWaiters` therefore
has the hypothesis that the other programs, from some time on, no longer are busy:
each is dead or inside waitpid.
`Shell!FairSpec` asks that the shell, between two prompts, and each child take
their steps when they can, which is what the scheduler does; the user may stop
typing for ever, a call may fail or not, and no program is assumed to exit other
than by having written and read what it had to. `LetterCounter!FairSpec` asks it
of `main()` and of each thread; a `free()` or a join is one of those steps.

**What the runs show beyond single steps.** `PlaysTheGame` and `BoardsAgree`
are about both programs although each sees only its own half: the defender
flips its turn when it has sent a result, the attacker when it has read it.
`TurnsAlternate` says precisely how far apart they may be. `NobodyWaitsInVain`
is what keeps a `recv()` without a timeout from hanging, whatever moment the other
program dies at. `VictoryDeserved`
covers a winner that learns of its victory after the loser has exited, with the
last result still in the stream, and resets that destroy it.

`SecondChance` speaks of the reference bit, not of the working set window: with
the times of use never updated, "a page out of the window was not used in the
last DELTA accesses" is false of this code.

`RecentUntilWrap` speaks of the accesses before the clock comes round; the run
`wrap` shows what happens after, and that it is the clock that does it.

`CommandEnds` says that the prompt comes back, and has one hypothesis and one
exception. The hypothesis is a shell that does not end: a failing `pipe()` or
`fork()` makes lab7's shell call `exit()`, and the user of such a shell never sees
the prompt again (see [Disagreements found](#disagreements-found)). What such an
end leaves behind is said by `PipeReleased` and `ForegroundReaped`: no end of a
pipe and no zombie. A failing `fork()` of lab5 does not end the shell, and is
covered by `CommandEnds`. The exception is a limit of the shell: it waits for the
left program before it forks the right one, so that a left program that writes
more than the pipe holds waits for ever for a reader that will never be started.
Whatever is left in the pipe by a shorter one is read after its death
(`PipelineDelivers`), and that requires the shell to keep its own read end until
then, while `CommandEnds` requires it, and the right child, to close the write end
in time. `NoCommandHangs` is what `CommandEnds` asks of each state: whatever the
shell sleeps on can take a step (`GoesOn` restates the conditions under which a
call of a child waits). `ForegroundReaped` is what the failing `fork()` of lab5
could break: the wait for "process -1" may only clean children of the background.

`HeapMapped` and `FramesPrivate` say that the place of the heap, computed from a
number of pages, neither falls into the image nor leaves the break unmapped,
through any series of execve(), fork() and sbrk(). They need the count to start
again at each execve(), which `PagesCounted` says. `HeapMapped` is about
programs: the root process has no heap before its first execve(), its break
starts at address 0, and `do_sbrk()` does not refuse.

`FaultsExplained` of LetterCounter lists the two ways in which the letter
counter leaves its memory; the run shows that both happen, and that there is no
other.

`SomeoneRuns` has the hypothesis that nobody waited for a stranger: processes
that wait for each other, or for themselves, sleep for ever, and the code lets
them.

## What is proved

TLAPS checks the following for every value of the constants that satisfies the
ASSUMEs (TLC evaluates those in the runs). They are the restrictions the code
itself needs: cells must differ from FORFEIT (127), a result taken for a move
must be an index of the grid (at least 3 cells), the fleet must fit on it,
pages 0 to 3 are named by the initial table, and the kernel has frames for the
first stack and some program to execute, and every image fits in the address space.

**Battleship: `TypeCorrect`, `CountersAreExact`.** Every index, counter and
byte stays in range and the counters equal the numbers of boats on the grids,
for all grid sizes, fleets, retry limits and failures, drift included. `TypeOK`
is not inductive: `advBoats` could be decremented below 0. `TypeInv` adds that
in the game the counters are positive unless the program is about to conclude,
and that the input is a cell whenever it is used as an index. `CountInv` adds to
`BoatsCounted` that a shot under way is at a cell never shot at (so a result
counts once), that the fleet is complete before the game and that nothing is
known of the other fleet then. The proof is by actions grouped by what they
write: a lemma per group of variables (`BoardSteps`, `PcSteps`, `NetSteps`,
...) and one per action that changes boards.

**Battleship: `LockStep`, `BoardsStayEqual`, `TurnsAreTaken`,
`VictoriesAreDeserved`, `ResultsAreResults`, `RecvReturns`, `GameIsPlayed`.** They
have one hypothesis, `SendsHold` (`MaxSendFailures <= SendRetryLimit`): no send is
given up. The run `lost_result` shows that it is needed. Signals, give-ups, kills,
deaths, resets and retried sends are all allowed. `BoardsAgree` and its companions
are far from inductive: that the byte an attacker reads is the result of its shot
depends on everything the other program did since it read that shot. `LockInv` is
the conjunction of

- `Streams`: while both programs run, one of five situations (`InStep`): the shot
  is to be fired, is in the stream or under the eyes of the defender, its result
  is to be sent, or is in the stream alone or followed by the next shot. Once a
  program is gone, what its peer may still read (`Leftover`), `FORFEIT` included;
- `RoleInv`: the program counter shows the role, and the byte sent as a move is
  the cell typed;
- `FleetInv`: a fleet is placed once, before the connection exists. The client
  may connect and shoot before the server has come back from `accept()`, and
  nothing else orders the two;
- `ConnInv`, `Undecided`: a socket is closed and reset by a program that is gone,
  and the boats of a program that plays are not all sunk;
- `Agree` and `VictoryDeserved`: what the attacker knows is true, except for its
  last shot as long as the result is under way.

It rests on `TypeInv` and `CountInv`: a counter that reaches 0 is a board without
boats. The proof is by what a step changes: the boards (`Agree`), the numbers of
boats, the verdicts, the steps the opponent cannot notice (`QuietStreams`), and
those that put or take a byte (`SendStreams`, `MoveStreams`, `ResultStreams`).
`RecvReturns` adds `ShutInv`, inductive over `TypeOK` alone: a program that ended
has closed its socket if there ever was a connection, and there is none before both
programs have left their set-up; none of the five situations has two programs
waiting with both streams empty. For the refinement, placing,
a shot that falls, a defeat, a victory and a forfeit are the steps of
BattleshipGame with the same content, and all others stutter.
`VerdictsOfPrograms` and `BoardsOfPrograms` carry the two theorems about the
abstract game over to the programs: neither user is told anything that contradicts
the other's verdict, and no board changes after the first verdict.

**BattleshipGame: `VerdictsAlwaysAgree`, `BoardsAreFrozen`.** `IInv` adds that
a sunk fleet leaves the other afloat: otherwise both could be told they lost.
Their hypothesis, `BoardAssumption`, is that the game has a fleet that fits on
the board.

**Process: `TypeCorrect`, `NoOrphan`, `SleepersAreQueued`, `KernelIsSafe`,
`NoDeadlock`, `LivingAreKept`.** `Inv` is the conjunction of the invariants of the
run and of what makes them inductive:

- `Tree`: the root is alive and every other process of the list has its parent
  there; that is `ParentsListed`, which survives a removal because only
  childless zombies are removed, and a fork because a caller is in the list;
- `Fresh`: pids to come are NEW, so that no caller or child is among them;
- `Visited`: a process created and no longer in the list was reaped, and what
  `do_renice()` or `dump_proc()` stands on was created: whatever they find gone was
  given back by waitpid;
- `Alive`: the living have a main thread, and a missing main thread means freed
  memory: this is what makes a NULL join a second wait for the same process;
- `Callers`: only living processes are inside waitpid, and one that has been
  woken has a dead child;
- `Queued`: whoever is queued on a thread sleeps until the process that has
  this main thread now ends; with `WaitersQueued` it is an equivalence, which
  execve() must keep while it moves a waiter;
- `OwnChildren`: as long as nobody waits for a stranger there is at most one
  waiter per thread, the parent, and the child is still there when it wakes up.
  `FaultsExplained` rests on it.

`NoDeadlock` (`SomeoneRuns`) is a consequence of `Inv`: were every living process
asleep, the child each waits for would be alive, different for each (it has one
parent) and never the root, so that there would be fewer living processes than
there are.

**ProcMemory: `FramesAreAccounted`, `HeapIsMapped`, `FramesArePrivate`,
`PagesAreCounted`, `TypeCorrect`.** For any number of frames,
processes and pages, and any sizes of images, stack and heap. A lemma per
operator of the memory (`AddFacts`, `MapFacts`, `ReleaseFacts`, `ResetFacts`,
`ReplaceFacts`) says that it keeps `Accounted`, the equality of each count with
the number of the processes that list the frame, and what it does to the domains
of the page tables; the handlers are compositions of these. `Heaps` says that the
heap of a program is made of whole pages, all in its table, and that the break is
in it: `HeapMapped` follows by a division (`QuotientFacts`), and fork() keeps it
because the child gets every page of its parent.

The other three need to know that n pages get n frames, pairwise different.
`Inv` does not say so: were there fewer frames than pages, two pages would have
the same. `FullInv` adds `Pages`: the page table of a running process is injective
and its frames are those of its list (`Private`), lists do not intersect
(`Disjoint`), a process not created has neither, the break stays below the page of
arguments, and the page count of a program is the length of its list. Frames are
handed out by rank: `RankOnto` says that a set of n integers has one element of
each rank below n (the rank is an injection into an interval of the same size),
so that `RankMap`, from the pages to the frames of the same rank, is a bijection.
Thus `MapKeeps`: pages that were not mapped get frames nobody had. fork() maps a
table that was empty; execve() maps four ranges which `Layout` shows disjoint, after
`ReleaseAll` and `ResetTable` (`ReplaceIsSound`); the tests of both handlers for
the lack of frames are what leaves enough for each of the four. exit() empties the
list and leaves the table to waitpid(), which is why `Private` is asked of running
processes only.

**Shell: `TypeCorrect`, `PipesAreReleased`, `ForegroundIsReaped`,
`PipelinesDeliver`, `CommandsGoOn`.** For pipes, outputs and descriptor tables of
any size, both shells, every interleaving and every failing call. `Inv` says what
the processes hold at each step of the shell:

- `Labs`, `Numbers`: which steps each shell can be at, and that the children of a
  command have fresh pids, the second one greater;
- `ShellEnds`: the descriptors of the shell, step by step, and none when it has ended;
- `Holders`: no process holds an end of the pipe but the child that the shell
  waits for. That the shell waits for the writer before it starts the reader is
  what makes it so;
- `Roles`: which ends the two children hold until they execute their program;
- `Foreground`: a child is reaped, in the background, or the current one; it
  includes the failing fork() of lab5, whose result is waited for;
- `Flow`: what was produced is what was received, what is in the pipe and what
  the writer has still to write. A reader sees the end only when nobody holds a
  write end and the pipe is empty; the writer is dead by then, so that the rest is
  zero: `PipelineDelivers`.

`CommandsGoOn` adds `Reader`: a child that was created exists, and the right one
holds the write end only until it closes it. While the shell is in its last wait
nobody else holds one, so that the reader finds a byte or the end of its input; a
left program that waits has filled the pipe, and by `Flow` it writes more than
the pipe holds.

**MemSim: `TypeCorrect`, `FramesArePermuted`, `SimulatorIsAMemory`.** For any
number of pages, any size of page that is a multiple of 8 and any rights.
`EntryFacts` is the arithmetic of an entry: its quotient by the size of a page is
the frame that was written, its three low bits the attributes. `Injective` says
that two addresses are never the same byte. With them every call of `get_byte()`
and `store_byte()` is the call of VirtualMemory with the same arguments, which is
the refinement `IsAMemory`.

**PageReplace: `TypeCorrect`, `FramesStayThree`, `PagesAreKept`,
`LRUIsLeastRecentlyUsed`, `SecondChanceIsGiven`.** `IInv` adds that only resident
pages have their reference bit, and that LRU sets none. `LRUIsLeastRecentlyUsed`
has the hypothesis that there are fewer accesses than values of the clock, and
adds that the clock and the times of use are exact until then; the run `wrap`
shows that the hypothesis is needed. `SecondChanceIsGiven` follows from where the
hand stops.

**LetterCounter: `TypeCorrect`, `CountsAlwaysExact`, `MemoryIsSafe`.** For every
text, alphabet and number of threads, and every schedule. `ChunkFacts` is the
arithmetic: a chunk starts where the one before ends and the last one ends with
the text, so that no chunk reaches past it, even with more threads than
characters. `Counting` says that a thread has counted exactly the letters of its
chunk up to its index, `Adding` that `main()` has added those of the chunks
before the one it waits for; `PlacesSplit` glues two adjacent intervals together.
`Memory` says that nothing is freed before a failure or the end of every thread:
`MemoryIsSafe` follows from it. That the counters are zeroed by the threads, and
joined before they are read, is what the steps of `Counting` and `Adding` use.

**Only model-checked.** Every invariant, action property and refinement of the
passing runs has its theorem. `GameEnds`, `ExitWakesWaiters`, `CommandEnds` and
`Terminates` are liveness properties under fairness, which this prover does not
treat, nor does it treat ENABLED: they stay with TLC.

## Disagreements found

- **`quit`**: the comment at `lab8/battleship.c:134` says that the handler of
  Ctrl+Z warns the opponent and closes the socket. It only raises a flag. If
  the signal falls between two system calls, the loop test leaves the game
  without sending anything, and the program exits with success.
- **`lost_result`**: the value of `socketSend()` is ignored for results. After
  four failures in a row the defender goes on to its own turn and the attacker
  reads the next move as the result of its shot.
- **`wrap`**: the clock of LRU is a `uint8_t`. Access 256 stores 0, the
  smallest time of use, for the page just used, which is the next victim.
- **`exec_assert`**: waitpid does not look at who the parent is. A process that
  executes a file while a stranger waits for it makes the ASSERT at
  `lab9/process.c:739` fail, or the one at 747 when two wait.

Met in the models, without a run of their own:

- **the root shell ends**: `lab7/sh.c:82` says that the root shell "can not be
  terminated", and refuses `exit`. But lines 167, 180 and 222 call
  `exit(EXIT_FAILURE)` in any shell when `pipe()` or `fork()` fails; in the root shell
  the kernel stops (`PipeFails`, `Fork1Fails` and `Fork2Fails` lead to `panic`).
- **letters past the alphabet**: `lab6/lab6.patch:76` says that characters outside of
  the alphabet are ignored. The comparisons at lines 69 and 73 admit one more, `[`
  and `{`, which are counted past the end of the array (`overrun`; `FaultsExplained`
  of LetterCounter lists it).
- **no thread**: the message at `lab6/lab6.patch:91` says that the number of threads
  must be between 0 and 15; line 122 divides by it. The test that goes with the
  message is not in the repository, and the model takes at least one thread.

Noted while reading: the condition of `updateTDU()` in
`memreplace.c` is a constant 0; `do_waitpid(-1)` returns -1 when nothing is to
be cleaned where its comment (`process.c:915`) says 0; early returns of
`do_fork()` and `do_waitpid()` leave interrupts disabled; a zombie kept for its
children is not removed when they are gone; the comment at
`lab12/memsim.c:287` says that addresses are mirrored, but only the page
numbers are.

## What is not modelled

- In battleship, argument parsing, the printed boards, and end of file on the
  standard input.
- In process.c, the effect of a priority (that of the scheduler, not here),
  threads other than the main one, ptrace, exit codes, the parsing and loading of
  ELF files, and the preservation of the arguments: `__args_env < 0` is never true
  of a pointer, so that arguments longer than a page are lost without an error.
- In the shells, `setenv`, `env` and the listings, which no other step reads, and
  how a line is cut in tokens: more than `TOKEN_NR` tokens, or a `|` with nothing
  on one side, are not commands of the model.
- In the letter counter, the loading of the file and its arguments.
- In memsim.c, `print_page()` and the test loops of `main()`, which are
  sequences of the modelled calls.
- `lab14/ls.c` and `lab14/ln.c`: sequential input and output. The only state that
  outlives an entry of `ls` is the number of descriptors `link_to_str()` leaves
  open; `main()` gives `print_info_file()` a name that is looked up in the current
  directory, whatever directory is listed (its comment, `ls.c:103`, says a path).
- Patches on files that are not here (`lab1` to `lab4`, `lab10`): too little of
  the program is visible to say what it does.

## Plan

The modules, in the order in which they were written: Battleship with its
abstract game, PageReplace, Process, MemSim over VirtualMemory, Shell,
LetterCounter, ProcMemory. What is left:

1. One module that instantiates Process and ProcMemory and joins their actions
   by name.
2. Threads other than the main one, if the kernel's `thread.c` becomes part of
   the repository: `threads_active` and the exit of a process with live threads
   depend on it.

Theorems:

1. For the joined module, that each of the two kernels' views is implemented by
   it, so that the theorems of both hold of it.
2. What other liveness properties rest on and is a state predicate, as
   `SomeoneRuns` is for Process, `NoCommandHangs` for Shell and
   `NobodyWaitsInVain` for Battleship.
