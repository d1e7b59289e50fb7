------------------------------ MODULE Process ------------------------------
(***************************************************************************)
(* The life of the processes of the SO3 kernel: fork, execve, exit and     *)
(* waitpid of lab9/process.c.  There is one processor.  fork, execve and   *)
(* waitpid run with interrupts disabled, and so does exit once it has      *)
(* closed the descriptors: each is one action, but for waitpid, which      *)
(* sleeps in thread_join() and goes on later with the child it looked up   *)
(* before.  do_renice() and dump_proc() leave interrupts enabled, and      *)
(* another process may run between any two PCBs they look at.              *)
(*                                                                         *)
(* Only main threads make these calls.  A main thread is named by its      *)
(* process and by the number of execve() the process went through, since   *)
(* execve() replaces the main thread.  Memory and descriptors are in the   *)
(* modules ProcMemory and Shell; names, priorities, exit codes and ptrace  *)
(* (which nothing in this file requests) are left out.                     *)
(***************************************************************************)
EXTENDS Integers, Sequences, FiniteSets

CONSTANTS MaxPid,     \* bound: processes created in a behaviour
          MaxExecs    \* bound: execve() calls of one process

ASSUME PidAssumption  == MaxPid \in Nat \ {0}
ASSUME ExecAssumption == MaxExecs \in Nat

Root    == 1
Pids    == 1..MaxPid
Threads == Pids \X (0..MaxExecs)
NULL    == <<0, 0>>

VARIABLES
  nextPid,     \* pid_current
  procList,    \* proc_list: appended to in the order of the pids
  parent,      \* pcb->parent
  state,       \* pcb->state
  mainThread,  \* pcb->main_thread
  pgtable,     \* pcb->pgtable: mapped, or freed by waitpid
  joinQueue,   \* tcb->joinQueue of every thread
  pc,          \* a process runs user code, sleeps in thread_join(), or is
               \* ready to leave it
  child,       \* the local variable of the do_waitpid() in progress
  visit,       \* the do_renice() or dump_proc() in progress: whose it is, and
               \* the PCB it has found and is about to follow
  foreign,     \* history: somebody waited for a process not its child
  again,       \* history: somebody named in waitpid() a process reaped before
  fault        \* how the kernel stopped, if it did

procs == <<nextPid, procList, parent, state>>
waits == <<pc, child>>
hist  == <<foreign, again>>
vars  == <<procs, mainThread, pgtable, joinQueue, waits, visit, hist, fault>>

Faults == {"none", "panic", "assert", "joinNull", "freedPcb", "noPcb", "stalePcb"}

\* One call at a time is enough: the two do nothing another one could notice,
\* so that without the others each meets the same PCBs.
Nobody == [by |-> 0, call |-> "none", at |-> 0]
Visits == [by : Pids, call : {"renice", "list"}, at : Pids]

TypeOK ==
  /\ nextPid \in 2..(MaxPid + 1)
  /\ procList \subseteq 1..(nextPid - 1)
  /\ parent \in [Pids -> 0..MaxPid]
  /\ state \in [Pids -> {"NEW", "READY", "ZOMBIE"}]
  /\ mainThread \in [Pids -> Threads \cup {NULL}]
  /\ \A p \in Pids : mainThread[p] # NULL => mainThread[p][1] = p
  /\ pgtable \in [Pids -> {"mapped", "freed"}]
  /\ joinQueue \in [Threads -> Seq(Pids)]
  /\ pc \in [Pids -> {"user", "joining", "joined"}]
  /\ child \in [Pids -> 0..MaxPid]
  /\ visit \in Visits \cup {Nobody}
  /\ foreign \in BOOLEAN /\ again \in BOOLEAN
  /\ fault \in Faults

\* create_root_process()
Init ==
  /\ nextPid = 2
  /\ procList = {Root}
  /\ parent = [p \in Pids |-> 0]
  /\ state = [p \in Pids |-> IF p = Root THEN "READY" ELSE "NEW"]
  /\ mainThread = [p \in Pids |-> IF p = Root THEN <<p, 0>> ELSE NULL]
  /\ pgtable = [p \in Pids |-> "mapped"]
  /\ joinQueue = [t \in Threads |-> << >>]
  /\ pc = [p \in Pids |-> "user"]
  /\ child = [p \in Pids |-> 0]
  /\ visit = Nobody
  /\ foreign = FALSE /\ again = FALSE
  /\ fault = "none"

\* p is scheduled and executes user code.
Runs(p) ==
  /\ fault = "none"
  /\ p \in procList
  /\ state[p] = "READY"
  /\ pc[p] = "user"
  /\ visit.by # p

Crash(why) ==
  /\ fault' = why
  /\ UNCHANGED <<procs, mainThread, pgtable, joinQueue, waits, visit>>

-----------------------------------------------------------------------------
\* find_proc_by_parent(): empty for NULL.
Children(p) == {q \in procList : parent[q] = p}

\* Faulty variant: every zombie is returned.
AnyZombie(c) == c \in procList /\ state[c] = "ZOMBIE"

ToClean(c) ==
  /\ c \in procList
  /\ state[c] = "ZOMBIE"
  /\ mainThread[c] # NULL

\* find_proc_zombie_to_clean(): the first one of the list.
ZombieToClean(c) == ToClean(c) /\ \A q \in Pids : ToClean(q) => c <= q

-----------------------------------------------------------------------------
\* Faulty variant: pid_current is not advanced.
SamePid == nextPid' = nextPid

\* pid_current++
TakePid == nextPid' = nextPid + 1

\* new_process(): a PCB at the end of the list.
NewProcess ==
  /\ TakePid
  /\ procList' = procList \cup {nextPid}

\* do_fork(), with duplicate_process().
Fork(p) ==
  /\ Runs(p)
  /\ nextPid <= MaxPid
  /\ NewProcess
  /\ parent' = [parent EXCEPT ![nextPid] = p]
  /\ state' = [state EXCEPT ![nextPid] = "READY"]
  /\ mainThread' = [mainThread EXCEPT ![nextPid] = <<nextPid, 0>>]
  /\ UNCHANGED <<pgtable, joinQueue, waits, visit, hist, fault>>

\* Faulty variant: the end of a thread wakes nobody.
WakeNobody(t) == pc' = pc

\* The threads queued on t are made ready by the thread_exit() of t.
WakeWaiters(t) ==
  pc' = [q \in Pids |-> IF \E i \in DOMAIN joinQueue[t] : joinQueue[t][i] = q
                          THEN "joined" ELSE pc[q]]

\* Faulty variant: whoever waits for the replaced thread is woken by its end.
ExecWakesWaiters(p, old, new) ==
  /\ WakeWaiters(old)
  /\ joinQueue' = [joinQueue EXCEPT ![old] = << >>]
  /\ mainThread' = [mainThread EXCEPT ![p] = new]
  /\ UNCHANGED <<procs, pgtable, child, visit, hist, fault>>

\* Faulty variant: whoever waits stays queued on the replaced thread.
ExecForgetsWaiters(p, old, new) ==
  /\ mainThread' = [mainThread EXCEPT ![p] = new]
  /\ UNCHANGED <<procs, pgtable, joinQueue, waits, visit, hist, fault>>

\* The first thread waiting for the old main thread is moved to the new one:
\* the ASSERTs say that it belongs to the parent and that it is the only one.
TransferWaiter(p, old, new) ==
  IF \/ Len(joinQueue[old]) > 1
     \/ joinQueue[old] # << >> /\ Head(joinQueue[old]) # parent[p]
    THEN Crash("assert") /\ UNCHANGED hist
    ELSE /\ joinQueue' = [joinQueue EXCEPT ![new] = joinQueue[old],
                                           ![old] = << >>]
         /\ mainThread' = [mainThread EXCEPT ![p] = new]
         /\ UNCHANGED <<procs, pgtable, waits, visit, hist, fault>>

\* do_execve() of a file that exists.  With any other file only the name of
\* the process changes.
Execve(p) ==
  LET old == mainThread[p]
      new == <<p, old[2] + 1>>
  IN  /\ Runs(p)
      /\ old[2] < MaxExecs
      /\ TransferWaiter(p, old, new)

\* do_exit(): the process becomes a zombie, SIGCHLD is sent to the parent
\* (whose PCB is read for its pid), and the end of the main thread wakes up
\* the threads that wait for it.
Exit(p) ==
  /\ Runs(p)
  /\ UNCHANGED hist
  /\ CASE parent[p] = 0 -> Crash("panic")
       [] parent[p] # 0 /\ parent[p] \notin procList -> Crash("freedPcb")
       [] OTHER ->
            /\ state' = [state EXCEPT ![p] = "ZOMBIE"]
            /\ WakeWaiters(mainThread[p])
            /\ joinQueue' = [joinQueue EXCEPT ![mainThread[p]] = << >>]
            /\ UNCHANGED <<nextPid, procList, parent, mainThread, pgtable,
                           child, visit, fault>>

-----------------------------------------------------------------------------
(* do_waitpid().                                                           *)

\* remove_proc(), which frees the PCB.
Remove(c) == procList' = procList \ {c}

\* Faulty variant: the PCB goes away although children point to it.
RemoveAlways(c) == Remove(c)

\* The PCB of a process that still has children is kept.
RemoveIfChildless(c) ==
  IF Children(c) = {} THEN Remove(c) ELSE UNCHANGED procList

\* The end of thread_join(), which cleans the thread and its place in the
\* PCB, and the rest of do_waitpid() for a zombie.
Reap(p, c) ==
  /\ mainThread' = [mainThread EXCEPT ![c] = NULL]
  /\ pgtable' = [pgtable EXCEPT ![c] = "freed"]
  /\ RemoveIfChildless(c)
  /\ pc' = [pc EXCEPT ![p] = "user"]
  /\ child' = [child EXCEPT ![p] = 0]
  /\ UNCHANGED <<nextPid, parent, state, joinQueue, visit, fault>>

\* Faulty variant: the caller sleeps without being queued.
SleepUnqueued(p, c) ==
  /\ pc' = [pc EXCEPT ![p] = "joining"]
  /\ child' = [child EXCEPT ![p] = c]
  /\ UNCHANGED <<procs, mainThread, pgtable, joinQueue, visit, fault>>

Sleep(p, c) ==
  /\ joinQueue' = [joinQueue EXCEPT ![mainThread[c]] = Append(@, p)]
  /\ pc' = [pc EXCEPT ![p] = "joining"]
  /\ child' = [child EXCEPT ![p] = c]
  /\ UNCHANGED <<procs, mainThread, pgtable, visit, fault>>

\* thread_join() on the main thread of c, then the rest if c is dead.
Join(p, c) ==
  IF mainThread[c] = NULL THEN Crash("joinNull")
  ELSE IF state[c] = "ZOMBIE" THEN Reap(p, c)
  ELSE Sleep(p, c)

\* waitpid(-1): whoever's zombie.  It returns -1 when there is none.
WaitAny(p) ==
  /\ Runs(p)
  /\ \E c \in Pids :
       /\ ZombieToClean(c)
       /\ Join(p, c)
       /\ foreign' = (foreign \/ parent[c] # p)
  /\ UNCHANGED again

\* waitpid(pid): whoever's child.  It returns -1 when there is no such pid,
\* and 0 at once with WNOHANG when the process is not dead.
WaitPid(p, c, nohang) ==
  /\ Runs(p)
  /\ c \in procList
  /\ nohang => state[c] = "ZOMBIE"
  /\ Join(p, c)
  /\ foreign' = (foreign \/ parent[c] # p)
  /\ again' = (again \/ pgtable[c] = "freed")

\* The caller is scheduled again, with the PCB pointer it had before.  When
\* another waiter came first, the thread it joined and perhaps the PCB itself
\* have been freed.
WaitReturns(p) ==
  /\ fault = "none"
  /\ pc[p] = "joined"
  /\ UNCHANGED hist
  /\ IF child[p] \in procList /\ mainThread[child[p]] # NULL
       THEN Reap(p, child[p])
       ELSE Crash("freedPcb")

-----------------------------------------------------------------------------
(* The calls that only look processes up, with interrupts enabled.         *)

Visiting(call) == fault = "none" /\ visit.call = call

\* visit.at is still a PCB, and its main thread still there.
HasThread(c) == c \in procList /\ mainThread[c] # NULL

\* do_renice(), up to find_proc_by_pid(): nobody looks whether it found one.
\* The walk of the list is that of dump_proc() below, and is not repeated.
Renice(p, c) ==
  /\ Runs(p)
  /\ visit = Nobody
  /\ IF c \in procList
       THEN /\ visit' = [by |-> p, call |-> "renice", at |-> c]
            /\ UNCHANGED <<procs, mainThread, pgtable, joinQueue, waits, hist, fault>>
       ELSE Crash("noPcb") /\ UNCHANGED hist

\* pcb->main_thread->prio = new_prio
SetPrio ==
  /\ Visiting("renice")
  /\ IF HasThread(visit.at)
       THEN /\ visit' = Nobody
            /\ UNCHANGED <<procs, mainThread, pgtable, joinQueue, waits, hist, fault>>
       ELSE Crash("stalePcb") /\ UNCHANGED hist

\* dump_proc() begins at the head of the list, which is the root process.
dump_proc(p) ==
  /\ Runs(p)
  /\ visit = Nobody
  /\ visit' = [by |-> p, call |-> "list", at |-> Root]
  /\ UNCHANGED <<procs, mainThread, pgtable, joinQueue, waits, hist, fault>>

\* c is the next entry of the list after b.
Follows(b, c) == c \in procList /\ b < c /\ \A q \in procList : b < q => c <= q

\* The name of the main thread of one entry is printed, then the pointer to
\* the next one followed.
PrintEntry ==
  /\ Visiting("list")
  /\ IF HasThread(visit.at)
       THEN /\ \/ \E c \in Pids : Follows(visit.at, c) /\ visit' = [visit EXCEPT !.at = c]
               \/ (\A q \in procList : q <= visit.at) /\ visit' = Nobody
            /\ UNCHANGED <<procs, mainThread, pgtable, joinQueue, waits, hist, fault>>
       ELSE Crash("stalePcb") /\ UNCHANGED hist

-----------------------------------------------------------------------------
Next ==
  \/ \E p \in Pids :
       \/ Fork(p)
       \/ Execve(p)
       \/ Exit(p)
       \/ WaitAny(p)
       \/ \E c \in Pids, nohang \in BOOLEAN : WaitPid(p, c, nohang)
       \/ WaitReturns(p)
       \/ \E c \in Pids : Renice(p, c)
       \/ dump_proc(p)
  \/ SetPrio
  \/ PrintEntry

Spec == Init /\ [][Next]_vars

\* A program has the processor, or may have it.
Busy(p) == p \in procList /\ state[p] = "READY" /\ pc[p] = "user"

\* The scheduler picks a thread that is ready when no program is busy.
Dispatch ==
  /\ \A p \in Pids : ~Busy(p)
  /\ \E p \in Pids : WaitReturns(p)

\* Nothing else is asked of it: a busy program keeps the processor from the
\* threads of its priority and of lower ones (rapport.md:47 and 65).
FairSpec == Spec /\ WF_vars(Dispatch)

-----------------------------------------------------------------------------
(* Properties.                                                             *)

\* The parent of every process is still in the list: "SO3 approach consists
\* in avoiding having orphan process" (process.c:978).  A process reaped
\* while it has children keeps its PCB, to which they point.
ParentsListed ==
  \A p \in procList : p # Root => parent[p] \in procList

\* A process asleep in waitpid is queued, once, on the main thread its child
\* has now, whatever the child executed since: its end will wake it up.
WaitersQueued ==
  fault = "none" =>
    \A p \in procList :
      pc[p] = "joining" =>
        /\ child[p] \in procList
        /\ state[child[p]] = "READY"
        /\ \E i \in DOMAIN joinQueue[mainThread[child[p]]] :
             joinQueue[mainThread[child[p]]][i] = p

\* The kernel only ever fails by a fault of a program: the root process
\* exits, a program waits for a process that is not its child, names a child
\* it has reaped before or a process that does not exist, or looks at a PCB
\* that is reaped, before or under its eyes.  Two waiters never meet
\* otherwise, waiting for -1 never finds a process reaped before, and neither
\* execve() nor exit() takes a thread away from who is about to read it.
FaultsExplained ==
  /\ fault = "joinNull" => again
  /\ fault \in {"freedPcb", "assert"} => foreign
  /\ fault = "stalePcb" => visit # Nobody /\ pgtable[visit.at] = "freed"

\* The memory of a process is only given back once it is dead: no waiter
\* leaves thread_join() because its child executed another file.
OnlyDeadReaped ==
  [][\A c \in Pids :
       pgtable[c] # pgtable'[c] => state[c] = "ZOMBIE"]_vars

\* Nobody waits for everybody: as long as programs wait for their own
\* children, some process can run.
SomeoneRuns ==
  fault = "none" /\ ~foreign =>
    \E p \in procList : state[p] = "READY" /\ pc[p] # "joining"

\* Whoever sleeps until a process ends goes on when it does, unless the kernel
\* fails or other programs never leave the processor any more: its wake-up is
\* not lost, whatever the child executed and whoever waits besides.
ExitWakesWaiters ==
  \A p \in Pids :
    <>[](\A q \in Pids \ {p} : ~Busy(q)) =>
      ((pc[p] # "user" /\ state[child[p]] = "ZOMBIE")
         ~> (pc[p] = "user" \/ fault # "none"))

\* What the ASSERTs of do_execve() (process.c:739 and 747) say: at most one
\* thread waits for the replaced one, and it belongs to the parent.
ExecAssertions == fault # "assert"

=============================================================================
