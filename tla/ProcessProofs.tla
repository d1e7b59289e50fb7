--------------------------- MODULE ProcessProofs ---------------------------
(***************************************************************************)
(* Proofs about Process, for every number of processes and of execve()     *)
(* calls: the process tree has no orphan, nobody sleeps unqueued, no       *)
(* living process is reaped, and the kernel fails only by a fault of a     *)
(* program.                                                                *)
(***************************************************************************)
EXTENDS Process, SequenceTheorems, FiniteSetTheorems, TLAPS

USE PidAssumption, ExecAssumption

-----------------------------------------------------------------------------
(* The inductive invariant.                                                *)

\* The processes of the list form a tree, whose root never dies.
Tree ==
  /\ Root \in procList
  /\ parent[Root] = 0
  /\ state[Root] = "READY"
  /\ ParentsListed

\* A living process has a main thread; a main thread is only missing once
\* the page table is gone.
Alive ==
  \A p \in procList :
    /\ state[p] \in {"READY", "ZOMBIE"}
    /\ state[p] = "READY" => mainThread[p] # NULL
    /\ mainThread[p] = NULL => pgtable[p] = "freed"

\* Only living processes are inside waitpid; when they leave thread_join(),
\* what they joined is dead.
Callers ==
  \A p \in Pids :
    /\ pc[p] # "user" => /\ p \in procList
                         /\ state[p] = "READY"
                         /\ child[p] \in Pids
    /\ pc[p] = "joined" => state[child[p]] = "ZOMBIE"

\* Who is queued on a thread, a main thread, sleeps until the process of
\* that thread ends.
Queued ==
  \A t \in Threads : \A i \in DOMAIN joinQueue[t] :
    /\ pc[joinQueue[t][i]] = "joining"
    /\ child[joinQueue[t][i]] = t[1]
    /\ mainThread[t[1]] = t

\* As long as programs wait for their own children, a waiter is alone, and
\* its child is still there when it leaves thread_join().
OwnChildren ==
  ~foreign =>
    /\ \A p \in Pids :
         /\ pc[p] # "user" => parent[child[p]] = p
         /\ pc[p] = "joined" => /\ child[p] \in procList
                                /\ mainThread[child[p]] # NULL
    /\ \A t \in Threads : Len(joinQueue[t]) <= 1

\* Pids not given yet have state NEW.
Fresh == \A p \in Pids : p >= nextPid => state[p] = "NEW"

\* A process that is no longer in the list has been reaped, and a call that
\* follows a PCB has found it there.
Visited ==
  /\ \A c \in Pids : c < nextPid /\ c \notin procList => pgtable[c] = "freed"
  /\ visit # Nobody => visit.at < nextPid

Inv ==
  /\ TypeOK
  /\ Fresh
  /\ Visited
  /\ Tree
  /\ Alive
  /\ Callers
  /\ Queued
  /\ WaitersQueued
  /\ OwnChildren
  /\ FaultsExplained

\* The root process alone satisfies the invariant.
LEMMA InitInv == Init => Inv
<1> SUFFICES ASSUME Init PROVE Inv
  OBVIOUS
<1> USE DEF Init, Root, Pids, Threads, NULL
<1>1. TypeOK
  <2>1. Root \in Pids /\ Root < nextPid /\ nextPid \in 2..(MaxPid + 1)
    OBVIOUS
  <2>2. procList \subseteq 1..(nextPid - 1)
    OBVIOUS
  <2>3. parent \in [Pids -> 0..MaxPid] /\ child \in [Pids -> 0..MaxPid]
    OBVIOUS
  <2>4. state \in [Pids -> {"NEW", "READY", "ZOMBIE"}]
    OBVIOUS
  <2>5. mainThread \in [Pids -> Threads \cup {NULL}]
    OBVIOUS
  <2>6. \A p \in Pids : mainThread[p] # NULL => mainThread[p][1] = p
    OBVIOUS
  <2>7. /\ pgtable \in [Pids -> {"mapped", "freed"}]
        /\ pc \in [Pids -> {"user", "joining", "joined"}]
        /\ joinQueue \in [Threads -> Seq(Pids)]
        /\ visit \in Visits \cup {Nobody}
    OBVIOUS
  <2> QED
    BY <2>1, <2>2, <2>3, <2>4, <2>5, <2>6, <2>7 DEF TypeOK, Faults
<1>2. Tree /\ Fresh /\ Visited
  BY DEF Tree, ParentsListed, Fresh, Visited
<1>3. Alive
  BY DEF Alive
<1>4. Callers /\ Queued /\ WaitersQueued
  BY DEF Callers, Queued, WaitersQueued
<1>5. OwnChildren /\ FaultsExplained
  BY DEF OwnChildren, FaultsExplained
<1> QED
  BY <1>1, <1>2, <1>3, <1>4, <1>5 DEF Inv

-----------------------------------------------------------------------------
(* What the parts of the handlers preserve.                                *)

\* The kernel may fail where the program explains it.
LEMMA CrashInv ==
  ASSUME Inv, NEW why \in Faults \ {"none"}, Crash(why),
         foreign' \in BOOLEAN, again' \in BOOLEAN,
         foreign => foreign', again => again',
         why = "joinNull" => again',
         why \in {"freedPcb", "assert"} => foreign',
         why = "stalePcb" => visit # Nobody /\ pgtable[visit.at] = "freed"
  PROVE  Inv'
<1> USE DEF Crash, procs, waits, Inv
<1>1. TypeOK'
  BY DEF TypeOK, Faults
<1>2. Tree' /\ Fresh' /\ Visited' /\ Alive' /\ Callers' /\ Queued'
  BY DEF Tree, Fresh, Visited, ParentsListed, Alive, Callers, Queued
<1>3. WaitersQueued'
  BY DEF WaitersQueued
<1>4. OwnChildren'
  BY DEF OwnChildren
<1>5. FaultsExplained'
  BY DEF FaultsExplained
<1> QED
  BY <1>1, <1>2, <1>3, <1>4, <1>5

\* A zombie is reaped by somebody awake.
LEMMA ReapInv ==
  ASSUME Inv, fault = "none",
         NEW p \in Pids, NEW c \in procList,
         Runs(p) \/ (pc[p] = "joined" /\ child[p] = c),
         state[c] = "ZOMBIE", mainThread[c] # NULL,
         Reap(p, c),
         foreign' \in BOOLEAN, again' \in BOOLEAN,
         foreign => foreign', again => again',
         ~foreign' => parent[c] = p
  PROVE  Inv'
<1> USE DEF Inv
<1>c. c \in Pids /\ p # c /\ pc[p] # "joining" /\ p \in procList
  BY DEF TypeOK, Pids, Runs, Callers
<1>l. /\ procList' \subseteq procList
      /\ \A q \in procList : q # c => q \in procList'
      /\ c \in procList' <=> Children(c) # {}
  BY DEF Reap, RemoveIfChildless, Remove
<1>1. TypeOK'
  <2>1. /\ mainThread' \in [Pids -> Threads \cup {NULL}]
        /\ \A q \in Pids : mainThread'[q] # NULL => mainThread'[q][1] = q
    BY <1>c DEF TypeOK, Reap
  <2>2. /\ pgtable' \in [Pids -> {"mapped", "freed"}]
        /\ pc' \in [Pids -> {"user", "joining", "joined"}]
        /\ child' \in [Pids -> 0..MaxPid]
    BY <1>c DEF TypeOK, Reap
  <2>3. procList' \subseteq 1..(nextPid - 1)
    BY <1>l DEF TypeOK
  <2> QED
    BY <2>1, <2>2, <2>3 DEF TypeOK, Reap
<1>2. Tree'
  <2>1. c # Root
    BY DEF Tree
  <2>2. ASSUME NEW q \in procList', q # Root PROVE parent[q] \in procList'
    <3>1. parent[q] \in procList
      BY <1>l, <2>2 DEF Tree, ParentsListed
    <3>2. parent[q] = c => Children(c) # {}
      BY <1>l DEF Children
    <3> QED
      BY <1>l, <3>1, <3>2
  <2> QED
    BY <1>l, <2>1, <2>2 DEF Tree, ParentsListed, Reap
<1>3. Alive'
  BY <1>c, <1>l DEF Alive, Reap, TypeOK
<1>4. Callers'
  BY <1>c, <1>l DEF Callers, Reap, TypeOK
<1>5. Queued'
  <2> SUFFICES ASSUME NEW t \in Threads, NEW i \in DOMAIN joinQueue[t]
               PROVE  /\ pc'[joinQueue[t][i]] = "joining"
                      /\ child'[joinQueue[t][i]] = t[1]
                      /\ mainThread'[t[1]] = t
    BY DEF Queued, Reap
  <2> DEFINE q == joinQueue[t][i]
  <2>1. /\ pc[q] = "joining" /\ child[q] = t[1] /\ mainThread[t[1]] = t
        /\ q \in Pids /\ t[1] \in Pids
    BY DEF Queued, TypeOK, Threads
  <2>2. q # p
    BY <2>1, <1>c
  <2>3. t[1] # c
    BY <2>1 DEF WaitersQueued, Callers
  <2> HIDE DEF q
  <2>4. /\ pc'[q] = pc[q] /\ child'[q] = child[q]
        /\ mainThread'[t[1]] = mainThread[t[1]]
    BY <2>1, <2>2, <2>3 DEF Reap, TypeOK
  <2> QED
    BY <2>1, <2>4 DEF q
<1>6. WaitersQueued'
  <2> SUFFICES ASSUME NEW q \in procList', pc'[q] = "joining"
               PROVE  /\ child'[q] \in procList'
                      /\ state'[child'[q]] = "READY"
                      /\ \E i \in DOMAIN joinQueue'[mainThread'[child'[q]]] :
                           joinQueue'[mainThread'[child'[q]]][i] = q
    BY DEF WaitersQueued
  <2>1. q # p /\ q \in procList /\ pc[q] = "joining" /\ child'[q] = child[q]
    BY <1>c, <1>l DEF Reap, TypeOK
  <2>2. child[q] \in procList /\ state[child[q]] = "READY"
    BY <2>1 DEF WaitersQueued
  <2>3. child[q] # c
    BY <2>2
  <2>4. mainThread'[child[q]] = mainThread[child[q]]
    BY <2>2, <2>3 DEF Reap, TypeOK
  <2> QED
    BY <1>l, <2>1, <2>2, <2>3, <2>4 DEF WaitersQueued, Reap
<1>7. OwnChildren'
  <2> SUFFICES ASSUME ~foreign'
               PROVE  /\ \A q \in Pids :
                           /\ pc'[q] # "user" => parent'[child'[q]] = q
                           /\ pc'[q] = "joined" =>
                                /\ child'[q] \in procList'
                                /\ mainThread'[child'[q]] # NULL
                      /\ \A t \in Threads : Len(joinQueue'[t]) <= 1
    BY DEF OwnChildren
  <2>1. ~foreign /\ parent[c] = p
    OBVIOUS
  <2>2. ASSUME NEW q \in Pids, pc'[q] # "user"
        PROVE  q # p /\ pc'[q] = pc[q] /\ child'[q] = child[q]
    BY <1>c, <2>2 DEF Reap, TypeOK
  <2>3. ASSUME NEW q \in Pids, pc'[q] # "user"
        PROVE  parent[child[q]] = q /\ child[q] # c
    BY <2>1, <2>2, <2>3 DEF OwnChildren
  <2>4. ASSUME NEW q \in Pids, pc'[q] = "joined"
        PROVE  /\ child[q] \in procList'
               /\ mainThread'[child[q]] # NULL
    BY <1>l, <2>1, <2>2, <2>3, <2>4 DEF OwnChildren, Reap, TypeOK
  <2>5. \A t \in Threads : Len(joinQueue'[t]) <= 1
    BY <2>1 DEF OwnChildren, Reap
  <2> QED
    BY <2>2, <2>3, <2>4, <2>5 DEF Reap
<1>8. FaultsExplained' /\ Fresh'
  BY DEF FaultsExplained, Fresh, Reap
<1>9. Visited'
  <2>1. nextPid' = nextPid /\ visit' = visit
    BY DEF Reap
  <2>2. pgtable'[c] = "freed" /\ \A q \in Pids : q # c => pgtable'[q] = pgtable[q]
    BY <1>c DEF Reap, TypeOK
  <2> QED
    BY <1>l, <2>1, <2>2 DEF Visited
<1> QED
  BY <1>1, <1>2, <1>3, <1>4, <1>5, <1>6, <1>7, <1>8, <1>9

\* What appending to a queue of processes does.
LEMMA AppendFacts ==
  ASSUME NEW s \in Seq(Pids), NEW p \in Pids
  PROVE  /\ Append(s, p) \in Seq(Pids)
         /\ Len(Append(s, p)) = Len(s) + 1
         /\ DOMAIN s = 1..Len(s)
         /\ DOMAIN Append(s, p) = 1..(Len(s) + 1)
         /\ \A i \in DOMAIN s : Append(s, p)[i] = s[i]
         /\ Append(s, p)[Len(s) + 1] = p
OBVIOUS

\* A program falls asleep on the main thread of a living process.
LEMMA SleepInv ==
  ASSUME Inv, NEW p \in Pids, NEW c \in procList,
         Runs(p), state[c] # "ZOMBIE", mainThread[c] # NULL,
         Sleep(p, c),
         foreign' \in BOOLEAN, again' \in BOOLEAN,
         foreign => foreign', again => again',
         ~foreign' => parent[c] = p
  PROVE  Inv'
<1> USE DEF Inv
<1> DEFINE t == mainThread[c]
<1>c. c \in Pids /\ p \in procList /\ pc[p] = "user" /\ state[p] = "READY"
  BY DEF TypeOK, Pids, Runs
<1>t. t \in Threads /\ t[1] = c /\ joinQueue[t] \in Seq(Pids)
  BY <1>c DEF TypeOK
<1>s. state[c] = "READY"
  BY DEF Alive
<1>u. /\ procList' = procList /\ parent' = parent /\ state' = state
      /\ mainThread' = mainThread /\ pgtable' = pgtable /\ fault' = fault
      /\ nextPid' = nextPid /\ visit' = visit /\ fault = "none"
  BY DEF Sleep, procs, Runs
<1>q. /\ joinQueue'[t] = Append(joinQueue[t], p)
      /\ \A u \in Threads : u # t => joinQueue'[u] = joinQueue[u]
      /\ joinQueue' \in [Threads -> Seq(Pids)]
  BY <1>t, AppendFacts DEF Sleep, TypeOK
<1>w. /\ pc'[p] = "joining" /\ child'[p] = c
      /\ \A q \in Pids : q # p => pc'[q] = pc[q] /\ child'[q] = child[q]
  BY <1>c DEF Sleep, TypeOK
<1>1. TypeOK'
  <2>1. /\ pc' \in [Pids -> {"user", "joining", "joined"}]
        /\ child' \in [Pids -> 0..MaxPid]
    BY <1>c DEF TypeOK, Sleep, Pids
  <2> QED
    BY <2>1, <1>u, <1>q DEF TypeOK
<1>2. Tree' /\ Fresh' /\ Visited' /\ Alive' /\ FaultsExplained'
  BY <1>u DEF Tree, Fresh, Visited, ParentsListed, Alive, FaultsExplained
<1>3. Callers'
  <2> SUFFICES ASSUME NEW q \in Pids
               PROVE  /\ pc'[q] # "user" => /\ q \in procList
                                            /\ state[q] = "READY"
                                            /\ child'[q] \in Pids
                      /\ pc'[q] = "joined" => state[child'[q]] = "ZOMBIE"
    BY <1>u DEF Callers
  <2>1. CASE q = p
    BY <2>1, <1>c, <1>w
  <2>2. CASE q # p
    BY <2>2, <1>w DEF Callers
  <2> QED
    BY <2>1, <2>2
<1>4. Queued'
  <2> SUFFICES ASSUME NEW u \in Threads, NEW i \in DOMAIN joinQueue'[u]
               PROVE  /\ pc'[joinQueue'[u][i]] = "joining"
                      /\ child'[joinQueue'[u][i]] = u[1]
                      /\ mainThread[u[1]] = u
    BY <1>u DEF Queued
  <2>1. CASE u = t /\ i = Len(joinQueue[t]) + 1
    BY <2>1, <1>t, <1>q, <1>w, AppendFacts
  <2>2. CASE ~(u = t /\ i = Len(joinQueue[t]) + 1)
    <3>1. i \in DOMAIN joinQueue[u] /\ joinQueue'[u][i] = joinQueue[u][i]
      BY <2>2, <1>t, <1>q, AppendFacts
    <3>2. joinQueue[u][i] \in Pids
      BY <3>1 DEF TypeOK
    <3> QED
      BY <3>1, <3>2, <1>c, <1>w DEF Queued
  <2> QED
    BY <2>1, <2>2
<1>5. WaitersQueued'
  <2> SUFFICES ASSUME NEW q \in procList, pc'[q] = "joining", fault = "none"
               PROVE  /\ child'[q] \in procList
                      /\ state[child'[q]] = "READY"
                      /\ \E i \in DOMAIN joinQueue'[mainThread[child'[q]]] :
                           joinQueue'[mainThread[child'[q]]][i] = q
    BY <1>u DEF WaitersQueued
  <2>1. CASE q = p
    BY <2>1, <1>s, <1>t, <1>q, <1>w, AppendFacts
  <2>2. CASE q # p
    <3> DEFINE u == mainThread[child[q]]
    <3>1. pc[q] = "joining" /\ child'[q] = child[q]
      BY <2>2, <1>w DEF TypeOK, Pids
    <3>2. child[q] \in procList /\ state[child[q]] = "READY"
      BY <3>1 DEF WaitersQueued
    <3>3. PICK i \in DOMAIN joinQueue[u] : joinQueue[u][i] = q
      BY <3>1 DEF WaitersQueued
    <3>4. u \in Threads
      BY <3>2 DEF TypeOK, Alive, Pids
    <3>5. i \in DOMAIN joinQueue'[u] /\ joinQueue'[u][i] = q
      <4>1. CASE u = t
        <5> HIDE DEF t, u
        <5>1. i \in DOMAIN joinQueue[t] /\ joinQueue[t][i] = q
          BY <3>3, <4>1
        <5>2. i \in DOMAIN Append(joinQueue[t], p)
          BY <5>1, <1>t, AppendFacts
        <5>3. Append(joinQueue[t], p)[i] = q
          BY <5>1, <1>t, AppendFacts
        <5> QED
          BY <5>2, <5>3, <4>1, <1>q
      <4>2. CASE u # t
        BY <3>3, <3>4, <4>2, <1>q
      <4> QED
        BY <4>1, <4>2
    <3> QED
      BY <3>1, <3>2, <3>5
  <2> QED
    BY <2>1, <2>2
<1>6. OwnChildren'
  <2> SUFFICES ASSUME ~foreign'
               PROVE  /\ \A q \in Pids :
                           /\ pc'[q] # "user" => parent[child'[q]] = q
                           /\ pc'[q] = "joined" =>
                                /\ child'[q] \in procList
                                /\ mainThread[child'[q]] # NULL
                      /\ \A u \in Threads : Len(joinQueue'[u]) <= 1
    BY <1>u DEF OwnChildren
  <2>1. ~foreign /\ parent[c] = p
    OBVIOUS
  <2>2. ASSUME NEW q \in Pids
        PROVE  /\ pc'[q] # "user" => parent[child'[q]] = q
               /\ pc'[q] = "joined" => /\ child'[q] \in procList
                                       /\ mainThread[child'[q]] # NULL
    BY <2>1, <1>w DEF OwnChildren
  <2>3. Len(joinQueue[t]) = 0
    <3> SUFFICES ASSUME Len(joinQueue[t]) # 0 PROVE FALSE
      OBVIOUS
    <3>1. 1 \in DOMAIN joinQueue[t] /\ joinQueue[t][1] \in Pids
      BY <1>t
    <3>2. pc[joinQueue[t][1]] = "joining" /\ child[joinQueue[t][1]] = c
      BY <3>1, <1>t DEF Queued
    <3>3. parent[c] = joinQueue[t][1]
      BY <3>1, <3>2, <2>1 DEF OwnChildren
    <3> QED
      BY <3>2, <3>3, <2>1, <1>c
  <2>4. \A u \in Threads : Len(joinQueue'[u]) <= 1
    BY <2>1, <2>3, <1>t, <1>q, AppendFacts DEF OwnChildren
  <2> QED
    BY <2>2, <2>4
<1> QED
  BY <1>1, <1>2, <1>3, <1>4, <1>5, <1>6

-----------------------------------------------------------------------------
(* The handlers.                                                           *)

\* The child of fork() is new: nobody waits for it, nobody is its child.
LEMMA ForkInv ==
  ASSUME Inv, NEW p \in Pids, Fork(p)
  PROVE  Inv'
<1> USE DEF Inv
<1> DEFINE n == nextPid
<1>n. /\ n \in Pids /\ n \notin procList /\ nextPid' = n + 1
      /\ p \in procList /\ p # n /\ Root # n
  BY DEF Fork, NewProcess, TakePid, Runs, TypeOK, Pids, Root
<1>u. /\ pgtable' = pgtable /\ joinQueue' = joinQueue /\ pc' = pc
      /\ child' = child /\ foreign' = foreign /\ again' = again
      /\ fault' = fault /\ fault = "none" /\ visit' = visit
  BY DEF Fork, waits, hist, Runs
<1>c. procList' = procList \cup {n} /\ procList \subseteq Pids
  BY DEF Fork, NewProcess, TypeOK, Pids
<1>f. /\ parent'[n] = p /\ state'[n] = "READY" /\ mainThread'[n] = <<n, 0>>
      /\ \A q \in Pids : q # n => /\ parent'[q] = parent[q]
                                  /\ state'[q] = state[q]
                                  /\ mainThread'[q] = mainThread[q]
  BY <1>n DEF Fork, TypeOK
<1>m. <<n, 0>> \in Threads /\ <<n, 0>> # NULL
  BY <1>n DEF Threads, NULL, Pids
<1>k. pc[n] = "user" /\ \A q \in Pids : pc[q] # "user" => child[q] \in Pids
  BY <1>n DEF Callers
<1>1. TypeOK'
  <2>1. /\ nextPid' \in 2..(MaxPid + 1)
        /\ procList' \subseteq 1..(nextPid' - 1)
    BY <1>n, <1>c DEF TypeOK, Pids
  <2>2. /\ parent' \in [Pids -> 0..MaxPid]
        /\ state' \in [Pids -> {"NEW", "READY", "ZOMBIE"}]
        /\ mainThread' \in [Pids -> Threads \cup {NULL}]
    BY <1>n, <1>m DEF Fork, TypeOK, Pids
  <2>3. \A q \in Pids : mainThread'[q] # NULL => mainThread'[q][1] = q
    <3> SUFFICES ASSUME NEW q \in Pids, mainThread'[q] # NULL
                 PROVE  mainThread'[q][1] = q
      OBVIOUS
    <3>1. CASE q = n
      BY <3>1, <1>f
    <3>2. CASE q # n
      BY <3>2, <1>f DEF TypeOK
    <3> QED
      BY <3>1, <3>2
  <2> QED
    BY <1>u, <2>1, <2>2, <2>3 DEF TypeOK
<1>2. Tree'
  BY <1>n, <1>c, <1>f DEF Tree, ParentsListed, Root, Pids
<1>3. Alive'
  BY <1>n, <1>c, <1>f, <1>m, <1>u DEF Alive
<1>4. Callers'
  <2> SUFFICES ASSUME NEW q \in Pids, pc[q] # "user"
               PROVE  /\ q \in procList'
                      /\ state'[q] = "READY"
                      /\ child[q] \in Pids
                      /\ pc[q] = "joined" => state'[child[q]] = "ZOMBIE"
    BY <1>u, Zenon DEF Callers
  <2>1. q \in procList /\ state[q] = "READY" /\ child[q] \in Pids
    BY DEF Callers
  <2>2. q \in procList' /\ state'[q] = "READY"
    BY <2>1, <1>n, <1>c, <1>f
  <2>3. ASSUME pc[q] = "joined" PROVE state'[child[q]] = "ZOMBIE"
    <3>1. state[child[q]] = "ZOMBIE"
      BY <2>3 DEF Callers
    <3>2. child[q] # n
      BY <3>1, <1>n DEF Fresh, TypeOK
    <3> QED
      BY <3>1, <3>2, <2>1, <1>f
  <2> QED
    BY <2>1, <2>2, <2>3
<1>5. Queued' /\ FaultsExplained' /\ Fresh'
  <2>1. ASSUME NEW t \in Threads, NEW i \in DOMAIN joinQueue[t]
        PROVE  mainThread'[t[1]] = mainThread[t[1]]
    <3>1. /\ joinQueue[t][i] \in Pids
          /\ pc[joinQueue[t][i]] = "joining"
          /\ child[joinQueue[t][i]] = t[1]
      BY DEF Queued, TypeOK
    <3>2. t[1] \in procList
      BY <3>1 DEF WaitersQueued, Callers, Fork, Runs
    <3> QED
      BY <3>2, <1>n, <1>f, <1>c
  <2>2. Queued'
    BY <2>1, <1>u DEF Queued
  <2> QED
    <3>1. FaultsExplained'
      BY <1>u, <1>c DEF FaultsExplained
    <3>2. ASSUME NEW q \in Pids, q >= nextPid' PROVE state'[q] = "NEW"
      <4>1. q # n /\ q >= n
        BY <3>2, <1>n DEF Pids
      <4> QED
        BY <4>1, <1>f DEF Fresh
    <3> QED
      BY <2>2, <3>1, <3>2 DEF Fresh
<1>6. WaitersQueued'
  <2> SUFFICES ASSUME fault = "none", NEW q \in procList', pc[q] = "joining"
               PROVE  /\ child[q] \in procList'
                      /\ state'[child[q]] = "READY"
                      /\ \E i \in DOMAIN joinQueue[mainThread'[child[q]]] :
                           joinQueue[mainThread'[child[q]]][i] = q
    BY <1>u DEF WaitersQueued
  <2>1. q \in procList
    BY <1>c, <1>k
  <2>2. /\ child[q] \in procList
        /\ state[child[q]] = "READY"
        /\ \E i \in DOMAIN joinQueue[mainThread[child[q]]] :
             joinQueue[mainThread[child[q]]][i] = q
    BY <2>1 DEF WaitersQueued
  <2> QED
    BY <2>2, <1>n, <1>c, <1>f
<1>8. Visited'
  <2>1. \A q \in Pids : q < n + 1 /\ q # n => q < n
    BY <1>n DEF Pids
  <2>2. visit # Nobody => visit.at \in Pids
    BY DEF TypeOK, Visits
  <2> QED
    BY <1>n, <1>c, <1>u, <2>1, <2>2 DEF Visited, Pids
<1>7. OwnChildren'
  <2> SUFFICES ASSUME ~foreign, NEW q \in Pids, pc[q] # "user"
               PROVE  /\ parent'[child[q]] = q
                      /\ pc[q] = "joined" =>
                           /\ child[q] \in procList'
                           /\ mainThread'[child[q]] # NULL
    BY <1>u DEF OwnChildren
  <2>1. /\ parent[child[q]] = q /\ child[q] \in Pids
        /\ pc[q] = "joined" => /\ child[q] \in procList
                               /\ mainThread[child[q]] # NULL
    BY <1>k DEF OwnChildren
  <2>2. pc[q] = "joining" => child[q] \in procList
    BY DEF WaitersQueued, Callers, Fork, Runs
  <2>3. child[q] \in procList
    BY <2>1, <2>2 DEF TypeOK
  <2> QED
    BY <2>1, <2>3, <1>n, <1>c, <1>f
<1> QED
  BY <1>1, <1>2, <1>3, <1>4, <1>5, <1>6, <1>7, <1>8

\* The main thread of a living process.
LEMMA MainThreadFacts ==
  ASSUME TypeOK, Alive, NEW c \in procList, state[c] = "READY"
  PROVE  /\ mainThread[c] \in Threads
         /\ mainThread[c] # NULL
         /\ mainThread[c][1] = c
<1>1. c \in Pids /\ mainThread[c] # NULL
  BY DEF TypeOK, Alive, Pids
<1> QED
  BY <1>1 DEF TypeOK

\* execve() moves the only waiter to the new main thread, or stops the kernel
\* when there are several, which takes a foreign wait.
LEMMA ExecveInv ==
  ASSUME Inv, NEW p \in Pids, Execve(p)
  PROVE  Inv'
<1> USE DEF Inv
<1> DEFINE old == mainThread[p]
           new == <<p, old[2] + 1>>
<1>p. p \in procList /\ state[p] = "READY" /\ fault = "none" /\ pc[p] = "user"
  BY DEF Execve, Runs
<1>o. old \in Threads /\ old[1] = p /\ old # NULL
  BY <1>p DEF TypeOK, Alive
<1>n. new \in Threads /\ new[1] = p /\ new # NULL /\ new # old
  BY <1>o DEF Threads, NULL, Execve, Pids
<1>t. TransferWaiter(p, old, new) /\ old = mainThread[p]
  BY DEF Execve
<1>s. procList \subseteq Pids
  BY DEF TypeOK, Pids
<1> HIDE DEF old, new
<1>1. CASE \/ Len(joinQueue[old]) > 1
           \/ joinQueue[old] # << >> /\ Head(joinQueue[old]) # parent[p]
  <2>1. Crash("assert") /\ UNCHANGED hist
    BY <1>1, <1>t DEF TransferWaiter
  <2>2. foreign
    <3> SUFFICES ASSUME ~foreign PROVE FALSE
      BY DEF TypeOK
    <3>1. Len(joinQueue[old]) <= 1 /\ joinQueue[old] \in Seq(Pids)
      BY <1>o DEF OwnChildren, TypeOK
    <3>2. joinQueue[old] # << >> /\ Head(joinQueue[old]) # parent[p]
      BY <3>1, <1>1
    <3>3. 1 \in DOMAIN joinQueue[old] /\ joinQueue[old][1] \in Pids
      BY <3>1, <3>2
    <3>4. pc[joinQueue[old][1]] = "joining" /\ child[joinQueue[old][1]] = p
      BY <3>3, <1>o DEF Queued
    <3> QED
      BY <3>1, <3>2, <3>3, <3>4 DEF OwnChildren
  <2> QED
    BY <2>1, <2>2, CrashInv DEF hist, TypeOK, Faults
<1>2. CASE ~(\/ Len(joinQueue[old]) > 1
             \/ joinQueue[old] # << >> /\ Head(joinQueue[old]) # parent[p])
  <2>u. /\ procList' = procList /\ parent' = parent /\ state' = state
        /\ nextPid' = nextPid /\ pgtable' = pgtable /\ pc' = pc
        /\ child' = child /\ foreign' = foreign /\ again' = again
        /\ fault' = fault /\ visit' = visit
    BY <1>2, <1>t DEF TransferWaiter, procs, waits, hist
  <2>m. /\ mainThread' \in [Pids -> Threads \cup {NULL}]
        /\ mainThread'[p] = new
        /\ \A q \in Pids : q # p => mainThread'[q] = mainThread[q]
    BY <1>2, <1>t, <1>n DEF TransferWaiter, TypeOK
  <2>q. /\ joinQueue' \in [Threads -> Seq(Pids)]
        /\ joinQueue'[new] = joinQueue[old]
        /\ joinQueue'[old] = << >>
        /\ \A t \in Threads : t # new /\ t # old => joinQueue'[t] = joinQueue[t]
    <3>1. joinQueue' = [joinQueue EXCEPT ![new] = joinQueue[old],
                                         ![old] = << >>]
      BY <1>2, <1>t DEF TransferWaiter
    <3>2. joinQueue \in [Threads -> Seq(Pids)] /\ joinQueue[old] \in Seq(Pids)
      BY <1>o DEF TypeOK
    <3> QED
      BY <3>1, <3>2, <1>o, <1>n
  <2>1. TypeOK'
    <3>1. \A q \in Pids : mainThread'[q] # NULL => mainThread'[q][1] = q
      BY <2>m, <1>n DEF TypeOK
    <3> QED
      BY <2>u, <2>m, <2>q, <3>1 DEF TypeOK
  <2>2. Tree' /\ Fresh' /\ Visited' /\ Callers' /\ FaultsExplained'
    BY <2>u DEF Tree, ParentsListed, Fresh, Visited, Callers, FaultsExplained
  <2>3. Alive'
    BY <2>u, <2>m, <1>n, <1>s DEF Alive
  <2>4. Queued'
    <3> SUFFICES ASSUME NEW t \in Threads, NEW i \in DOMAIN joinQueue'[t]
                 PROVE  /\ pc[joinQueue'[t][i]] = "joining"
                        /\ child[joinQueue'[t][i]] = t[1]
                        /\ mainThread'[t[1]] = t
      BY <2>u DEF Queued
    <3>1. CASE t = new
      BY <3>1, <2>q, <2>m, <1>o, <1>n DEF Queued
    <3>2. CASE t = old
      BY <3>2, <2>q
    <3>3. CASE t # new /\ t # old
      <4>1. /\ pc[joinQueue'[t][i]] = "joining"
            /\ child[joinQueue'[t][i]] = t[1]
            /\ mainThread[t[1]] = t
        BY <3>3, <2>q DEF Queued
      <4>2. t[1] # p /\ t[1] \in Pids
        BY <4>1, <3>3, <1>t DEF Threads
      <4> QED
        BY <4>1, <4>2, <2>m
    <3> QED
      BY <3>1, <3>2, <3>3
  <2>5. WaitersQueued'
    <3> SUFFICES ASSUME NEW q \in procList, pc[q] = "joining"
                 PROVE  /\ child[q] \in procList
                        /\ state[child[q]] = "READY"
                        /\ \E i \in DOMAIN joinQueue'[mainThread'[child[q]]] :
                             joinQueue'[mainThread'[child[q]]][i] = q
      BY <2>u DEF WaitersQueued
    <3>1. /\ child[q] \in procList
          /\ state[child[q]] = "READY"
          /\ \E i \in DOMAIN joinQueue[mainThread[child[q]]] :
               joinQueue[mainThread[child[q]]][i] = q
      BY <1>p DEF WaitersQueued
    <3>2. CASE child[q] = p
      BY <3>1, <3>2, <2>m, <2>q, <1>t
    <3>3. CASE child[q] # p
      <4> DEFINE u == mainThread[child[q]]
      <4>1. child[q] \in Pids
        BY <3>1, <1>s
      <4>2. u \in Threads /\ u[1] = child[q]
        BY <3>1, MainThreadFacts
      <4>3. u # old /\ u # new
        BY <4>2, <3>3, <1>o, <1>n
      <4>4. mainThread'[child[q]] = u /\ joinQueue'[u] = joinQueue[u]
        BY <4>1, <4>2, <4>3, <3>3, <2>m, <2>q
      <4> QED
        BY <3>1, <4>4
    <3> QED
      BY <3>2, <3>3
  <2>6. OwnChildren'
    <3> SUFFICES ASSUME ~foreign
                 PROVE  /\ \A q \in Pids :
                             /\ pc[q] # "user" => parent[child[q]] = q
                             /\ pc[q] = "joined" =>
                                  /\ child[q] \in procList
                                  /\ mainThread'[child[q]] # NULL
                        /\ \A t \in Threads : Len(joinQueue'[t]) <= 1
      BY <2>u DEF OwnChildren
    <3>1. ASSUME NEW q \in Pids, pc[q] = "joined"
          PROVE  mainThread'[child[q]] # NULL
      BY <3>1, <2>m, <1>n, <1>s DEF OwnChildren
    <3>2. \A t \in Threads : Len(joinQueue'[t]) <= 1
      <4> SUFFICES ASSUME NEW t \in Threads PROVE Len(joinQueue'[t]) <= 1
        OBVIOUS
      <4>1. CASE t = new
        BY <4>1, <2>q, <1>o DEF OwnChildren
      <4>2. CASE t = old
        BY <4>2, <2>q
      <4>3. CASE t # new /\ t # old
        BY <4>3, <2>q DEF OwnChildren
      <4> QED
        BY <4>1, <4>2, <4>3
    <3> QED
      BY <3>1, <3>2 DEF OwnChildren
  <2> QED
    BY <2>1, <2>2, <2>3, <2>4, <2>5, <2>6
<1> QED
  BY <1>1, <1>2

\* A process that ends wakes up exactly those that sleep for it.
LEMMA ExitInv ==
  ASSUME Inv, NEW p \in Pids, Exit(p)
  PROVE  Inv'
<1> USE DEF Inv
<1>p. /\ p \in procList /\ state[p] = "READY" /\ fault = "none"
      /\ pc[p] = "user" /\ procList \subseteq Pids
  BY DEF Exit, Runs, TypeOK, Pids
<1>h. foreign' = foreign /\ again' = again
  BY DEF Exit, hist
<1>1. CASE parent[p] = 0
  <2>1. Crash("panic")
    BY <1>1 DEF Exit
  <2> QED
    BY <2>1, <1>h, CrashInv DEF TypeOK, Faults
<1>2. CASE parent[p] # 0
  <2>1. p # Root /\ parent[p] \in procList
    BY <1>2, <1>p DEF Tree, ParentsListed
  <2> DEFINE t == mainThread[p]
  <2>t. t \in Threads /\ t[1] = p
    BY <1>p, MainThreadFacts
  <2>s. /\ state' = [state EXCEPT ![p] = "ZOMBIE"]
        /\ WakeWaiters(t)
        /\ joinQueue' = [joinQueue EXCEPT ![t] = << >>]
        /\ UNCHANGED <<nextPid, procList, parent, mainThread, pgtable,
                       child, visit, fault>>
    BY <1>2, <2>1 DEF Exit
  <2> HIDE DEF t
  <2>q. /\ joinQueue' \in [Threads -> Seq(Pids)]
        /\ joinQueue'[t] = << >>
        /\ \A u \in Threads : u # t => joinQueue'[u] = joinQueue[u]
    BY <2>s, <2>t DEF TypeOK
  <2>st. /\ state' \in [Pids -> {"NEW", "READY", "ZOMBIE"}]
         /\ state'[p] = "ZOMBIE"
         /\ \A q \in Pids : q # p => state'[q] = state[q]
    BY <2>s DEF TypeOK
  <2> DEFINE Woken(q) == \E i \in DOMAIN joinQueue[t] : joinQueue[t][i] = q
  <2>w. /\ pc' \in [Pids -> {"user", "joining", "joined"}]
        /\ \A q \in Pids : Woken(q) => pc'[q] = "joined"
        /\ \A q \in Pids : ~Woken(q) => pc'[q] = pc[q]
    BY <2>s DEF WakeWaiters, TypeOK
  <2>k. \A q \in Pids : Woken(q) => pc[q] = "joining" /\ child[q] = p
    BY <2>t DEF Queued
  <2>j. \A q \in Pids : pc[q] = "joining" /\ child[q] = p => Woken(q)
    BY <1>p DEF WaitersQueued, Callers, t
  <2> HIDE DEF Woken
  <2>2. TypeOK'
    BY <2>s, <2>q, <2>st, <2>w, <1>h DEF TypeOK
  <2>3. Tree' /\ Fresh' /\ Visited' /\ FaultsExplained'
    <3>1. p < nextPid
      BY <1>p DEF TypeOK
    <3>2. Visited' /\ FaultsExplained'
      BY <2>s, <1>p DEF Visited, FaultsExplained
    <3> QED
      BY <3>1, <3>2, <2>1, <2>s, <2>st, <1>h
      DEF Tree, ParentsListed, Fresh, TypeOK, Pids, Root
  <2>4. Alive'
    BY <2>s, <2>st, <1>p DEF Alive
  <2>5. Callers'
    <3> SUFFICES ASSUME NEW q \in Pids
                 PROVE  /\ pc'[q] # "user" => /\ q \in procList
                                              /\ state'[q] = "READY"
                                              /\ child[q] \in Pids
                        /\ pc'[q] = "joined" => state'[child[q]] = "ZOMBIE"
      BY <2>s DEF Callers
    <3>1. CASE Woken(q)
      BY <3>1, <2>k, <2>st, <2>w, <1>p DEF Callers
    <3>2. CASE ~Woken(q)
      BY <3>2, <2>st, <2>w, <1>p DEF Callers
    <3> QED
      BY <3>1, <3>2
  <2>6. Queued'
    <3> SUFFICES ASSUME NEW u \in Threads, NEW i \in DOMAIN joinQueue'[u]
                 PROVE  /\ pc'[joinQueue'[u][i]] = "joining"
                        /\ child[joinQueue'[u][i]] = u[1]
                        /\ mainThread[u[1]] = u
      BY <2>s DEF Queued
    <3>1. u # t /\ joinQueue'[u] = joinQueue[u]
      BY <2>q
    <3>2. /\ joinQueue[u][i] \in Pids
          /\ pc[joinQueue[u][i]] = "joining"
          /\ child[joinQueue[u][i]] = u[1]
          /\ mainThread[u[1]] = u
      BY <3>1 DEF Queued, TypeOK
    <3>3. ~Woken(joinQueue[u][i])
      <4> SUFFICES ASSUME Woken(joinQueue[u][i]) PROVE FALSE
        OBVIOUS
      <4>1. u[1] = p
        BY <3>2, <2>k
      <4> QED
        BY <4>1, <3>1, <3>2 DEF t
    <3> QED
      BY <3>1, <3>2, <3>3, <2>w
  <2>7. WaitersQueued'
    <3> SUFFICES ASSUME NEW q \in procList, pc'[q] = "joining"
                 PROVE  /\ child[q] \in procList
                        /\ state'[child[q]] = "READY"
                        /\ \E i \in DOMAIN joinQueue'[mainThread[child[q]]] :
                             joinQueue'[mainThread[child[q]]][i] = q
      BY <2>s DEF WaitersQueued
    <3> DEFINE u == mainThread[child[q]]
    <3>1. pc[q] = "joining" /\ ~Woken(q)
      BY <2>w, <1>p
    <3>2. /\ child[q] \in procList
          /\ state[child[q]] = "READY"
          /\ \E i \in DOMAIN joinQueue[u] : joinQueue[u][i] = q
      BY <3>1, <1>p DEF WaitersQueued
    <3>3. child[q] # p
      BY <3>1, <2>j, <1>p
    <3>4. u \in Threads /\ u[1] = child[q]
      BY <3>2, MainThreadFacts
    <3>5. joinQueue'[u] = joinQueue[u]
      BY <3>3, <3>4, <2>q, <2>t
    <3> QED
      BY <3>2, <3>3, <3>5, <2>st, <1>p
  <2>8. OwnChildren'
    <3> SUFFICES ASSUME ~foreign
                 PROVE  /\ \A q \in Pids :
                             /\ pc'[q] # "user" => parent[child[q]] = q
                             /\ pc'[q] = "joined" =>
                                  /\ child[q] \in procList
                                  /\ mainThread[child[q]] # NULL
                        /\ \A u \in Threads : Len(joinQueue'[u]) <= 1
      BY <2>s, <1>h DEF OwnChildren
    <3>1. ASSUME NEW q \in Pids
          PROVE  /\ pc'[q] # "user" => parent[child[q]] = q
                 /\ pc'[q] = "joined" => /\ child[q] \in procList
                                         /\ mainThread[child[q]] # NULL
      <4>1. CASE Woken(q)
        BY <4>1, <2>k, <1>p, <2>t DEF OwnChildren, Alive
      <4>2. CASE ~Woken(q)
        BY <4>2, <2>w DEF OwnChildren
      <4> QED
        BY <4>1, <4>2
    <3>2. \A u \in Threads : Len(joinQueue'[u]) <= 1
      BY <2>q DEF OwnChildren
    <3> QED
      BY <3>1, <3>2
  <2> QED
    BY <2>2, <2>3, <2>4, <2>5, <2>6, <2>7, <2>8
<1> QED
  BY <1>1, <1>2

\* thread_join() and what follows, for a process of the list.
LEMMA JoinInv ==
  ASSUME Inv, NEW p \in Pids, NEW c \in procList,
         Runs(p), Join(p, c),
         foreign' \in BOOLEAN, again' \in BOOLEAN,
         foreign => foreign', again => again',
         ~foreign' => parent[c] = p,
         mainThread[c] = NULL => again'
  PROVE  Inv'
<1>1. CASE mainThread[c] = NULL
  <2>1. Crash("joinNull")
    BY <1>1 DEF Join
  <2> QED
    BY <1>1, <2>1, CrashInv DEF Faults
<1>2. CASE mainThread[c] # NULL /\ state[c] = "ZOMBIE"
  <2>1. Reap(p, c) /\ fault = "none"
    BY <1>2 DEF Join, Runs
  <2> QED
    BY <1>2, <2>1, ReapInv
<1>3. CASE mainThread[c] # NULL /\ state[c] # "ZOMBIE"
  <2>1. Sleep(p, c)
    BY <1>3 DEF Join
  <2> QED
    BY <1>3, <2>1, SleepInv
<1> QED
  BY <1>1, <1>2, <1>3

\* Both forms of waitpid find a process of the list.
LEMMA WaitInv ==
  ASSUME Inv, NEW p \in Pids,
         WaitAny(p) \/ \E c \in Pids, nohang \in BOOLEAN : WaitPid(p, c, nohang)
  PROVE  Inv'
<1>t. foreign \in BOOLEAN /\ again \in BOOLEAN
  BY DEF Inv, TypeOK
<1>1. CASE WaitAny(p)
  <2>1. PICK c \in Pids : /\ ZombieToClean(c)
                          /\ Join(p, c)
                          /\ foreign' = (foreign \/ parent[c] # p)
    BY <1>1 DEF WaitAny
  <2>2. c \in procList /\ mainThread[c] # NULL
    BY <2>1 DEF ZombieToClean, ToClean
  <2>3. Runs(p) /\ again' = again
    BY <1>1 DEF WaitAny
  <2> QED
    BY <1>t, <2>1, <2>2, <2>3, JoinInv
<1>2. CASE \E c \in Pids, nohang \in BOOLEAN : WaitPid(p, c, nohang)
  <2>1. PICK c \in Pids : /\ Runs(p) /\ c \in procList /\ Join(p, c)
                          /\ foreign' = (foreign \/ parent[c] # p)
                          /\ again' = (again \/ pgtable[c] = "freed")
    BY <1>2 DEF WaitPid
  <2>2. mainThread[c] = NULL => again'
    BY <2>1 DEF Inv, Alive
  <2> QED
    BY <1>t, <2>1, <2>2, JoinInv
<1> QED
  BY <1>1, <1>2

\* A waiter that leaves thread_join() finds its child, dead, unless somebody
\* else was allowed to wait for it.
LEMMA WaitReturnsInv ==
  ASSUME Inv, NEW p \in Pids, WaitReturns(p)
  PROVE  Inv'
<1>h. /\ foreign' = foreign /\ again' = again
      /\ foreign \in BOOLEAN /\ again \in BOOLEAN
      /\ fault = "none" /\ pc[p] = "joined"
  BY DEF WaitReturns, hist, Inv, TypeOK
<1>1. CASE child[p] \in procList /\ mainThread[child[p]] # NULL
  <2>1. Reap(p, child[p])
    BY <1>1 DEF WaitReturns
  <2>2. state[child[p]] = "ZOMBIE"
    BY <1>h DEF Inv, Callers
  <2>3. ~foreign => parent[child[p]] = p
    BY <1>h DEF Inv, OwnChildren
  <2> QED
    BY <1>1, <1>h, <2>1, <2>2, <2>3, ReapInv
<1>2. CASE ~(child[p] \in procList /\ mainThread[child[p]] # NULL)
  <2>1. Crash("freedPcb")
    BY <1>2 DEF WaitReturns
  <2>2. foreign
    BY <1>2, <1>h DEF Inv, OwnChildren
  <2> QED
    BY <1>h, <2>1, <2>2, CrashInv DEF Faults
<1> QED
  BY <1>1, <1>2

\* Where a call is with the PCBs it looks at is nobody else's concern.
LEMMA MoveInv ==
  ASSUME Inv, fault = "none",
         UNCHANGED <<procs, mainThread, pgtable, joinQueue, waits, hist, fault>>,
         visit' = Nobody \/ (visit' \in Visits /\ visit'.at \in procList)
  PROVE  Inv'
<1> USE DEF Inv, procs, waits, hist
<1>1. TypeOK'
  BY DEF TypeOK
<1>2. Visited'
  <2>1. \A c \in procList : c < nextPid
    BY DEF Fresh, Tree, TypeOK, Pids
  <2>2. visit' # Nobody => visit'.at < nextPid
    BY <2>1
  <2>3. \A c \in Pids : c < nextPid /\ c \notin procList => pgtable[c] = "freed"
    BY DEF Visited
  <2> QED
    BY <2>2, <2>3 DEF Visited
<1>3. Tree' /\ Fresh' /\ Alive' /\ Callers' /\ Queued' /\ WaitersQueued'
  BY DEF Tree, Fresh, ParentsListed, Alive, Callers, Queued, WaitersQueued
<1>4. OwnChildren' /\ FaultsExplained'
  BY DEF OwnChildren, FaultsExplained
<1> QED
  BY <1>1, <1>2, <1>3, <1>4

\* A PCB without a thread, or gone, is one that was reaped.
LEMMA StaleInv ==
  ASSUME Inv, fault = "none", visit # Nobody, ~HasThread(visit.at),
         Crash("stalePcb"), UNCHANGED hist
  PROVE  Inv'
<1>1. visit.at \in Pids /\ visit.at < nextPid
  BY DEF Inv, TypeOK, Visits, Visited
<1>2. pgtable[visit.at] = "freed"
  BY <1>1 DEF HasThread, Inv, Visited, Alive
<1>3. foreign' \in BOOLEAN /\ again' \in BOOLEAN
  BY DEF hist, Inv, TypeOK
<1> QED
  BY <1>2, <1>3, CrashInv DEF hist, Faults

\* The steps of do_renice() and of dump_proc().
LEMMA LookUpInv ==
  ASSUME Inv,
         \/ \E p \in Pids : (\E c \in Pids : Renice(p, c)) \/ dump_proc(p)
         \/ SetPrio \/ PrintEntry
  PROVE  Inv'
<1>l. procList \subseteq Pids /\ Root \in procList
  BY DEF Inv, TypeOK, Tree, Pids
<1>v. visit.call # "none" => visit # Nobody /\ visit \in Visits
  BY DEF Nobody, Inv, TypeOK
<1>1. ASSUME NEW p \in Pids, NEW c \in Pids, Renice(p, c) PROVE Inv'
  <2>1. CASE c \in procList
    <3>1. visit' \in Visits /\ visit'.at \in procList
      BY <1>1, <2>1 DEF Renice, Visits
    <3> QED
      BY <1>1, <2>1, <3>1, MoveInv DEF Renice, Runs
  <2>2. CASE c \notin procList
    <3>1. Crash("noPcb") /\ UNCHANGED hist
      BY <1>1, <2>2 DEF Renice
    <3>2. foreign' \in BOOLEAN /\ again' \in BOOLEAN
      BY <3>1 DEF hist, Inv, TypeOK
    <3> QED
      BY <3>1, <3>2, CrashInv DEF hist, Faults
  <2> QED
    BY <2>1, <2>2
<1>2. ASSUME NEW p \in Pids, dump_proc(p) PROVE Inv'
  <2>1. visit' \in Visits /\ visit'.at \in procList
    BY <1>2, <1>l DEF dump_proc, Visits
  <2> QED
    BY <1>2, <2>1, MoveInv DEF dump_proc, Runs
<1>3. CASE SetPrio
  <2>1. fault = "none" /\ visit # Nobody
    BY <1>3, <1>v DEF SetPrio, Visiting
  <2>2. CASE HasThread(visit.at)
    BY <1>3, <2>1, <2>2, MoveInv DEF SetPrio
  <2>3. CASE ~HasThread(visit.at)
    BY <1>3, <2>1, <2>3, StaleInv DEF SetPrio
  <2> QED
    BY <2>2, <2>3
<1>4. CASE PrintEntry
  <2>1. fault = "none" /\ visit # Nobody /\ visit \in Visits
    BY <1>4, <1>v DEF PrintEntry, Visiting
  <2>2. CASE HasThread(visit.at)
    <3>1. /\ UNCHANGED <<procs, mainThread, pgtable, joinQueue, waits, hist, fault>>
          /\ \/ visit' = Nobody
             \/ \E c \in Pids : c \in procList /\ visit' = [visit EXCEPT !.at = c]
      BY <1>4, <2>2 DEF PrintEntry, Follows
    <3>2. visit' = Nobody \/ (visit' \in Visits /\ visit'.at \in procList)
      BY <2>1, <3>1 DEF Visits
    <3> QED
      BY <2>1, <3>1, <3>2, MoveInv
  <2>3. CASE ~HasThread(visit.at)
    BY <1>4, <2>1, <2>3, StaleInv DEF PrintEntry
  <2> QED
    BY <2>2, <2>3
<1> QED
  BY <1>1, <1>2, <1>3, <1>4

\* The invariant speaks of the variables only.
LEMMA StutterInv == Inv /\ UNCHANGED vars => Inv'
BY DEF Inv, vars, procs, waits, hist, TypeOK, Fresh, Visited, Tree, ParentsListed, Alive,
       Callers, Queued, WaitersQueued, OwnChildren, FaultsExplained

\* Inv is an inductive invariant of the kernel.
THEOREM Invariance == Spec => []Inv
<1>1. Init => Inv
  BY InitInv
<1>2. Inv /\ [Next]_vars => Inv'
  <2> SUFFICES ASSUME Inv, [Next]_vars PROVE Inv'
    OBVIOUS
  <2>1. CASE UNCHANGED vars
    BY <2>1, StutterInv
  <2>2. CASE Next
    BY <2>2, ForkInv, ExecveInv, ExitInv, WaitInv, WaitReturnsInv, LookUpInv DEF Next
  <2> QED
    BY <2>1, <2>2
<1> QED
  BY <1>1, <1>2, PTL DEF Spec

-----------------------------------------------------------------------------
(* The theorems.                                                           *)

\* The state of the kernel keeps its types.
THEOREM TypeCorrect == Spec => []TypeOK
BY Invariance, PTL DEF Inv

\* No process is ever orphaned: the PCB of a parent outlives its children.
THEOREM NoOrphan == Spec => []ParentsListed
BY Invariance, PTL DEF Inv, Tree

\* Whoever sleeps in waitpid is where the end of its child wakes it up,
\* through any number of execve().
THEOREM SleepersAreQueued == Spec => []WaitersQueued
BY Invariance, PTL DEF Inv

\* The kernel fails only when a program waits for a process that is not its
\* child, for one it reaped before or that does not exist, when it looks at a
\* PCB that is reaped, before or meanwhile, or when the root process exits.
THEOREM KernelIsSafe == Spec => []FaultsExplained
BY Invariance, PTL DEF Inv

\* Were all living processes asleep, child would map them one to one to the
\* living processes other than the root: there would be too many of them.
LEMMA NotAllAsleep == Inv => SomeoneRuns
<1> SUFFICES ASSUME Inv, fault = "none", ~foreign,
                    ~\E p \in procList : state[p] = "READY" /\ pc[p] # "joining"
             PROVE  FALSE
  BY DEF SomeoneRuns
<1> DEFINE living == {p \in procList : state[p] = "READY"}
           others == living \ {Root}
           next == [p \in living |-> child[p]]
<1>1. Root \in living
  BY DEF Inv, Tree
<1>2. IsFiniteSet(living)
  <2>1. living \subseteq 1..MaxPid
    <3>1. \A p \in procList : p \in 1..MaxPid
      BY DEF Inv, TypeOK
    <3> QED
      BY <3>1
  <2>2. IsFiniteSet(1..MaxPid)
    BY FS_Interval
  <2> QED
    BY <2>1, <2>2, FS_Subset
<1>3. ASSUME NEW p \in living
      PROVE  child[p] \in others /\ parent[child[p]] = p
  <2>1. p \in Pids /\ p \in procList /\ pc[p] = "joining"
    BY DEF Inv, TypeOK, Pids
  <2>2. child[p] \in procList /\ state[child[p]] = "READY"
    BY <2>1 DEF Inv, WaitersQueued
  <2>3. parent[child[p]] = p
    BY <2>1 DEF Inv, OwnChildren
  <2>4. child[p] # Root
    BY <2>1, <2>3 DEF Inv, Tree, Pids
  <2> QED
    BY <2>2, <2>3, <2>4
<1> HIDE DEF living
<1>4. next \in [living -> others]
  BY <1>3
<1>5. /\ IsFiniteSet(others) /\ Cardinality(others) < Cardinality(living)
  <2>1. /\ IsFiniteSet(others)
        /\ Cardinality(others) = Cardinality(living) - 1
    BY <1>1, <1>2, FS_RemoveElement
  <2>2. Cardinality(living) \in Nat
    BY <1>2, FS_CardinalityType
  <2> QED
    BY <2>1, <2>2
<1>6. PICK p \in living, q \in living : p # q /\ next[p] = next[q]
  <2> HIDE DEF next, others
  <2> QED
    BY <1>2, <1>4, <1>5, FS_PigeonHole
<1> QED
  BY <1>3, <1>6

\* Nobody waits for everybody: as long as programs wait for their own
\* children, some process is not asleep in waitpid.
THEOREM NoDeadlock == Spec => []SomeoneRuns
BY NotAllAsleep, Invariance, PTL

\* The page table of a process is freed only when the process is dead.
THEOREM LivingAreKept == Spec => OnlyDeadReaped
<1> DEFINE Kept == \A c \in Pids : pgtable[c] # pgtable'[c] => state[c] = "ZOMBIE"
<1>1. Inv /\ [Next]_vars => [Kept]_vars
  <2> SUFFICES ASSUME Inv, Next PROVE Kept
    BY DEF vars
  <2>1. ASSUME NEW p \in Pids, NEW c \in Pids, Reap(p, c), state[c] = "ZOMBIE"
        PROVE  Kept
    BY <2>1 DEF Reap, Inv, TypeOK
  <2>2. ASSUME pgtable' = pgtable PROVE Kept
    BY <2>2
  <2>3. \A why : Crash(why) => pgtable' = pgtable
    BY DEF Crash
  <2>4. ASSUME NEW p \in Pids, NEW c \in Pids, Join(p, c) PROVE Kept
    BY <2>1, <2>2, <2>3, <2>4 DEF Join, Sleep
  <2> HIDE DEF Kept
  <2>5. SUFFICES ASSUME NEW p \in Pids,
                        \/ Fork(p) \/ Execve(p) \/ Exit(p) \/ WaitReturns(p)
                        \/ WaitAny(p)
                        \/ \E c \in Pids, nohang \in BOOLEAN : WaitPid(p, c, nohang)
                        \/ (\E c \in Pids : Renice(p, c)) \/ dump_proc(p)
                        \/ SetPrio \/ PrintEntry
                 PROVE  Kept
    <3>1. Root \in Pids
      BY PidAssumption DEF Root, Pids
    <3> QED
      BY <3>1 DEF Next
  <2>6. CASE Fork(p)
    BY <2>2, <2>6 DEF Fork
  <2>7. CASE Execve(p)
    BY <2>2, <2>3, <2>7 DEF Execve, TransferWaiter
  <2>8. CASE Exit(p)
    BY <2>2, <2>3, <2>8 DEF Exit
  <2>9. CASE WaitReturns(p)
    <3>1. pc[p] = "joined"
      BY <2>9 DEF WaitReturns
    <3>2. child[p] \in Pids /\ state[child[p]] = "ZOMBIE"
      BY <3>1 DEF Inv, Callers
    <3> QED
      BY <2>1, <2>2, <2>3, <2>9, <3>2 DEF WaitReturns
  <2>10. CASE \/ WaitAny(p)
              \/ \E c \in Pids, nohang \in BOOLEAN : WaitPid(p, c, nohang)
    BY <2>4, <2>10 DEF WaitAny, WaitPid
  <2>11. CASE (\E c \in Pids : Renice(p, c)) \/ dump_proc(p) \/ SetPrio \/ PrintEntry
    BY <2>2, <2>3, <2>11 DEF Renice, dump_proc, SetPrio, PrintEntry
  <2> QED
    BY <2>5, <2>6, <2>7, <2>8, <2>9, <2>10, <2>11
<1> QED
  BY <1>1, Invariance, PTL DEF Spec, OnlyDeadReaped

=============================================================================
