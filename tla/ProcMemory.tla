----------------------------- MODULE ProcMemory -----------------------------
(***************************************************************************)
(* The user memory of the processes of lab9/process.c: the page table of   *)
(* each process, the list of the pages it owns, the reference counts of    *)
(* the frames and the heap.  fork, execve, waitpid and the part of exit    *)
(* that is modelled run with interrupts disabled, and each is one action.  *)
(* do_sbrk() leaves them enabled: it is one action too because it reads    *)
(* and writes the break of its own process only, and here a process has    *)
(* one thread.  Two threads of one process could both pass the test of     *)
(* line 1048 before either moves the break at line 1082.  Who may wait for *)
(* whom is the subject of Process; here a zombie is simply reaped at some  *)
(* time.                                                                   *)
(*                                                                         *)
(* User space goes from page 0, never mapped, to the page of arguments;    *)
(* the stack is just below that page and the binary image starts at page 1 *)
(* (0x1000).  The free frames are handed out from the lowest.              *)
(***************************************************************************)
EXTENDS Integers, FiniteSets, Functions

CONSTANTS NbFrames,     \* frames of the machine
          PageSize,     \* PAGE_SIZE
          StackPages,   \* PROC_STACK_SIZE, in pages
          HeapPages,    \* HEAP_SIZE, in pages
          ImagePages,   \* the numbers of pages binary images have
          ArgsPage,     \* arch_get_args_base(), in pages
          MaxPid        \* bound: processes created in a behaviour

HEAP_SIZE == HeapPages * PageSize

ASSUME FrameAssumption == NbFrames \in Nat /\ NbFrames >= StackPages
ASSUME SizeAssumption ==
  /\ {PageSize, StackPages, HeapPages, MaxPid} \subseteq Nat \ {0}
  /\ ImagePages \subseteq Nat \ {0} /\ ImagePages # {}
ASSUME LayoutAssumption ==
  /\ ArgsPage \in Nat
  /\ \A n \in ImagePages : StackPages + n + HeapPages + StackPages < ArgsPage

Root    == 1
Pids    == 1..MaxPid
Frames  == 1..NbFrames
Kernel  == 0            \* where the code of the root process is, in the kernel
Virtual == 0..ArgsPage

VARIABLES
  nextPid,       \* pid_current
  state,         \* pcb->state
  memory,        \* the frames, the lists of pages and the page tables
  page_count,    \* pcb->page_count
  heap_base,     \* pcb->heap_base
  heap_pointer,  \* pcb->heap_pointer
  execed,        \* history: the process, or an ancestor before fork(), ran execve()
  fault          \* the kernel stopped for want of a frame

heap == <<heap_base, heap_pointer>>
vars == <<nextPid, state, memory, page_count, heap, execed, fault>>

TypeOK ==
  /\ nextPid \in 2..(MaxPid + 1)
  /\ state \in [Pids -> {"NEW", "READY", "ZOMBIE", "reaped"}]
  /\ memory.free \subseteq Frames
  /\ memory.refcount \in [Frames -> 0..MaxPid]
  /\ memory.page_list \in [Pids -> SUBSET Frames]
  /\ \A p \in Pids :
       /\ DOMAIN memory.pgtable[p] \subseteq Virtual
       /\ Range(memory.pgtable[p]) \subseteq Frames \cup {Kernel}
  /\ page_count \in [Pids -> 0..ArgsPage]
  /\ heap_base \in [Pids -> 0..ArgsPage * PageSize]
  /\ heap_pointer \in [Pids -> 0..ArgsPage * PageSize]
  /\ execed \in [Pids -> BOOLEAN]
  /\ fault \in BOOLEAN

-----------------------------------------------------------------------------
(* The operations on frames, page lists and page tables.                   *)

Rank(x, S) == Cardinality({y \in S : y < x})

\* get_free_page(), so many times.
FreeFrames(m, n) == {f \in m.free : Rank(f, m.free) < n}

\* add_page_to_proc() of each frame.
Add(m, p, got) ==
  [m EXCEPT !.free = @ \ got,
            !.refcount = [f \in Frames |-> IF f \in got THEN @[f] + 1 ELSE @[f]],
            !.page_list[p] = @ \cup got]

\* New frames for a set of virtual pages: create_mapping() of each, which
\* replaces what was mapped there.
MapPages(m, p, V) ==
  LET got == FreeFrames(m, Cardinality(V))
      new == [v \in V |-> CHOOSE f \in got : Rank(f, got) = Rank(v, V)]
      old == m.pgtable[p]
  IN  [Add(m, p, got) EXCEPT
         !.pgtable[p] = [v \in DOMAIN old \cup V |-> IF v \in V THEN new[v] ELSE old[v]]]

\* allocate_page()
allocate_page(m, p, first, n) == MapPages(m, p, first..(first + n - 1))

\* Faulty variant: the frames are freed whoever else uses them, and their
\* counts left as they are.
ReleaseUncounted(m, p) ==
  [m EXCEPT !.free = @ \cup m.page_list[p], !.page_list[p] = {}]

\* release_proc_pages(): a frame nobody uses any more is freed.
release_proc_pages(m, p) ==
  [m EXCEPT !.refcount = [f \in Frames |-> IF f \in m.page_list[p]
                                             THEN @[f] - 1 ELSE @[f]],
            !.free = @ \cup {f \in m.page_list[p] : m.refcount[f] = 1},
            !.page_list[p] = {}]

\* reset_root_pgtable()
reset_root_pgtable(m, p) == [m EXCEPT !.pgtable[p] = << >>]

-----------------------------------------------------------------------------
(* The layout of a process.                                                *)

Stack(m, p) == allocate_page(m, p, ArgsPage - StackPages, StackPages)

\* create_root_process(): a stack, and the code where the kernel has it.
Init ==
  /\ nextPid = 2
  /\ state = [p \in Pids |-> IF p = Root THEN "READY" ELSE "NEW"]
  /\ LET nothing == [free |-> Frames,
                     refcount |-> [f \in Frames |-> 0],
                     page_list |-> [p \in Pids |-> {}],
                     pgtable |-> [p \in Pids |-> << >>]]
         stacked == Stack(nothing, Root)
         table   == stacked.pgtable[Root]
     IN  memory = [stacked EXCEPT !.pgtable[Root] =
                     [v \in DOMAIN table \cup {1} |-> IF v = 1 THEN Kernel ELSE table[v]]]
  /\ page_count = [p \in Pids |-> IF p = Root THEN StackPages ELSE 0]
  /\ heap_base = [p \in Pids |-> 0]
  /\ heap_pointer = [p \in Pids |-> 0]
  /\ execed = [p \in Pids |-> FALSE]
  /\ fault = FALSE

\* Faulty variant: the stack is forgotten in the count of pages.
HeapOverImage(image) == image

\* The page where the heap starts: one past the number of pages so far.
HeapPage(image) == StackPages + image + 1

\* Faulty variant: the former image stays in the list of pages.
KeepFormerImage(m, p, image) ==
  LET reset == reset_root_pgtable(m, p)
      code  == allocate_page(Stack(reset, p), p, 1, image)
      whole == allocate_page(code, p, HeapPage(image), HeapPages)
  IN  allocate_page(whole, p, ArgsPage, 1)

\* The page table and the pages are given back, then the stack, the image,
\* the heap and the page of arguments allocated.
Replace(m, p, image) ==
  LET reset == release_proc_pages(reset_root_pgtable(m, p), p)
      code  == allocate_page(Stack(reset, p), p, 1, image)
      whole == allocate_page(code, p, HeapPage(image), HeapPages)
  IN  allocate_page(whole, p, ArgsPage, 1)

\* BUG_ON(!page)
OutOfFrames ==
  /\ fault' = TRUE
  /\ UNCHANGED <<nextPid, state, memory, page_count, heap, execed>>

Runs(p) == ~fault /\ state[p] = "READY"

-----------------------------------------------------------------------------
(* The system calls.                                                       *)

\* duplicate_process() and duplicate_user_space(): the child has a copy of
\* every page mapped by its parent.
Fork(p) ==
  LET V == DOMAIN memory.pgtable[p]
      c == nextPid
  IN  /\ Runs(p)
      /\ nextPid <= MaxPid
      /\ IF Cardinality(V) > Cardinality(memory.free) THEN OutOfFrames
         ELSE /\ nextPid' = nextPid + 1
              /\ state' = [state EXCEPT ![c] = "READY"]
              /\ memory' = MapPages(memory, c, V)
              /\ page_count' = [page_count EXCEPT ![c] = page_count[p]]
              /\ heap_base' = [heap_base EXCEPT ![c] = heap_base[p]]
              /\ heap_pointer' = [heap_pointer EXCEPT ![c] = heap_pointer[p]]
              /\ execed' = [execed EXCEPT ![c] = execed[p]]
              /\ UNCHANGED fault

\* Faulty variant: the pages of the former image are still counted.
CountOnTop(p, image) == page_count[p] + StackPages + image + HeapPages + 1

\* reset_process_stack() starts the count again.
PageCount(p, image) == StackPages + image + HeapPages + 1

\* Faulty variant: the heap pointer stays where the former image had it.
KeepHeapPointer(p, image) ==
  /\ heap_base' = [heap_base EXCEPT ![p] = HeapPage(image) * PageSize]
  /\ UNCHANGED heap_pointer

EmptyHeap(p, image) ==
  /\ heap_base' = [heap_base EXCEPT ![p] = HeapPage(image) * PageSize]
  /\ heap_pointer' = [heap_pointer EXCEPT ![p] = HeapPage(image) * PageSize]

\* setup_proc_image_replace(), for a file that exists.  Arguments too long
\* for their page are lost, but the image is replaced all the same.
Execve(p, image) ==
  /\ Runs(p)
  /\ IF Cardinality(memory.free \cup memory.page_list[p]) < PageCount(p, image)
       THEN OutOfFrames
       ELSE /\ memory' = Replace(memory, p, image)
            /\ page_count' = [page_count EXCEPT ![p] = PageCount(p, image)]
            /\ EmptyHeap(p, image)
            /\ execed' = [execed EXCEPT ![p] = TRUE]
            /\ UNCHANGED <<nextPid, state, fault>>

\* Faulty variant: the heap may shrink below nothing.
NotOverflowing(req_sz) == req_sz < HEAP_SIZE

InHeap(req_sz) == req_sz >= 0 /\ req_sz < HEAP_SIZE

\* do_sbrk(): the pages are there already, only the pointer moves.
Sbrk(p, increment) ==
  LET req_sz == heap_pointer[p] - heap_base[p] + increment
  IN  /\ Runs(p)
      /\ InHeap(req_sz)
      /\ heap_pointer' = [heap_pointer EXCEPT ![p] = @ + increment]
      /\ UNCHANGED <<nextPid, state, memory, page_count, heap_base, execed, fault>>

\* do_exit(): the pages are given back; the page table goes when the process
\* is reaped.
Exit(p) ==
  /\ Runs(p)
  /\ p # Root
  /\ state' = [state EXCEPT ![p] = "ZOMBIE"]
  /\ memory' = release_proc_pages(memory, p)
  /\ UNCHANGED <<nextPid, page_count, heap, execed, fault>>

\* do_waitpid() of a zombie.
Reap(p) ==
  /\ ~fault
  /\ state[p] = "ZOMBIE"
  /\ state' = [state EXCEPT ![p] = "reaped"]
  /\ memory' = reset_root_pgtable(memory, p)
  /\ UNCHANGED <<nextPid, page_count, heap, execed, fault>>

Next ==
  \E p \in Pids :
    \/ Fork(p)
    \/ \E image \in ImagePages : Execve(p, image)
    \/ \E increment \in -HEAP_SIZE..HEAP_SIZE : Sbrk(p, increment)
    \/ Exit(p)
    \/ Reap(p)

Spec == Init /\ [][Next]_vars

-----------------------------------------------------------------------------
(* Properties.                                                             *)

\* The reference count of a frame is the number of processes that list it,
\* and exactly the frames nobody lists are free: none is lost, none is freed
\* under a process.
FramesAccounted ==
  \A f \in Frames :
    /\ memory.refcount[f] = Cardinality({p \in Pids : f \in memory.page_list[p]})
    /\ f \in memory.free <=> memory.refcount[f] = 0

\* A process that runs maps its own frames, all of them and each at one page:
\* stack, image, heap and arguments do not overlap, and no frame belongs to
\* two processes.
FramesPrivate ==
  \A p \in Pids : state[p] = "READY" =>
    LET table == memory.pgtable[p]
    IN  /\ IsInjective(table)
        /\ Range(table) \ {Kernel} = memory.page_list[p]
        /\ \A q \in Pids \ {p} : memory.page_list[p] \cap memory.page_list[q] = {}

\* Once a program was executed, what do_sbrk() gave is in the heap of that
\* program and mapped: the break never leaves the pages allocated by
\* execve(), whatever was the heap of the image before.
HeapMapped ==
  \A p \in Pids : state[p] = "READY" /\ execed[p] =>
    /\ heap_pointer[p] \in heap_base[p]..(heap_base[p] + HEAP_SIZE - 1)
    /\ \A a \in heap_base[p]..heap_pointer[p] :
         (a \div PageSize) \in DOMAIN memory.pgtable[p]

\* page_count is the number of pages of a program, however many programs the
\* process executed before.
PagesCounted ==
  \A p \in Pids : state[p] = "READY" /\ execed[p] =>
    page_count[p] = Cardinality(memory.page_list[p])

=============================================================================
