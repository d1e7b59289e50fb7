-------------------------- MODULE ProcMemoryProofs --------------------------
(***************************************************************************)
(* Theorems about ProcMemory, for any number of frames, processes and      *)
(* pages: the frames are accounted for and private, the pages counted, the *)
(* heap mapped and the types right.  Inv, about the reference counts and   *)
(* the heaps, is inductive by itself; FullInv adds the page tables, whose  *)
(* entries are pairwise different because frames are handed out in the     *)
(* order of the pages, among those nobody has.                             *)
(***************************************************************************)
EXTENDS ProcMemory, FiniteSetTheorems, TLAPS

-----------------------------------------------------------------------------
(* Reference counts, in any state of the memory.                           *)

Users(m, f) == {p \in Pids : f \in m.page_list[p]}

WellFormed(m) ==
  /\ m = [free |-> m.free, refcount |-> m.refcount,
          page_list |-> m.page_list, pgtable |-> m.pgtable]
  /\ m.free \in SUBSET Frames
  /\ m.refcount \in [Frames -> Nat]
  /\ m.page_list \in [Pids -> SUBSET Frames]
  /\ DOMAIN m.pgtable = Pids

Accounted(m) ==
  \A f \in Frames :
    /\ m.refcount[f] = Cardinality(Users(m, f))
    /\ f \in m.free <=> m.refcount[f] = 0

LEMMA PidsFinite == IsFiniteSet(Pids) /\ MaxPid \in Nat
  BY FS_Interval, SizeAssumption DEF Pids

LEMMA UsersFinite ==
  ASSUME NEW m, NEW f
  PROVE  /\ IsFiniteSet(Users(m, f)) /\ Cardinality(Users(m, f)) \in Nat
         /\ Cardinality(Users(m, f)) = 0 <=> Users(m, f) = {}
<1>1. Users(m, f) \in SUBSET Pids
  BY DEF Users
<1>2. IsFiniteSet(Users(m, f))
  BY <1>1, PidsFinite, FS_Subset
<1> QED
  BY <1>2, FS_CardinalityType, FS_EmptySet

\* The three fields that the bookkeeping of the frames writes.
LEMMA FieldFacts ==
  ASSUME NEW m, NEW A, NEW B, NEW C,
         m = [free |-> m.free, refcount |-> m.refcount,
              page_list |-> m.page_list, pgtable |-> m.pgtable]
  PROVE  [m EXCEPT !.free = A, !.refcount = B, !.page_list = C]
           = [free |-> A, refcount |-> B, page_list |-> C, pgtable |-> m.pgtable]
<1>1. ASSUME NEW a, NEW b, NEW c, NEW d,
             m = [free |-> a, refcount |-> b, page_list |-> c, pgtable |-> d]
      PROVE  [m EXCEPT !.free = A, !.refcount = B, !.page_list = C]
               = [free |-> A, refcount |-> B, page_list |-> C, pgtable |-> d]
  <2>1. DOMAIN m = {"free", "refcount", "page_list", "pgtable"}
    BY <1>1
  <2>2. [m EXCEPT !.free = A, !.refcount = B, !.page_list = C]
          = [x \in DOMAIN m |-> CASE x = "free" -> A [] x = "refcount" -> B
                                   [] x = "page_list" -> C [] OTHER -> m[x]]
    BY <2>1
  <2>3. [x \in DOMAIN m |-> CASE x = "free" -> A [] x = "refcount" -> B
                                   [] x = "page_list" -> C [] OTHER -> m[x]]
          = [free |-> A, refcount |-> B, page_list |-> C, pgtable |-> d]
    BY <1>1, <2>1
  <2> QED
    BY <2>2, <2>3
<1> QED
  BY <1>1

\* Free frames given to a process have one user.
LEMMA AddFacts ==
  ASSUME NEW m, WellFormed(m), Accounted(m), NEW p \in Pids, NEW got \in SUBSET m.free
  PROVE  /\ WellFormed(Add(m, p, got)) /\ Accounted(Add(m, p, got))
         /\ Add(m, p, got).pgtable = m.pgtable
<1> DEFINE n == Add(m, p, got)
<1>1. /\ n.free = m.free \ got
      /\ n.refcount = [f \in Frames |-> IF f \in got THEN m.refcount[f] + 1 ELSE m.refcount[f]]
      /\ n.page_list = [m.page_list EXCEPT ![p] = @ \cup got]
      /\ n.pgtable = m.pgtable
      /\ n = [free |-> n.free, refcount |-> n.refcount,
              page_list |-> n.page_list, pgtable |-> n.pgtable]
  <2>1. m = [free |-> m.free, refcount |-> m.refcount,
             page_list |-> m.page_list, pgtable |-> m.pgtable]
    BY DEF WellFormed
  <2>2. n.free = m.free \ got
    BY <2>1 DEF Add
  <2>3. n.refcount = [f \in Frames |-> IF f \in got THEN m.refcount[f] + 1 ELSE m.refcount[f]]
    BY <2>1 DEF Add
  <2>4. n.page_list = [m.page_list EXCEPT ![p] = @ \cup got]
    BY <2>1 DEF Add
  <2>5. n.pgtable = m.pgtable
    BY <2>1 DEF Add
  <2>6. n = [free |-> n.free, refcount |-> n.refcount,
             page_list |-> n.page_list, pgtable |-> n.pgtable]
    <3>1. n = [m EXCEPT !.free = m.free \ got,
                        !.refcount = [f \in Frames |-> IF f \in got THEN m.refcount[f] + 1
                                                                   ELSE m.refcount[f]],
                        !.page_list = [m.page_list EXCEPT ![p] = @ \cup got]]
      BY Zenon DEF Add
    <3> HIDE DEF n
    <3> QED
      BY <2>1, <2>2, <2>3, <2>4, <2>5, <3>1, FieldFacts
  <2> QED
    BY <2>2, <2>3, <2>4, <2>5, <2>6
<1> HIDE DEF n
<1>2. WellFormed(n)
  BY <1>1 DEF WellFormed
<1>3. ASSUME NEW f \in Frames
      PROVE  /\ n.refcount[f] = Cardinality(Users(n, f))
             /\ f \in n.free <=> n.refcount[f] = 0
  <2>1. m.refcount[f] \in Nat /\ m.refcount[f] = Cardinality(Users(m, f))
    BY DEF WellFormed, Accounted
  <2>2. CASE f \in got
    <3>1. Users(m, f) = {}
      BY <2>1, <2>2, UsersFinite DEF Accounted, WellFormed
    <3>2. Users(n, f) = Users(m, f) \cup {p}
      BY <1>1, <2>2 DEF Users, WellFormed
    <3>3. Cardinality(Users(n, f)) = Cardinality(Users(m, f)) + 1
      BY <3>1, <3>2, UsersFinite, FS_AddElement
    <3>4. n.refcount[f] = m.refcount[f] + 1 /\ f \notin n.free
      BY <1>1, <2>2
    <3> QED
      BY <2>1, <3>3, <3>4
  <2>3. CASE f \notin got
    <3>1. Users(n, f) = Users(m, f)
      BY <1>1, <2>3 DEF Users, WellFormed
    <3> QED
      BY <1>1, <2>1, <2>3, <3>1 DEF Accounted
  <2> QED
    BY <2>2, <2>3
<1> QED
  BY <1>1, <1>2, <1>3 DEF n, Accounted

LEMMA MapFacts ==
  ASSUME NEW m, WellFormed(m), Accounted(m), NEW p \in Pids, NEW V
  PROVE  LET n == MapPages(m, p, V)
         IN  /\ WellFormed(n) /\ Accounted(n)
             /\ DOMAIN n.pgtable[p] = DOMAIN m.pgtable[p] \cup V
             /\ \A q \in Pids \ {p} : n.pgtable[q] = m.pgtable[q]
<1> DEFINE got == FreeFrames(m, Cardinality(V))
           new == [v \in V |-> CHOOSE f \in got : Rank(f, got) = Rank(v, V)]
           table == [v \in DOMAIN m.pgtable[p] \cup V |->
                       IF v \in V THEN new[v] ELSE m.pgtable[p][v]]
           a == Add(m, p, got)
           n == MapPages(m, p, V)
<1>1. got \in SUBSET m.free
  BY DEF FreeFrames
<1>2. WellFormed(a) /\ Accounted(a) /\ a.pgtable = m.pgtable
  BY <1>1, AddFacts
<1>3. n = [a EXCEPT !.pgtable[p] = table]
  BY Zenon DEF MapPages
<1>7. DOMAIN table = DOMAIN m.pgtable[p] \cup V
  OBVIOUS
<1> HIDE DEF n, a, table
<1>4. /\ n.free = a.free /\ n.refcount = a.refcount /\ n.page_list = a.page_list
      /\ n.pgtable = [a.pgtable EXCEPT ![p] = table]
      /\ n = [free |-> n.free, refcount |-> n.refcount,
              page_list |-> n.page_list, pgtable |-> n.pgtable]
  BY <1>2, <1>3 DEF WellFormed
<1>5. WellFormed(n) /\ Accounted(n)
  BY <1>2, <1>4 DEF WellFormed, Accounted, Users
<1>6. DOMAIN n.pgtable[p] = DOMAIN m.pgtable[p] \cup V
      /\ \A q \in Pids \ {p} : n.pgtable[q] = m.pgtable[q]
  BY <1>2, <1>4, <1>7 DEF WellFormed
<1> QED
  BY <1>5, <1>6 DEF n

\* Pages given back have one user less.
LEMMA ReleaseFacts ==
  ASSUME NEW m, WellFormed(m), Accounted(m), NEW p \in Pids
  PROVE  LET n == release_proc_pages(m, p)
         IN  WellFormed(n) /\ Accounted(n) /\ n.pgtable = m.pgtable
<1> DEFINE n == release_proc_pages(m, p)
           L == m.page_list[p]
<1>1. /\ n.free = m.free \cup {f \in L : m.refcount[f] = 1}
      /\ n.refcount = [f \in Frames |-> IF f \in L THEN m.refcount[f] - 1 ELSE m.refcount[f]]
      /\ n.page_list = [m.page_list EXCEPT ![p] = {}]
      /\ n.pgtable = m.pgtable
      /\ n = [free |-> n.free, refcount |-> n.refcount,
              page_list |-> n.page_list, pgtable |-> n.pgtable]
  <2>1. m = [free |-> m.free, refcount |-> m.refcount,
             page_list |-> m.page_list, pgtable |-> m.pgtable]
    BY DEF WellFormed
  <2>2. n.free = m.free \cup {f \in L : m.refcount[f] = 1}
    BY <2>1 DEF release_proc_pages
  <2>3. n.refcount = [f \in Frames |-> IF f \in L THEN m.refcount[f] - 1 ELSE m.refcount[f]]
    BY <2>1 DEF release_proc_pages
  <2>4. n.page_list = [m.page_list EXCEPT ![p] = {}]
    BY <2>1 DEF release_proc_pages
  <2>5. n.pgtable = m.pgtable
    BY <2>1 DEF release_proc_pages
  <2>6. n = [free |-> n.free, refcount |-> n.refcount,
             page_list |-> n.page_list, pgtable |-> n.pgtable]
    <3>1. n = [m EXCEPT !.free = m.free \cup {f \in L : m.refcount[f] = 1},
                        !.refcount = [f \in Frames |-> IF f \in L THEN m.refcount[f] - 1
                                                                 ELSE m.refcount[f]],
                        !.page_list = [m.page_list EXCEPT ![p] = {}]]
      BY <2>1 DEF release_proc_pages
    <3> HIDE DEF n, L
    <3> QED
      BY <2>1, <2>2, <2>3, <2>4, <2>5, <3>1, FieldFacts
  <2> QED
    BY <2>2, <2>3, <2>4, <2>5, <2>6
<1>2. L \in SUBSET Frames
  BY DEF WellFormed
<1> HIDE DEF n, L
<1>3. ASSUME NEW f \in Frames
      PROVE  /\ n.refcount[f] = Cardinality(Users(n, f)) /\ n.refcount[f] \in Nat
             /\ f \in n.free <=> n.refcount[f] = 0
  <2>1. /\ m.refcount[f] \in Nat /\ m.refcount[f] = Cardinality(Users(m, f))
        /\ f \in m.free <=> m.refcount[f] = 0
    BY DEF WellFormed, Accounted
  <2>2. CASE f \in L
    <3>1. p \in Users(m, f) /\ Users(n, f) = Users(m, f) \ {p}
      BY <1>1, <2>2 DEF Users, WellFormed, L
    <3>2. Cardinality(Users(n, f)) = Cardinality(Users(m, f)) - 1
      BY <3>1, UsersFinite, FS_RemoveElement
    <3>3. n.refcount[f] = m.refcount[f] - 1
      BY <1>1, <2>2
    <3>4. m.refcount[f] # 0
      BY <2>1, <3>1, UsersFinite
    <3> QED
      BY <1>1, <2>1, <2>2, <3>2, <3>3, <3>4
  <2>3. CASE f \notin L
    <3>1. Users(n, f) = Users(m, f)
      BY <1>1, <2>3 DEF Users, WellFormed, L
    <3> QED
      BY <1>1, <2>1, <2>3, <3>1
  <2> QED
    BY <2>2, <2>3
<1>4. WellFormed(n)
  <2>1. n.refcount \in [Frames -> Nat]
    BY <1>1, <1>3
  <2> QED
    BY <1>1, <1>2, <2>1 DEF WellFormed
<1> QED
  BY <1>1, <1>3, <1>4 DEF n, Accounted

LEMMA ResetFacts ==
  ASSUME NEW m, WellFormed(m), Accounted(m), NEW p \in Pids
  PROVE  LET n == reset_root_pgtable(m, p)
         IN  /\ WellFormed(n) /\ Accounted(n)
             /\ \A q \in Pids \ {p} : n.pgtable[q] = m.pgtable[q]
<1> DEFINE n == reset_root_pgtable(m, p)
<1>1. /\ n.free = m.free /\ n.refcount = m.refcount /\ n.page_list = m.page_list
      /\ n.pgtable = [m.pgtable EXCEPT ![p] = << >>]
      /\ n = [free |-> n.free, refcount |-> n.refcount,
              page_list |-> n.page_list, pgtable |-> n.pgtable]
  BY DEF WellFormed, reset_root_pgtable
<1> HIDE DEF n
<1> QED
  BY <1>1 DEF n, WellFormed, Accounted, Users

\* A new image has its heap mapped, and no other process sees a change.
LEMMA ReplaceFacts ==
  ASSUME NEW m, WellFormed(m), Accounted(m), NEW p \in Pids, NEW image
  PROVE  LET n == Replace(m, p, image)
             h == HeapPage(image)
         IN  /\ WellFormed(n) /\ Accounted(n)
             /\ h..(h + HeapPages - 1) \subseteq DOMAIN n.pgtable[p]
             /\ \A q \in Pids \ {p} : n.pgtable[q] = m.pgtable[q]
<1> DEFINE a == reset_root_pgtable(m, p)
           b == release_proc_pages(a, p)
           c == Stack(b, p)
           d == allocate_page(c, p, 1, image)
           e == allocate_page(d, p, HeapPage(image), HeapPages)
           n == allocate_page(e, p, ArgsPage, 1)
<1>0. Replace(m, p, image) = n
  BY DEF Replace
<1>1. WellFormed(a) /\ Accounted(a) /\ \A q \in Pids \ {p} : a.pgtable[q] = m.pgtable[q]
  BY ResetFacts
<1> HIDE DEF a
<1>2. WellFormed(b) /\ Accounted(b) /\ b.pgtable = a.pgtable
  BY <1>1, ReleaseFacts
<1> HIDE DEF b
<1>3. WellFormed(c) /\ Accounted(c) /\ \A q \in Pids \ {p} : c.pgtable[q] = b.pgtable[q]
  BY <1>2, MapFacts DEF Stack, allocate_page
<1> HIDE DEF c
<1>4. WellFormed(d) /\ Accounted(d) /\ \A q \in Pids \ {p} : d.pgtable[q] = c.pgtable[q]
  BY <1>3, MapFacts DEF allocate_page
<1> HIDE DEF d
<1>5. /\ WellFormed(e) /\ Accounted(e) /\ \A q \in Pids \ {p} : e.pgtable[q] = d.pgtable[q]
      /\ HeapPage(image)..(HeapPage(image) + HeapPages - 1) \subseteq DOMAIN e.pgtable[p]
  <2> DEFINE V == HeapPage(image)..(HeapPage(image) + HeapPages - 1)
  <2>1. e = MapPages(d, p, V)
    BY DEF allocate_page
  <2> HIDE DEF V, e
  <2>2. /\ WellFormed(e) /\ Accounted(e) /\ \A q \in Pids \ {p} : e.pgtable[q] = d.pgtable[q]
        /\ V \subseteq DOMAIN e.pgtable[p]
    BY <1>4, <2>1, MapFacts
  <2> QED
    BY <2>2 DEF V
<1> HIDE DEF e
<1>6. /\ WellFormed(n) /\ Accounted(n) /\ \A q \in Pids \ {p} : n.pgtable[q] = e.pgtable[q]
      /\ DOMAIN e.pgtable[p] \subseteq DOMAIN n.pgtable[p]
  BY <1>5, MapFacts DEF allocate_page
<1> HIDE DEF n
<1> QED
  BY <1>0, <1>1, <1>2, <1>3, <1>4, <1>5, <1>6

-----------------------------------------------------------------------------
(* The inductive invariant.                                                *)

Types ==
  /\ nextPid \in Nat \ {0}
  /\ state \in [Pids -> {"NEW", "READY", "ZOMBIE", "reaped"}]
  /\ heap_base \in [Pids -> Int]
  /\ heap_pointer \in [Pids -> Int]
  /\ execed \in [Pids -> BOOLEAN]

\* The heap of a program is made of whole pages, all mapped, and the break
\* is in it.
HeapAt(p, h) ==
  /\ heap_base[p] = h * PageSize
  /\ heap_pointer[p] \in heap_base[p]..(heap_base[p] + HEAP_SIZE - 1)
  /\ h..(h + HeapPages - 1) \subseteq DOMAIN memory.pgtable[p]

Heaps ==
  \A p \in Pids : state[p] = "READY" /\ execed[p] => \E h \in Int : HeapAt(p, h)

Inv == Types /\ WellFormed(memory) /\ Accounted(memory) /\ Heaps

LEMMA HeapSize == /\ HEAP_SIZE \in Int /\ HEAP_SIZE >= 1
                  /\ PageSize \in Int /\ PageSize >= 1 /\ HeapPages \in Int /\ HeapPages >= 1
<1>1. PageSize \in Int /\ PageSize >= 1 /\ HeapPages \in Int /\ HeapPages >= 1
  BY SizeAssumption
<1>2. ASSUME NEW a \in Int, NEW b \in Int, a >= 1, b >= 1 PROVE a * b \in Int /\ a * b >= 1
  BY <1>2
<1> QED
  BY <1>1, <1>2 DEF HEAP_SIZE

\* A quotient lies between those of the bounds.
LEMMA QuotientFacts ==
  ASSUME NEW d \in Int, d >= 1, NEW h \in Int, NEW n \in Int, NEW a \in Int,
         h * d <= a, a < h * d + n * d
  PROVE  a \div d \in h..(h + n - 1)
<1> DEFINE q == a \div d
<1>1. q \in Int /\ q * d <= a /\ a < q * d + d
  OBVIOUS
<1> HIDE DEF q
<1>2. ASSUME q < h PROVE FALSE
  <2>1. (q + 1) * d <= h * d
    BY <1>1, <1>2
  <2>2. (q + 1) * d = q * d + d
    BY <1>1
  <2> QED
    BY <1>1, <2>1, <2>2
<1>3. ASSUME q >= h + n PROVE FALSE
  <2>1. (h + n) * d <= q * d
    BY <1>1, <1>3
  <2>2. (h + n) * d = h * d + n * d
    OBVIOUS
  <2> QED
    BY <1>1, <2>1, <2>2
<1>4. q \in h..(h + n - 1)
  BY <1>1, <1>2, <1>3
<1> QED
  BY <1>4 DEF q

-----------------------------------------------------------------------------
(* Init and the steps.                                                     *)

LEMMA InvInit == Init => Inv
<1> SUFFICES ASSUME Init PROVE Inv
  OBVIOUS
<1> DEFINE nothing == [free |-> Frames,
                       refcount |-> [f \in Frames |-> 0],
                       page_list |-> [p \in Pids |-> {}],
                       pgtable |-> [p \in Pids |-> << >>]]
           V == (ArgsPage - StackPages)..(ArgsPage - StackPages + StackPages - 1)
           stacked == MapPages(nothing, Root, V)
           table == [v \in DOMAIN stacked.pgtable[Root] \cup {1} |->
                       IF v = 1 THEN Kernel ELSE stacked.pgtable[Root][v]]
<1>1. Root \in Pids
  BY SizeAssumption DEF Root, Pids
<1>2. WellFormed(nothing)
  BY DEF WellFormed
<1>3. ASSUME NEW f \in Frames PROVE Cardinality(Users(nothing, f)) = 0
  <2>1. Users(nothing, f) = {}
    BY DEF Users
  <2> HIDE DEF nothing
  <2> QED
    BY <2>1, FS_EmptySet
<1>4. Accounted(nothing)
  BY <1>3 DEF Accounted
<1> HIDE DEF nothing, V
<1>5. WellFormed(stacked) /\ Accounted(stacked)
  BY <1>1, <1>2, <1>4, MapFacts
<1>6. memory = [stacked EXCEPT !.pgtable[Root] = table]
  BY Zenon DEF Init, Stack, allocate_page, nothing, V
<1> HIDE DEF stacked, table
<1>7. /\ memory.free = stacked.free /\ memory.refcount = stacked.refcount
      /\ memory.page_list = stacked.page_list
      /\ memory.pgtable = [stacked.pgtable EXCEPT ![Root] = table]
      /\ memory = [free |-> memory.free, refcount |-> memory.refcount,
                   page_list |-> memory.page_list, pgtable |-> memory.pgtable]
  BY <1>5, <1>6 DEF WellFormed
<1>8. WellFormed(memory) /\ Accounted(memory)
  BY <1>5, <1>7 DEF WellFormed, Accounted, Users
<1>9. Types /\ Heaps
  BY DEF Init, Types, Heaps
<1> QED
  BY <1>8, <1>9 DEF Inv

LEMMA InvFork ==
  ASSUME Inv, NEW p \in Pids, Fork(p)
  PROVE  Inv'
<1> DEFINE c == nextPid
           V == DOMAIN memory.pgtable[p]
<1>1. CASE Cardinality(V) > Cardinality(memory.free)
  BY <1>1 DEF Fork, OutOfFrames, Inv, Types, Heaps, HeapAt, heap
<1>2. CASE ~(Cardinality(V) > Cardinality(memory.free))
  <2>1. /\ Runs(p) /\ nextPid <= MaxPid /\ nextPid' = nextPid + 1
        /\ state' = [state EXCEPT ![c] = "READY"]
        /\ memory' = MapPages(memory, c, V)
        /\ heap_base' = [heap_base EXCEPT ![c] = heap_base[p]]
        /\ heap_pointer' = [heap_pointer EXCEPT ![c] = heap_pointer[p]]
        /\ execed' = [execed EXCEPT ![c] = execed[p]]
    BY <1>2, Zenon DEF Fork
  <2>2. c \in Pids
    BY <2>1, PidsFinite DEF Pids, Inv, Types
  <2> HIDE DEF V, c
  <2>3. /\ WellFormed(memory') /\ Accounted(memory')
        /\ V \subseteq DOMAIN memory'.pgtable[c]
        /\ \A q \in Pids \ {c} : memory'.pgtable[q] = memory.pgtable[q]
    BY <2>1, <2>2, MapFacts DEF Inv
  <2>4. Types'
    BY <2>1, <2>2 DEF Inv, Types
  <2>5. ASSUME NEW q \in Pids, state'[q] = "READY", execed'[q]
        PROVE  \E h \in Int : HeapAt(q, h)'
    <3>1. CASE q = c
      <4>1. PICK h \in Int : HeapAt(p, h)
        BY <2>1, <2>2, <2>5, <3>1 DEF Inv, Types, Heaps, Runs
      <4>2. HeapAt(q, h)'
        BY <2>1, <2>2, <2>3, <3>1, <4>1 DEF Inv, Types, HeapAt, V
      <4> QED
        BY <4>2
    <3>2. CASE q # c
      <4>1. PICK h \in Int : HeapAt(q, h)
        BY <2>1, <2>2, <2>5, <3>2 DEF Inv, Types, Heaps
      <4>2. HeapAt(q, h)'
        BY <2>1, <2>2, <2>3, <3>2, <4>1 DEF Inv, Types, HeapAt
      <4> QED
        BY <4>2
    <3> QED
      BY <3>1, <3>2
  <2>6. Heaps'
    BY <2>5 DEF Heaps
  <2>7. WellFormed(memory)' /\ Accounted(memory)'
    BY <2>3
  <2> QED
    BY <2>4, <2>6, <2>7 DEF Inv
<1> QED
  BY <1>1, <1>2

LEMMA InvExecve ==
  ASSUME Inv, NEW p \in Pids, NEW image \in ImagePages, Execve(p, image)
  PROVE  Inv'
<1> DEFINE lacking == Cardinality(memory.free \cup memory.page_list[p]) < PageCount(p, image)
           h0 == HeapPage(image)
<1>1. CASE lacking
  BY <1>1 DEF Execve, OutOfFrames, Inv, Types, Heaps, HeapAt, heap
<1>2. CASE ~lacking
  <2>1. /\ memory' = Replace(memory, p, image)
        /\ heap_base' = [heap_base EXCEPT ![p] = h0 * PageSize]
        /\ heap_pointer' = [heap_pointer EXCEPT ![p] = h0 * PageSize]
        /\ execed' = [execed EXCEPT ![p] = TRUE]
        /\ UNCHANGED <<nextPid, state>>
    BY <1>2, Zenon DEF Execve, EmptyHeap
  <2>2. h0 \in Int /\ h0 * PageSize \in Int
    BY SizeAssumption, HeapSize DEF HeapPage
  <2> HIDE DEF lacking
  <2>3. /\ WellFormed(memory') /\ Accounted(memory')
        /\ h0..(h0 + HeapPages - 1) \subseteq DOMAIN memory'.pgtable[p]
        /\ \A q \in Pids \ {p} : memory'.pgtable[q] = memory.pgtable[q]
    BY <2>1, ReplaceFacts DEF Inv
  <2> HIDE DEF h0
  <2>4. Types'
    BY <2>1, <2>2 DEF Inv, Types
  <2>5. ASSUME NEW q \in Pids, state'[q] = "READY", execed'[q]
        PROVE  \E h \in Int : HeapAt(q, h)'
    <3>1. CASE q = p
      <4>1. /\ heap_base'[q] = h0 * PageSize
            /\ heap_pointer'[q] \in heap_base'[q]..(heap_base'[q] + HEAP_SIZE - 1)
        BY <2>1, <2>2, <3>1, HeapSize DEF Inv, Types
      <4>2. HeapAt(q, h0)'
        BY <2>3, <3>1, <4>1 DEF HeapAt
      <4> QED
        BY <2>2, <4>2
    <3>2. CASE q # p
      <4>1. PICK h \in Int : HeapAt(q, h)
        BY <2>1, <2>5, <3>2 DEF Inv, Types, Heaps
      <4>2. HeapAt(q, h)'
        BY <2>1, <2>3, <3>2, <4>1 DEF Inv, Types, HeapAt
      <4> QED
        BY <4>2
    <3> QED
      BY <3>1, <3>2
  <2>6. Heaps'
    BY <2>5 DEF Heaps
  <2>7. WellFormed(memory)' /\ Accounted(memory)'
    BY <2>3
  <2> QED
    BY <2>4, <2>6, <2>7 DEF Inv
<1> QED
  BY <1>1, <1>2

LEMMA InvSbrk ==
  ASSUME Inv, NEW p \in Pids, NEW increment \in Int, Sbrk(p, increment)
  PROVE  Inv'
<1>1. /\ InHeap(heap_pointer[p] - heap_base[p] + increment)
      /\ heap_pointer' = [heap_pointer EXCEPT ![p] = @ + increment]
      /\ UNCHANGED <<nextPid, state, memory, heap_base, execed>>
  BY DEF Sbrk
<1>2. Types'
  BY <1>1 DEF Inv, Types
<1>3. ASSUME NEW q \in Pids, state'[q] = "READY", execed'[q]
      PROVE  \E h \in Int : HeapAt(q, h)'
  <2>1. PICK h \in Int : HeapAt(q, h)
    BY <1>1, <1>3 DEF Inv, Heaps
  <2>2. heap_pointer'[q] \in heap_base[q]..(heap_base[q] + HEAP_SIZE - 1)
    BY <1>1, <2>1, HeapSize DEF Inv, Types, HeapAt, InHeap
  <2>3. HeapAt(q, h)'
    BY <1>1, <2>1, <2>2 DEF HeapAt
  <2> QED
    BY <2>3
<1>4. Heaps'
  BY <1>3 DEF Heaps
<1> QED
  BY <1>1, <1>2, <1>4 DEF Inv, WellFormed, Accounted, Users

LEMMA InvExit ==
  ASSUME Inv, NEW p \in Pids, Exit(p)
  PROVE  Inv'
<1>1. /\ state' = [state EXCEPT ![p] = "ZOMBIE"]
      /\ memory' = release_proc_pages(memory, p)
      /\ UNCHANGED <<nextPid, heap_base, heap_pointer, execed>>
  BY DEF Exit, heap
<1>2. WellFormed(memory') /\ Accounted(memory') /\ memory'.pgtable = memory.pgtable
  BY <1>1, ReleaseFacts DEF Inv
<1>3. Types' /\ Heaps'
  BY <1>1, <1>2 DEF Inv, Types, Heaps, HeapAt
<1>4. WellFormed(memory)' /\ Accounted(memory)'
  BY <1>2
<1> QED
  BY <1>3, <1>4 DEF Inv

LEMMA InvReap ==
  ASSUME Inv, NEW p \in Pids, Reap(p)
  PROVE  Inv'
<1>1. /\ state' = [state EXCEPT ![p] = "reaped"]
      /\ memory' = reset_root_pgtable(memory, p)
      /\ UNCHANGED <<nextPid, heap_base, heap_pointer, execed>>
  BY DEF Reap, heap
<1>2. /\ WellFormed(memory') /\ Accounted(memory')
      /\ \A q \in Pids \ {p} : memory'.pgtable[q] = memory.pgtable[q]
  BY <1>1, ResetFacts DEF Inv
<1>3. Types' /\ Heaps'
  BY <1>1, <1>2 DEF Inv, Types, Heaps, HeapAt
<1>4. WellFormed(memory)' /\ Accounted(memory)'
  BY <1>2
<1> QED
  BY <1>3, <1>4 DEF Inv

LEMMA InvNext == Inv /\ [Next]_vars => Inv'
<1> SUFFICES ASSUME Inv, [Next]_vars PROVE Inv'
  OBVIOUS
<1>1. CASE UNCHANGED vars
  BY <1>1 DEF vars, heap, Inv, Types, WellFormed, Accounted, Users, Heaps, HeapAt
<1>2. ASSUME NEW p \in Pids, Fork(p) PROVE Inv'
  BY <1>2, InvFork
<1>3. ASSUME NEW p \in Pids, NEW image \in ImagePages, Execve(p, image) PROVE Inv'
  BY <1>3, InvExecve
<1>4. ASSUME NEW p \in Pids, NEW increment \in -HEAP_SIZE..HEAP_SIZE, Sbrk(p, increment)
      PROVE  Inv'
  BY <1>4, HeapSize, InvSbrk
<1>5. ASSUME NEW p \in Pids, Exit(p) PROVE Inv'
  BY <1>5, InvExit
<1>6. ASSUME NEW p \in Pids, Reap(p) PROVE Inv'
  BY <1>6, InvReap
<1> QED
  BY <1>1, <1>2, <1>3, <1>4, <1>5, <1>6 DEF Next

LEMMA InvMapped == Inv => HeapMapped
<1> SUFFICES ASSUME Inv, NEW p \in Pids, state[p] = "READY", execed[p]
             PROVE  /\ heap_pointer[p] \in heap_base[p]..(heap_base[p] + HEAP_SIZE - 1)
                    /\ \A a \in heap_base[p]..heap_pointer[p] :
                         (a \div PageSize) \in DOMAIN memory.pgtable[p]
  BY DEF HeapMapped
<1>1. PICK h \in Int : HeapAt(p, h)
  BY DEF Inv, Heaps
<1>2. ASSUME NEW a \in heap_base[p]..heap_pointer[p]
      PROVE  (a \div PageSize) \in DOMAIN memory.pgtable[p]
  <2>1. a \in Int /\ h * PageSize <= a /\ a < h * PageSize + HeapPages * PageSize
    BY <1>1, HeapSize DEF HeapAt, Inv, Types, HEAP_SIZE
  <2>2. a \div PageSize \in h..(h + HeapPages - 1)
    BY <2>1, HeapSize, QuotientFacts
  <2> QED
    BY <1>1, <2>2 DEF HeapAt
<1> QED
  BY <1>1, <1>2 DEF HeapAt

-----------------------------------------------------------------------------
(* The frames handed out for a set of pages: one for each, in order.       *)

LEMMA RankFacts ==
  ASSUME NEW S \in SUBSET Int, IsFiniteSet(S)
  PROVE  /\ \A x \in S : Rank(x, S) \in 0..(Cardinality(S) - 1)
         /\ \A x \in S, y \in S : x < y => Rank(x, S) < Rank(y, S)
<1> DEFINE Below(x) == {y \in S : y < x}
<1>1. ASSUME NEW x \in S
      PROVE  /\ IsFiniteSet(Below(x)) /\ Cardinality(Below(x)) \in Nat
             /\ Cardinality(Below(x)) < Cardinality(S) /\ Cardinality(S) \in Nat
  <2>1. Below(x) \in SUBSET S /\ Below(x) # S
    OBVIOUS
  <2> QED
    BY <2>1, FS_Subset, FS_CardinalityType
<1>2. ASSUME NEW x \in S, NEW y \in S, x < y
      PROVE  Cardinality(Below(x)) < Cardinality(Below(y))
  <2> DEFINE X == Below(x)
             Y == Below(y)
  <2>1. \A z \in S : z < x => z < y
    BY <1>2
  <2>2. X \in SUBSET Y
    BY <2>1
  <2>3. x \in Y /\ x \notin X
    BY <1>2
  <2>4. IsFiniteSet(Y) /\ Cardinality(Y) \in Nat /\ Cardinality(X) \in Nat
    BY <1>1
  <2> HIDE DEF X, Y
  <2>5. Cardinality(X) < Cardinality(Y)
    <3>1. X # Y
      BY <2>3
    <3>2. Cardinality(X) <= Cardinality(Y) /\ (Cardinality(Y) = Cardinality(X) => Y = X)
      BY <2>2, <2>4, FS_Subset
    <3> QED
      BY <2>4, <3>1, <3>2
  <2> QED
    BY <2>5 DEF X, Y
<1> QED
  BY <1>1, <1>2 DEF Rank

\* The ranks are the numbers from 0 on, so many as there are elements.
LEMMA RankOnto ==
  ASSUME NEW S \in SUBSET Int, IsFiniteSet(S), NEW n \in Nat, n <= Cardinality(S)
  PROVE  /\ \A k \in 0..(n - 1) : \E x \in S : Rank(x, S) = k
         /\ Cardinality({x \in S : Rank(x, S) < n}) = n
<1> DEFINE c == Cardinality(S)
           r == [x \in S |-> Rank(x, S)]
           L == {x \in S : Rank(x, S) < n}
           l == [x \in L |-> Rank(x, S)]
<1>1. c \in Nat
  BY FS_CardinalityType
<1>2. \A x \in S, y \in S : Rank(x, S) = Rank(y, S) => x = y
  BY RankFacts
<1> HIDE DEF c
<1>3. r \in Injection(S, 0..(c - 1))
  BY <1>2, RankFacts DEF Injection, IsInjective, c
<1>4. IsFiniteSet(0..(c - 1)) /\ Cardinality(0..(c - 1)) = c
  BY <1>1, FS_Interval
<1>5. r \in Surjection(S, 0..(c - 1))
  BY <1>3, <1>4, FS_Injection DEF c
<1>6. \A k \in 0..(c - 1) : \E x \in S : Rank(x, S) = k
  BY <1>5 DEF Surjection
<1>7. \A k \in 0..(n - 1) : \E x \in S : Rank(x, S) = k
  BY <1>1, <1>6 DEF c
<1>8. l \in Bijection(L, 0..(n - 1))
  <2>1. l \in [L -> 0..(n - 1)]
    <3>1. \A x \in L : Rank(x, S) \in 0..(c - 1) /\ Rank(x, S) < n
      BY RankFacts DEF c
    <3>2. \A x \in L : Rank(x, S) \in 0..(n - 1)
      BY <1>1, <3>1
    <3> QED
      BY <3>2
  <2>2. l \in Injection(L, 0..(n - 1))
    BY <1>2, <2>1 DEF Injection, IsInjective
  <2>3. l \in Surjection(L, 0..(n - 1))
    BY <1>7, <2>1 DEF Surjection
  <2> QED
    BY <2>2, <2>3 DEF Bijection
<1>9. IsFiniteSet(L)
  BY FS_Subset
<1> HIDE DEF L
<1>10. ExistsBijection(L, 0..(n - 1))
  BY <1>8 DEF ExistsBijection
<1>11. Cardinality(0..(n - 1)) = n
  BY FS_Interval
<1> QED
  BY <1>7, <1>9, <1>10, <1>11, FS_Bijection DEF L

\* Pairing elements of equal rank.
LEMMA RankMap ==
  ASSUME NEW S \in SUBSET Int, NEW T \in SUBSET Int, IsFiniteSet(S), IsFiniteSet(T),
         Cardinality(S) = Cardinality(T),
         NEW h, h = [v \in S |-> CHOOSE f \in T : Rank(f, T) = Rank(v, S)]
  PROVE  h \in Bijection(S, T)
<1> DEFINE c == Cardinality(T)
<1>1. c \in Nat
  BY FS_CardinalityType
<1>2. ASSUME NEW v \in S
      PROVE  h[v] \in T /\ Rank(h[v], T) = Rank(v, S)
  <2>1. Rank(v, S) \in 0..(c - 1)
    BY RankFacts
  <2>2. \A k \in 0..(c - 1) : \E f \in T : Rank(f, T) = k
    <3>1. c <= Cardinality(T)
      BY <1>1
    <3> HIDE DEF c
    <3> QED
      BY <1>1, <3>1, RankOnto
  <2>3. \E f \in T : Rank(f, T) = Rank(v, S)
    BY <2>1, <2>2
  <2> QED
    BY <2>3
<1>3. h \in [S -> T]
  BY <1>2
<1>4. \A x \in S, y \in S : h[x] = h[y] => x = y
  BY <1>2, RankFacts
<1>5. h \in Injection(S, T)
  BY <1>3, <1>4 DEF Injection, IsInjective
<1>6. h \in Surjection(S, T)
  BY <1>5, FS_Injection
<1> QED
  BY <1>5, <1>6 DEF Bijection

-----------------------------------------------------------------------------
(* Page tables whose frames are private.                                   *)

\* A process maps its own frames, each at one page; the kernel's code aside.
Private(m, p) ==
  /\ m.pgtable[p] \in [DOMAIN m.pgtable[p] -> Frames \cup {Kernel}]
  /\ DOMAIN m.pgtable[p] \subseteq Virtual
  /\ IsInjective(m.pgtable[p])
  /\ Range(m.pgtable[p]) \ {Kernel} = m.page_list[p]

Disjoint(m) ==
  \A p \in Pids, q \in Pids : p # q => m.page_list[p] \cap m.page_list[q] = {}

LEMMA Finite ==
  /\ IsFiniteSet(Frames) /\ Frames \in SUBSET Int /\ Kernel \notin Frames
  /\ IsFiniteSet(Virtual) /\ Virtual \in SUBSET Int
  BY FS_Interval, FrameAssumption, LayoutAssumption DEF Frames, Virtual, Kernel

\* What MapPages does, h being the frame of each page.
Maps(m, p, V, n, got, h) ==
  /\ got \in SUBSET m.free
  /\ h \in Bijection(V, got)
  /\ Cardinality(got) = Cardinality(V)
  /\ n.free = m.free \ got
  /\ n.page_list = [m.page_list EXCEPT ![p] = @ \cup got]
  /\ n.pgtable = [m.pgtable EXCEPT ![p] =
                    [v \in DOMAIN m.pgtable[p] \cup V |->
                       IF v \in V THEN h[v] ELSE m.pgtable[p][v]]]

\* With enough free frames, every page gets one of its own.
LEMMA MapGives ==
  ASSUME NEW m, WellFormed(m), Accounted(m), NEW p \in Pids, NEW V \in SUBSET Virtual,
         Cardinality(V) <= Cardinality(m.free), NEW n, n = MapPages(m, p, V)
  PROVE  \E got, h : Maps(m, p, V, n, got, h)
<1> DEFINE got == FreeFrames(m, Cardinality(V))
           h == [v \in V |-> CHOOSE f \in got : Rank(f, got) = Rank(v, V)]
           table == [v \in DOMAIN m.pgtable[p] \cup V |->
                       IF v \in V THEN h[v] ELSE m.pgtable[p][v]]
           a == Add(m, p, got)
<1>1. /\ IsFiniteSet(V) /\ V \in SUBSET Int /\ Cardinality(V) \in Nat
      /\ IsFiniteSet(m.free) /\ m.free \in SUBSET Int
  BY Finite, FS_Subset, FS_CardinalityType DEF WellFormed
<1>2. got \in SUBSET m.free
  BY DEF FreeFrames
<1>3. Cardinality(got) = Cardinality(V)
  BY <1>1, RankOnto DEF FreeFrames
<1> HIDE DEF got
<1>4. IsFiniteSet(got) /\ got \in SUBSET Int
  BY <1>1, <1>2, FS_Subset
<1>5. h \in Bijection(V, got)
  BY <1>1, <1>3, <1>4, RankMap
<1>6. n = [a EXCEPT !.pgtable[p] = table]
  BY Zenon DEF MapPages, got
<1>7. /\ a.free = m.free \ got
      /\ a.page_list = [m.page_list EXCEPT ![p] = @ \cup got]
      /\ a.pgtable = m.pgtable
  <2>1. m = [free |-> m.free, refcount |-> m.refcount,
             page_list |-> m.page_list, pgtable |-> m.pgtable]
    BY DEF WellFormed
  <2>2. a.free = m.free \ got
    BY <2>1 DEF Add
  <2>3. a.page_list = [m.page_list EXCEPT ![p] = @ \cup got]
    BY <2>1 DEF Add
  <2>4. a.pgtable = m.pgtable
    BY <2>1 DEF Add
  <2> QED
    BY <2>2, <2>3, <2>4
<1>8. WellFormed(a)
  BY <1>2, AddFacts
<1> HIDE DEF a, h, table
<1>9. /\ n.free = a.free /\ n.page_list = a.page_list
      /\ n.pgtable = [a.pgtable EXCEPT ![p] = table]
  BY <1>6, <1>8 DEF WellFormed
<1>10. n.pgtable = [m.pgtable EXCEPT ![p] =
                     [v \in DOMAIN m.pgtable[p] \cup V |->
                        IF v \in V THEN h[v] ELSE m.pgtable[p][v]]]
  BY <1>7, <1>9 DEF table
<1>11. Maps(m, p, V, n, got, h)
  BY <1>2, <1>3, <1>5, <1>7, <1>9, <1>10 DEF Maps
<1> QED
  BY <1>11

\* From m to n the process p has got frames for V and nobody else has
\* noticed.
Mapped(m, n, p, V) ==
  /\ Private(n, p) /\ Disjoint(n)
  /\ DOMAIN n.pgtable[p] = DOMAIN m.pgtable[p] \cup V
  /\ Kernel \in Range(n.pgtable[p]) => Kernel \in Range(m.pgtable[p])
  /\ Cardinality(n.page_list[p]) = Cardinality(m.page_list[p]) + Cardinality(V)
  /\ Cardinality(n.free) = Cardinality(m.free) - Cardinality(V)
  /\ \A q \in Pids \ {p} : /\ n.pgtable[q] = m.pgtable[q]
                           /\ n.page_list[q] = m.page_list[q]

\* Pages that were not mapped get frames nobody had.
LEMMA MapKeeps ==
  ASSUME NEW m, WellFormed(m), Accounted(m), Disjoint(m),
         NEW p \in Pids, Private(m, p), NEW V \in SUBSET Virtual,
         V \cap DOMAIN m.pgtable[p] = {},
         Cardinality(V) <= Cardinality(m.free), NEW n, n = MapPages(m, p, V)
  PROVE  Mapped(m, n, p, V)
<1> DEFINE old == m.pgtable[p]
           new == n.pgtable[p]
<1>0. PICK got, h : Maps(m, p, V, n, got, h)
  BY MapGives
<1>1. /\ got \in SUBSET m.free
      /\ h \in Bijection(V, got)
      /\ Cardinality(got) = Cardinality(V)
      /\ n.free = m.free \ got
      /\ n.page_list = [m.page_list EXCEPT ![p] = @ \cup got]
      /\ n.pgtable = [m.pgtable EXCEPT ![p] =
                        [v \in DOMAIN m.pgtable[p] \cup V |->
                           IF v \in V THEN h[v] ELSE m.pgtable[p][v]]]
  BY <1>0 DEF Maps
<1>2. /\ new = [v \in DOMAIN old \cup V |-> IF v \in V THEN h[v] ELSE old[v]]
      /\ \A q \in Pids \ {p} : /\ n.pgtable[q] = m.pgtable[q]
                               /\ n.page_list[q] = m.page_list[q]
      /\ n.page_list[p] = m.page_list[p] \cup got
  BY <1>1 DEF WellFormed
<1>3. \A q \in Pids : got \cap m.page_list[q] = {}
  <2> SUFFICES ASSUME NEW q \in Pids, NEW f \in got, f \in m.page_list[q] PROVE FALSE
    OBVIOUS
  <2>1. f \in Frames /\ f \in m.free
    BY <1>1 DEF WellFormed
  <2>2. Cardinality(Users(m, f)) = 0
    BY <2>1 DEF Accounted
  <2>3. Users(m, f) = {}
    BY <2>2, UsersFinite
  <2> QED
    BY <2>3 DEF Users
<1>4. /\ h \in [V -> got] /\ \A x \in V, y \in V : h[x] = h[y] => x = y
      /\ \A f \in got : \E x \in V : h[x] = f
  BY <1>1 DEF Bijection, Injection, Surjection, IsInjective
<1>5. got \in SUBSET Frames /\ Kernel \notin got
  BY <1>1, Finite DEF WellFormed
<1>6. /\ old \in [DOMAIN old -> Frames \cup {Kernel}] /\ DOMAIN old \subseteq Virtual
      /\ \A x \in DOMAIN old, y \in DOMAIN old : old[x] = old[y] => x = y
      /\ \A f : f \in m.page_list[p] <=> f # Kernel /\ \E x \in DOMAIN old : old[x] = f
  BY DEF Private, IsInjective, Range
<1> HIDE DEF old, new
<1>7. Range(new) = Range(old) \cup got
  <2>1. \A x \in DOMAIN old : x \notin V
    BY DEF old
  <2>2. /\ DOMAIN new = DOMAIN old \cup V
        /\ \A x \in V : new[x] = h[x]
        /\ \A x \in DOMAIN old : new[x] = old[x]
    BY <1>2, <2>1
  <2>3. ASSUME NEW f PROVE f \in Range(new) => f \in Range(old) \cup got
    <3> SUFFICES ASSUME NEW x \in DOMAIN new, f = new[x] PROVE f \in Range(old) \cup got
      BY DEF Range
    <3> QED
      BY <1>4, <2>2 DEF Range
  <2>4. ASSUME NEW f \in Range(old) PROVE f \in Range(new)
    <3>1. PICK x \in DOMAIN old : f = old[x]
      BY DEF Range
    <3>2. x \in DOMAIN new /\ f = new[x]
      BY <2>2, <3>1
    <3> QED
      BY <3>2 DEF Range
  <2>5. ASSUME NEW f \in got PROVE f \in Range(new)
    <3>1. PICK x \in V : f = h[x]
      BY <1>4
    <3>2. x \in DOMAIN new /\ f = new[x]
      BY <2>2, <3>1
    <3> QED
      BY <3>2 DEF Range
  <2> QED
    BY <2>3, <2>4, <2>5
<1>8. Private(n, p)
  <2>1. new \in [DOMAIN new -> Frames \cup {Kernel}] /\ DOMAIN new \subseteq Virtual
    BY <1>2, <1>4, <1>5, <1>6
  <2>2. IsInjective(new)
    <3>1. \A x \in V, y \in DOMAIN old \ V : h[x] # old[y]
      BY <1>3, <1>4, <1>5, <1>6
    <3> QED
      BY <1>2, <1>4, <1>6, <3>1 DEF IsInjective
  <2>3. Range(new) \ {Kernel} = n.page_list[p]
    BY <1>2, <1>5, <1>7 DEF Private, old
  <2> QED
    BY <2>1, <2>2, <2>3 DEF Private, new
<1>9. Disjoint(n)
  BY <1>2, <1>3 DEF Disjoint
<1>10. Cardinality(n.page_list[p]) = Cardinality(m.page_list[p]) + Cardinality(V)
  <2>1. IsFiniteSet(got) /\ IsFiniteSet(m.page_list[p])
    BY <1>5, Finite, FS_Subset DEF WellFormed
  <2>2. Cardinality(m.page_list[p] \cap got) = 0
    BY <1>3, FS_EmptySet
  <2> DEFINE L == m.page_list[p]
  <2>3. n.page_list[p] = L \cup got
    BY <1>2
  <2>4. IsFiniteSet(L) /\ Cardinality(L \cap got) = 0 /\ Cardinality(L) \in Nat
        /\ Cardinality(got) \in Nat
    BY <2>1, <2>2, FS_CardinalityType
  <2> HIDE DEF L
  <2>5. Cardinality(L \cup got) = Cardinality(L) + Cardinality(got)
    <3>1. Cardinality(L \cup got) =
            Cardinality(L) + Cardinality(got) - Cardinality(L \cap got)
      BY <2>1, <2>4, FS_Union
    <3> QED
      BY <2>4, <3>1
  <2> QED
    BY <1>1, <2>3, <2>5 DEF L
<1>11. Cardinality(n.free) = Cardinality(m.free) - Cardinality(V)
  <2>1. IsFiniteSet(m.free) /\ m.free \cap got = got
    BY <1>1, Finite, FS_Subset DEF WellFormed
  <2>2. Cardinality(m.free \ got) = Cardinality(m.free) - Cardinality(m.free \cap got)
    BY <2>1, FS_Difference
  <2> QED
    BY <1>1, <2>1, <2>2
<1> QED
  BY <1>2, <1>5, <1>7, <1>8, <1>9, <1>10, <1>11 DEF old, new, Mapped

\* What is known of the memory of one process, and of all of them.
Sound(m) == WellFormed(m) /\ Accounted(m) /\ Disjoint(m)

LEMMA PagesAreFinite ==
  ASSUME NEW m, WellFormed(m), NEW p \in Pids
  PROVE  IsFiniteSet(m.page_list[p]) /\ Cardinality(m.page_list[p]) \in Nat
  BY Finite, FS_Subset, FS_CardinalityType DEF WellFormed

\* A process that gives its pages back leaves all of them free.
LEMMA ReleaseAll ==
  ASSUME NEW m, Sound(m), NEW p \in Pids, NEW n, n = release_proc_pages(m, p)
  PROVE  /\ Sound(n) /\ n.pgtable = m.pgtable /\ n.page_list[p] = {}
         /\ n.free = m.free \cup m.page_list[p]
         /\ \A q \in Pids \ {p} : n.page_list[q] = m.page_list[q]
<1>1. WellFormed(n) /\ Accounted(n) /\ n.pgtable = m.pgtable
  BY ReleaseFacts DEF Sound
<1>2. /\ n.free = m.free \cup {f \in m.page_list[p] : m.refcount[f] = 1}
      /\ n.page_list = [m.page_list EXCEPT ![p] = {}]
  <2>1. m = [free |-> m.free, refcount |-> m.refcount,
             page_list |-> m.page_list, pgtable |-> m.pgtable]
    BY DEF WellFormed, Sound
  <2>2. n.free = m.free \cup {f \in m.page_list[p] : m.refcount[f] = 1}
    BY <2>1 DEF release_proc_pages
  <2>3. n.page_list = [m.page_list EXCEPT ![p] = {}]
    BY <2>1 DEF release_proc_pages
  <2> QED
    BY <2>2, <2>3
<1>3. ASSUME NEW f \in m.page_list[p] PROVE m.refcount[f] = 1
  <2>1. Users(m, f) = {p}
    BY DEF Users, Sound, Disjoint
  <2>2. Cardinality(Users(m, f)) = 1
    BY <2>1, FS_Singleton
  <2>3. f \in Frames
    BY DEF Sound, WellFormed
  <2> QED
    BY <2>2, <2>3 DEF Sound, Accounted
<1>4. n.page_list[p] = {} /\ \A q \in Pids \ {p} : n.page_list[q] = m.page_list[q]
  BY <1>2 DEF Sound, WellFormed
<1>5. Disjoint(n)
  BY <1>4 DEF Sound, Disjoint
<1> QED
  BY <1>1, <1>2, <1>3, <1>4, <1>5 DEF Sound

LEMMA ResetTable ==
  ASSUME NEW m, Sound(m), NEW p \in Pids, NEW n, n = reset_root_pgtable(m, p)
  PROVE  /\ Sound(n) /\ n.pgtable[p] = << >> /\ n.free = m.free
         /\ n.page_list = m.page_list
         /\ \A q \in Pids \ {p} : n.pgtable[q] = m.pgtable[q]
<1>1. WellFormed(n) /\ Accounted(n) /\ \A q \in Pids \ {p} : n.pgtable[q] = m.pgtable[q]
  BY ResetFacts DEF Sound
<1>2. /\ n.free = m.free /\ n.page_list = m.page_list
      /\ n.pgtable = [m.pgtable EXCEPT ![p] = << >>]
  BY DEF WellFormed, Sound, reset_root_pgtable
<1> QED
  BY <1>1, <1>2 DEF Sound, Disjoint, WellFormed

\* A process with nothing.
LEMMA EmptyIsPrivate ==
  ASSUME NEW m, NEW p, m.pgtable[p] = << >>, m.page_list[p] = {}
  PROVE  /\ Private(m, p) /\ DOMAIN m.pgtable[p] = {} /\ Range(m.pgtable[p]) = {}
<1>1. DOMAIN << >> = {}
  OBVIOUS
<1>2. Range(<< >>) = {}
  BY <1>1 DEF Range
<1>3. << >> \in [{} -> Frames \cup {Kernel}]
  BY <1>1
<1> QED
  BY <1>1, <1>2, <1>3 DEF Private, IsInjective

\* The same, for so many pages as count.
Allocated(m, n, p, V, count) ==
  /\ Sound(n) /\ Private(n, p)
  /\ DOMAIN n.pgtable[p] = DOMAIN m.pgtable[p] \cup V
  /\ Kernel \in Range(n.pgtable[p]) => Kernel \in Range(m.pgtable[p])
  /\ Cardinality(n.page_list[p]) = Cardinality(m.page_list[p]) + count
  /\ Cardinality(n.free) = Cardinality(m.free) - count
  /\ \A q \in Pids \ {p} : /\ n.pgtable[q] = m.pgtable[q]
                           /\ n.page_list[q] = m.page_list[q]

\* One call of allocate_page() on pages that are not mapped.
LEMMA Allocate ==
  ASSUME NEW m, Sound(m), NEW p \in Pids, Private(m, p),
         NEW first \in Nat, NEW count \in Nat, first + count <= ArgsPage + 1,
         NEW V, V = first..(first + count - 1), V \cap DOMAIN m.pgtable[p] = {},
         count <= Cardinality(m.free), NEW n, n = allocate_page(m, p, first, count)
  PROVE  Allocated(m, n, p, V, count)
<1>1. V \in SUBSET Virtual
  BY LayoutAssumption DEF Virtual
<1>2. Cardinality(V) = count
  <2> DEFINE last == first + count - 1
  <2>1. last \in Int /\ first \in Int
    OBVIOUS
  <2> HIDE DEF last
  <2>2. Cardinality(first..last) = IF first > last THEN 0 ELSE last - first + 1
    BY <2>1, FS_Interval
  <2> QED
    BY <2>2 DEF last
<1>3. n = MapPages(m, p, V)
  BY DEF allocate_page
<1>4. WellFormed(n) /\ Accounted(n)
  BY <1>3, MapFacts DEF Sound
<1>5. count \in Nat /\ Cardinality(V) <= Cardinality(m.free)
  BY <1>2
<1>6. Mapped(m, n, p, V)
  BY <1>1, <1>3, <1>5, MapKeeps DEF Sound
<1> QED
  BY <1>2, <1>4, <1>6 DEF Sound, Mapped, Allocated

\* Stack, image, heap and page of arguments do not overlap.
LEMMA Layout ==
  ASSUME NEW image \in ImagePages
  PROVE  /\ image \in Nat /\ image >= 1 /\ ArgsPage \in Nat
         /\ StackPages \in Nat /\ StackPages >= 1
         /\ HeapPages \in Nat /\ HeapPages >= 1
         /\ image < HeapPage(image)
         /\ HeapPage(image) \in Nat
         /\ HeapPage(image) + HeapPages <= ArgsPage - StackPages
  BY SizeAssumption, LayoutAssumption DEF HeapPage

LEMMA ReplaceIsSound ==
  ASSUME NEW m, Sound(m), NEW p \in Pids, NEW image \in ImagePages,
         Cardinality(m.free \cup m.page_list[p]) >= PageCount(p, image),
         NEW n, n = Replace(m, p, image)
  PROVE  /\ Sound(n) /\ Private(n, p) /\ Kernel \notin Range(n.pgtable[p])
         /\ Cardinality(n.page_list[p]) = PageCount(p, image)
         /\ \A q \in Pids \ {p} : /\ n.pgtable[q] = m.pgtable[q]
                                  /\ n.page_list[q] = m.page_list[q]
<1> DEFINE a == reset_root_pgtable(m, p)
           b == release_proc_pages(a, p)
           c == Stack(b, p)
           d == allocate_page(c, p, 1, image)
           e == allocate_page(d, p, HeapPage(image), HeapPages)
           z == allocate_page(e, p, ArgsPage, 1)
           V1 == (ArgsPage - StackPages)..(ArgsPage - StackPages + StackPages - 1)
           V2 == 1..(1 + image - 1)
           V3 == HeapPage(image)..(HeapPage(image) + HeapPages - 1)
           V4 == ArgsPage..(ArgsPage + 1 - 1)
<1>1. n = z
  BY DEF Replace
<1>2. /\ V2 \cap V1 = {} /\ V3 \cap V1 = {} /\ V3 \cap V2 = {}
      /\ V4 \cap V1 = {} /\ V4 \cap V2 = {} /\ V4 \cap V3 = {}
  BY Layout
<1> HIDE DEF V1, V2, V3, V4
<1>3. /\ Sound(a) /\ a.pgtable[p] = << >> /\ a.free = m.free /\ a.page_list = m.page_list
      /\ \A q \in Pids \ {p} : a.pgtable[q] = m.pgtable[q]
  BY ResetTable
<1> HIDE DEF a
<1>4. /\ Sound(b) /\ b.pgtable = a.pgtable /\ b.page_list[p] = {}
      /\ b.free = m.free \cup m.page_list[p]
      /\ \A q \in Pids \ {p} : b.page_list[q] = m.page_list[q]
  BY <1>3, ReleaseAll
<1>5. /\ Private(b, p) /\ DOMAIN b.pgtable[p] = {} /\ Range(b.pgtable[p]) = {}
      /\ Cardinality(b.page_list[p]) = 0
  BY <1>3, <1>4, EmptyIsPrivate, FS_EmptySet
<1>6. /\ Cardinality(b.free) \in Nat
      /\ Cardinality(b.free) >= StackPages + image + HeapPages + 1
  BY <1>4, Finite, FS_Subset, FS_CardinalityType DEF PageCount, Sound, WellFormed
<1> HIDE DEF b
<1>7. /\ Sound(c) /\ Private(c, p) /\ DOMAIN c.pgtable[p] = V1
      /\ Kernel \notin Range(c.pgtable[p])
      /\ Cardinality(c.page_list[p]) = StackPages
      /\ Cardinality(c.free) = Cardinality(b.free) - StackPages
      /\ \A q \in Pids \ {p} : /\ c.pgtable[q] = b.pgtable[q]
                               /\ c.page_list[q] = b.page_list[q]
  <2>1. c = allocate_page(b, p, ArgsPage - StackPages, StackPages)
    BY DEF Stack
  <2>2. /\ ArgsPage - StackPages \in Nat /\ StackPages \in Nat
        /\ ArgsPage - StackPages + StackPages <= ArgsPage + 1
        /\ StackPages <= Cardinality(b.free)
    BY <1>6, Layout
  <2> HIDE DEF c
  <2>3. V1 = (ArgsPage - StackPages)..(ArgsPage - StackPages + StackPages - 1)
    BY DEF V1
  <2>4. V1 \cap DOMAIN b.pgtable[p] = {}
    BY <1>5
  <2>5. Allocated(b, c, p, V1, StackPages)
    BY <1>4, <1>5, <2>1, <2>2, <2>3, <2>4, Allocate
  <2> QED
    BY <1>5, <1>6, <2>2, <2>5 DEF Allocated
<1> HIDE DEF c
<1>8. /\ Sound(d) /\ Private(d, p) /\ DOMAIN d.pgtable[p] = V1 \cup V2
      /\ Kernel \notin Range(d.pgtable[p])
      /\ Cardinality(d.page_list[p]) = StackPages + image
      /\ Cardinality(d.free) = Cardinality(b.free) - StackPages - image
      /\ \A q \in Pids \ {p} : /\ d.pgtable[q] = b.pgtable[q]
                               /\ d.page_list[q] = b.page_list[q]
  <2>1. /\ image \in Nat /\ 1 \in Nat /\ 1 + image <= ArgsPage + 1
        /\ image <= Cardinality(c.free)
    BY <1>6, <1>7, Layout
  <2>2. V2 = 1..(1 + image - 1)
    BY DEF V2
  <2> HIDE DEF d
  <2>3. d = allocate_page(c, p, 1, image)
    BY DEF d
  <2>4. V2 \cap DOMAIN c.pgtable[p] = {}
    BY <1>2, <1>7
  <2>5. Allocated(c, d, p, V2, image)
    BY <1>7, <2>1, <2>2, <2>3, <2>4, Allocate
  <2> QED
    BY <1>6, <1>7, <2>1, <2>5, Layout DEF Allocated
<1> HIDE DEF d
<1>9. /\ Sound(e) /\ Private(e, p) /\ DOMAIN e.pgtable[p] = V1 \cup V2 \cup V3
      /\ Kernel \notin Range(e.pgtable[p])
      /\ Cardinality(e.page_list[p]) = StackPages + image + HeapPages
      /\ Cardinality(e.free) = Cardinality(b.free) - StackPages - image - HeapPages
      /\ \A q \in Pids \ {p} : /\ e.pgtable[q] = b.pgtable[q]
                               /\ e.page_list[q] = b.page_list[q]
  <2>1. /\ HeapPage(image) \in Nat /\ HeapPages \in Nat
        /\ HeapPage(image) + HeapPages <= ArgsPage + 1
        /\ HeapPages <= Cardinality(d.free)
    BY <1>6, <1>8, Layout
  <2>2. V3 = HeapPage(image)..(HeapPage(image) + HeapPages - 1)
    BY DEF V3
  <2> HIDE DEF e
  <2>3. e = allocate_page(d, p, HeapPage(image), HeapPages)
    BY DEF e
  <2>4. V3 \cap DOMAIN d.pgtable[p] = {}
    BY <1>2, <1>8
  <2>5. Allocated(d, e, p, V3, HeapPages)
    BY <1>8, <2>1, <2>2, <2>3, <2>4, Allocate
  <2> QED
    BY <1>6, <1>8, <2>1, <2>5, Layout DEF Allocated
<1> HIDE DEF e
<1>10. /\ Sound(z) /\ Private(z, p)
       /\ Kernel \notin Range(z.pgtable[p])
       /\ Cardinality(z.page_list[p]) = StackPages + image + HeapPages + 1
       /\ \A q \in Pids \ {p} : /\ z.pgtable[q] = b.pgtable[q]
                                /\ z.page_list[q] = b.page_list[q]
  <2>1. /\ ArgsPage \in Nat /\ 1 \in Nat /\ ArgsPage + 1 <= ArgsPage + 1
        /\ 1 <= Cardinality(e.free)
    BY <1>6, <1>9, Layout
  <2>2. V4 = ArgsPage..(ArgsPage + 1 - 1)
    BY DEF V4
  <2> HIDE DEF z
  <2>3. z = allocate_page(e, p, ArgsPage, 1)
    BY DEF z
  <2>4. V4 \cap DOMAIN e.pgtable[p] = {}
    BY <1>2, <1>9
  <2>5. Allocated(e, z, p, V4, 1)
    BY <1>9, <2>1, <2>2, <2>3, <2>4, Allocate
  <2> QED
    BY <1>6, <1>9, <2>1, <2>5, Layout DEF Allocated
<1> HIDE DEF z
<1> QED
  BY <1>1, <1>3, <1>4, <1>10 DEF PageCount

-----------------------------------------------------------------------------
(* The inductive invariant of the pages.                                   *)

\* What holds of one process, st being its state, ex whether it executed a
\* program, and count, base and pointer the fields of its PCB.
Good(m, p, st, ex, count, base, pointer) ==
  /\ st = "READY" => Private(m, p)
  /\ st # "READY" => m.page_list[p] = {}
  /\ st = "NEW" => m.pgtable[p] = << >>
  /\ DOMAIN m.pgtable[p] \subseteq Virtual
  /\ Range(m.pgtable[p]) \subseteq Frames \cup {Kernel}
  /\ st = "READY" /\ ex => /\ Kernel \notin Range(m.pgtable[p])
                           /\ count = Cardinality(m.page_list[p])
  /\ count \in 0..ArgsPage
  /\ base \in Nat /\ base + HEAP_SIZE <= ArgsPage * PageSize
  /\ pointer \in base..(base + HEAP_SIZE - 1)

GoodNow(p) ==
  Good(memory, p, state[p], execed[p], page_count[p], heap_base[p], heap_pointer[p])

Pages ==
  /\ Disjoint(memory)
  /\ nextPid \in 2..(MaxPid + 1)
  /\ DOMAIN page_count = Pids /\ page_count = [p \in Pids |-> page_count[p]]
  /\ fault \in BOOLEAN
  /\ \A p \in Pids : p >= nextPid => state[p] = "NEW"
  /\ \A p \in Pids : GoodNow(p)

FullInv == Inv /\ Pages

\* A process that a step does not name stays as it is.
LEMMA GoodFrame ==
  ASSUME NEW m, NEW n, NEW q, NEW st, NEW ex, NEW count, NEW base, NEW pointer,
         n.pgtable[q] = m.pgtable[q], n.page_list[q] = m.page_list[q],
         Good(m, q, st, ex, count, base, pointer)
  PROVE  Good(n, q, st, ex, count, base, pointer)
  BY DEF Good, Private

LEMMA PrivateTables ==
  ASSUME NEW m, NEW p, Private(m, p)
  PROVE  /\ DOMAIN m.pgtable[p] \subseteq Virtual
         /\ Range(m.pgtable[p]) \subseteq Frames \cup {Kernel}
  BY DEF Private, Range

\* Bytes and pages.
LEMMA Bytes ==
  ASSUME NEW h \in Nat, h + HeapPages <= ArgsPage
  PROVE  /\ h * PageSize \in Nat
         /\ h * PageSize + HEAP_SIZE <= ArgsPage * PageSize
         /\ h * PageSize \in h * PageSize..(h * PageSize + HEAP_SIZE - 1)
<1>1. ASSUME NEW a \in Nat, NEW b \in Nat, NEW c \in Nat, a <= b
      PROVE  a * c <= b * c /\ a * c \in Nat
  BY <1>1
<1>2. HeapPages \in Nat /\ PageSize \in Nat /\ ArgsPage \in Nat /\ HEAP_SIZE \in Nat
      /\ HEAP_SIZE >= 1
  BY HeapSize, LayoutAssumption
<1>3. (h + HeapPages) * PageSize <= ArgsPage * PageSize
  BY <1>1, <1>2
<1>4. (h + HeapPages) * PageSize = h * PageSize + HeapPages * PageSize
  BY <1>2
<1>5. h * PageSize \in Nat /\ ArgsPage * PageSize \in Nat
  BY <1>1, <1>2
<1> QED
  BY <1>2, <1>3, <1>4, <1>5 DEF HEAP_SIZE

\* Pages of a table that maps its own frames only.
LEMMA PrivateSize ==
  ASSUME NEW m, WellFormed(m), NEW p \in Pids, Private(m, p),
         Kernel \notin Range(m.pgtable[p])
  PROVE  Cardinality(m.page_list[p]) = Cardinality(DOMAIN m.pgtable[p])
<1> DEFINE t == m.pgtable[p]
           D == DOMAIN t
           L == m.page_list[p]
<1>1. Range(t) = L
  BY DEF Private
<1>2. IsFiniteSet(D)
  BY Finite, FS_Subset DEF Private
<1>3. t \in [D -> L]
  BY <1>1 DEF Range, Private
<1>4. t \in Injection(D, L)
  BY <1>3 DEF Injection, Private
<1>5. t \in Surjection(D, L)
  BY <1>1, <1>3 DEF Surjection, Range
<1>6. ExistsBijection(D, L)
  BY <1>4, <1>5 DEF ExistsBijection, Bijection
<1> HIDE DEF t, D, L
<1>7. Cardinality(L) = Cardinality(D)
  BY <1>2, <1>6, FS_Bijection
<1> QED
  BY <1>7 DEF t, D, L

\* Every other process, and the rest of Pages.
LEMMA PagesStep ==
  ASSUME FullInv, NEW c \in Pids, Disjoint(memory'),
         nextPid' \in 2..(MaxPid + 1), nextPid <= nextPid',
         fault' \in BOOLEAN, DOMAIN page_count' = Pids,
         page_count' = [p \in Pids |-> page_count'[p]],
         c >= nextPid' => state'[c] = "NEW",
         GoodNow(c)',
         \A q \in Pids \ {c} :
           /\ memory'.pgtable[q] = memory.pgtable[q]
           /\ memory'.page_list[q] = memory.page_list[q]
           /\ state'[q] = state[q] /\ execed'[q] = execed[q]
           /\ page_count'[q] = page_count[q]
           /\ heap_base'[q] = heap_base[q] /\ heap_pointer'[q] = heap_pointer[q]
  PROVE  Pages'
<1>1. ASSUME NEW q \in Pids, q # c PROVE GoodNow(q)'
  <2>1. GoodNow(q)
    BY DEF FullInv, Pages
  <2> QED
    BY <1>1, <2>1, GoodFrame DEF GoodNow
<1>2. \A q \in Pids : q >= nextPid' => state'[q] = "NEW"
  BY DEF FullInv, Pages, Pids
<1>3. \A q \in Pids : GoodNow(q)'
  BY <1>1
<1> QED
  BY <1>2, <1>3 DEF Pages

LEMMA PagesFork ==
  ASSUME FullInv, NEW p \in Pids, Fork(p)
  PROVE  Pages'
<1> DEFINE V == DOMAIN memory.pgtable[p]
<1>1. CASE Cardinality(V) > Cardinality(memory.free)
  BY <1>1 DEF Fork, OutOfFrames, FullInv, Pages, GoodNow, heap
<1>2. CASE ~(Cardinality(V) > Cardinality(memory.free))
  <2>0. PICK c \in Pids : c = nextPid
    BY <1>2, PidsFinite DEF Fork, FullInv, Pages, Pids
  <2>1. /\ Runs(p) /\ nextPid <= MaxPid /\ nextPid' = nextPid + 1
        /\ state' = [state EXCEPT ![c] = "READY"]
        /\ memory' = MapPages(memory, c, V)
        /\ page_count' = [page_count EXCEPT ![c] = page_count[p]]
        /\ heap_base' = [heap_base EXCEPT ![c] = heap_base[p]]
        /\ heap_pointer' = [heap_pointer EXCEPT ![c] = heap_pointer[p]]
        /\ execed' = [execed EXCEPT ![c] = execed[p]]
        /\ fault' = fault
    BY <1>2, <2>0, Zenon DEF Fork
  <2>2. /\ c \in Pids /\ nextPid \in 2..(MaxPid + 1) /\ MaxPid \in Nat
        /\ nextPid' \in 2..(MaxPid + 1) /\ nextPid <= nextPid' /\ ~(c >= nextPid')
    BY <2>0, <2>1, PidsFinite DEF Pids, FullInv, Pages
  <2>3. state[c] = "NEW" /\ GoodNow(c) /\ GoodNow(p) /\ Disjoint(memory)
    BY <2>0, <2>2 DEF FullInv, Pages
  <2>4. state[p] = "READY" /\ Private(memory, p) /\ V \in SUBSET Virtual
    BY <2>1, <2>3 DEF Runs, GoodNow, Good
  <2>5. /\ WellFormed(memory) /\ Accounted(memory) /\ Sound(memory)
        /\ memory.pgtable[c] = << >> /\ memory.page_list[c] = {}
    BY <2>3 DEF FullInv, Inv, Sound, GoodNow, Good
  <2>6. Private(memory, c) /\ DOMAIN memory.pgtable[c] = {} /\ Range(memory.pgtable[c]) = {}
    BY <2>5, EmptyIsPrivate
  <2>7. Cardinality(V) <= Cardinality(memory.free) /\ Cardinality(V) \in Nat
    <3>1. IsFiniteSet(V) /\ IsFiniteSet(memory.free)
      BY <2>4, <2>5, Finite, FS_Subset DEF WellFormed
    <3>2. Cardinality(V) \in Nat /\ Cardinality(memory.free) \in Nat
      BY <3>1, FS_CardinalityType
    <3> QED
      BY <1>2, <3>2
  <2> HIDE DEF V
  <2>8. /\ Private(memory', c) /\ Disjoint(memory')
        /\ DOMAIN memory'.pgtable[c] = DOMAIN memory.pgtable[c] \cup V
        /\ Kernel \in Range(memory'.pgtable[c]) => Kernel \in Range(memory.pgtable[c])
        /\ \A q \in Pids \ {c} : /\ memory'.pgtable[q] = memory.pgtable[q]
                                 /\ memory'.page_list[q] = memory.page_list[q]
    <3>1. V \cap DOMAIN memory.pgtable[c] = {}
      BY <2>6
    <3> QED
      <4>1. Mapped(memory, memory', c, V)
        BY <2>1, <2>2, <2>3, <2>4, <2>5, <2>6, <2>7, <3>1, MapKeeps
      <4> QED
        BY <4>1 DEF Mapped
  <2>9. /\ Kernel \notin Range(memory'.pgtable[c])
        /\ Cardinality(memory'.page_list[c]) = Cardinality(V)
    <3>1. Kernel \notin Range(memory'.pgtable[c]) /\ DOMAIN memory'.pgtable[c] = V
      BY <2>6, <2>8
    <3>2. WellFormed(memory')
      BY <2>1, <2>2, <2>5, MapFacts
    <3> QED
      BY <2>2, <2>8, <3>1, <3>2, PrivateSize
  <2>10. /\ state'[c] = "READY" /\ execed'[c] = execed[p] /\ page_count'[c] = page_count[p]
         /\ heap_base'[c] = heap_base[p] /\ heap_pointer'[c] = heap_pointer[p]
         /\ \A q \in Pids \ {c} :
              /\ state'[q] = state[q] /\ execed'[q] = execed[q]
              /\ page_count'[q] = page_count[q]
              /\ heap_base'[q] = heap_base[q] /\ heap_pointer'[q] = heap_pointer[q]
    BY <2>1, <2>2 DEF FullInv, Inv, Types, Pages
  <2>11. execed[p] => page_count[p] = Cardinality(V)
    <3>1. execed[p] => /\ Kernel \notin Range(memory.pgtable[p])
                       /\ page_count[p] = Cardinality(memory.page_list[p])
      BY <2>3, <2>4 DEF GoodNow, Good
    <3> QED
      BY <2>4, <2>5, <3>1, PrivateSize DEF V
  <2>12. GoodNow(c)'
    <3>1. /\ page_count[p] \in 0..ArgsPage
          /\ heap_base[p] \in Nat /\ heap_base[p] + HEAP_SIZE <= ArgsPage * PageSize
          /\ heap_pointer[p] \in heap_base[p]..(heap_base[p] + HEAP_SIZE - 1)
      BY <2>3 DEF GoodNow, Good
    <3>2. Good(memory', c, "READY", execed[p], page_count[p], heap_base[p], heap_pointer[p])
      BY <2>8, <2>9, <2>11, <3>1, PrivateTables DEF Good
    <3> QED
      BY <2>10, <3>2 DEF GoodNow
  <2>13. /\ fault' \in BOOLEAN /\ DOMAIN page_count' = Pids
         /\ page_count' = [q \in Pids |-> page_count'[q]]
    BY <2>1 DEF FullInv, Pages
  <2>14. ~(c >= nextPid')
    BY <2>2
  <2> QED
    BY <2>2, <2>8, <2>10, <2>12, <2>13, <2>14, PagesStep
<1> QED
  BY <1>1, <1>2

LEMMA PagesExecve ==
  ASSUME FullInv, NEW p \in Pids, NEW image \in ImagePages, Execve(p, image)
  PROVE  Pages'
<1> DEFINE lacking == Cardinality(memory.free \cup memory.page_list[p]) < PageCount(p, image)
           h == HeapPage(image) * PageSize
<1>1. CASE lacking
  BY <1>1 DEF Execve, OutOfFrames, FullInv, Pages, GoodNow, heap
<1>2. CASE ~lacking
  <2>1. /\ Runs(p)
        /\ memory' = Replace(memory, p, image)
        /\ page_count' = [page_count EXCEPT ![p] = PageCount(p, image)]
        /\ heap_base' = [heap_base EXCEPT ![p] = h]
        /\ heap_pointer' = [heap_pointer EXCEPT ![p] = h]
        /\ execed' = [execed EXCEPT ![p] = TRUE]
        /\ UNCHANGED <<nextPid, state, fault>>
    BY <1>2, Zenon DEF Execve, EmptyHeap
  <2>2. /\ state[p] = "READY" /\ Sound(memory) /\ GoodNow(p)
        /\ nextPid \in 2..(MaxPid + 1) /\ (p >= nextPid => state[p] = "NEW")
    BY <2>1 DEF Runs, FullInv, Inv, Pages, Sound
  <2>3. PageCount(p, image) \in 0..ArgsPage
    BY Layout DEF PageCount, HeapPage
  <2>4. Cardinality(memory.free \cup memory.page_list[p]) >= PageCount(p, image)
    <3>1. IsFiniteSet(memory.free \cup memory.page_list[p])
      BY <2>2, Finite, FS_Subset DEF Sound, WellFormed
    <3>2. Cardinality(memory.free \cup memory.page_list[p]) \in Nat
      BY <3>1, FS_CardinalityType
    <3> QED
      BY <1>2, <2>3, <3>2
  <2> HIDE DEF lacking
  <2>5. /\ Sound(memory') /\ Private(memory', p) /\ Kernel \notin Range(memory'.pgtable[p])
        /\ Cardinality(memory'.page_list[p]) = PageCount(p, image)
        /\ \A q \in Pids \ {p} : /\ memory'.pgtable[q] = memory.pgtable[q]
                                 /\ memory'.page_list[q] = memory.page_list[q]
    BY <2>1, <2>2, <2>4, ReplaceIsSound
  <2>6. /\ h \in Nat /\ h + HEAP_SIZE <= ArgsPage * PageSize
        /\ h \in h..(h + HEAP_SIZE - 1)
    <3>1. HeapPage(image) \in Nat /\ HeapPage(image) + HeapPages <= ArgsPage
      BY Layout
    <3> QED
      BY <3>1, Bytes
  <2> HIDE DEF h
  <2>7. /\ state'[p] = "READY" /\ execed'[p] = TRUE
        /\ page_count'[p] = PageCount(p, image)
        /\ heap_base'[p] = h /\ heap_pointer'[p] = h
        /\ \A q \in Pids \ {p} :
             /\ state'[q] = state[q] /\ execed'[q] = execed[q]
             /\ page_count'[q] = page_count[q]
             /\ heap_base'[q] = heap_base[q] /\ heap_pointer'[q] = heap_pointer[q]
    BY <2>1, <2>2 DEF FullInv, Inv, Types, Pages
  <2>8. GoodNow(p)'
    <3>1. Good(memory', p, "READY", TRUE, PageCount(p, image), h, h)
      BY <2>3, <2>5, <2>6, PrivateTables DEF Good
    <3> QED
      BY <2>7, <3>1 DEF GoodNow
  <2>9. /\ fault' \in BOOLEAN /\ DOMAIN page_count' = Pids
        /\ page_count' = [q \in Pids |-> page_count'[q]]
        /\ nextPid' \in 2..(MaxPid + 1) /\ nextPid <= nextPid'
    BY <2>1 DEF FullInv, Pages
  <2> QED
    BY <2>1, <2>2, <2>5, <2>7, <2>8, <2>9, PagesStep DEF Sound
<1> QED
  BY <1>1, <1>2

LEMMA PagesSbrk ==
  ASSUME FullInv, NEW p \in Pids, NEW increment \in Int, Sbrk(p, increment)
  PROVE  Pages'
<1>1. /\ Runs(p) /\ InHeap(heap_pointer[p] - heap_base[p] + increment)
      /\ heap_pointer' = [heap_pointer EXCEPT ![p] = @ + increment]
      /\ UNCHANGED <<nextPid, state, memory, page_count, heap_base, execed, fault>>
  BY DEF Sbrk
<1>2. GoodNow(p)
  BY DEF FullInv, Pages
<1>3. heap_pointer'[p] = heap_pointer[p] + increment
      /\ \A q \in Pids \ {p} : heap_pointer'[q] = heap_pointer[q]
  BY <1>1 DEF FullInv, Inv, Types
<1>4. heap_pointer'[p] \in heap_base[p]..(heap_base[p] + HEAP_SIZE - 1)
  BY <1>1, <1>2, <1>3, HeapSize DEF InHeap, GoodNow, Good
<1>5. GoodNow(p)'
  BY <1>1, <1>2, <1>4 DEF GoodNow, Good
<1>6. \A q \in Pids : GoodNow(q)'
  BY <1>1, <1>3, <1>5 DEF FullInv, Pages, GoodNow
<1> QED
  BY <1>1, <1>6 DEF FullInv, Pages

LEMMA PagesExit ==
  ASSUME FullInv, NEW p \in Pids, Exit(p)
  PROVE  Pages'
<1>1. /\ state' = [state EXCEPT ![p] = "ZOMBIE"] /\ state[p] = "READY"
      /\ memory' = release_proc_pages(memory, p)
      /\ UNCHANGED <<nextPid, page_count, heap_base, heap_pointer, execed, fault>>
  BY DEF Exit, heap, Runs
<1>2. Sound(memory) /\ GoodNow(p)
  BY DEF FullInv, Inv, Pages, Sound
<1>3. /\ Sound(memory') /\ memory'.pgtable = memory.pgtable /\ memory'.page_list[p] = {}
      /\ \A q \in Pids \ {p} : memory'.page_list[q] = memory.page_list[q]
  BY <1>1, <1>2, ReleaseAll
<1>4. state'[p] = "ZOMBIE" /\ \A q \in Pids \ {p} : state'[q] = state[q]
  BY <1>1 DEF FullInv, Inv, Types
<1>5. GoodNow(p)'
  BY <1>1, <1>2, <1>3, <1>4 DEF GoodNow, Good
<1>6. p < nextPid
  BY <1>1 DEF FullInv, Pages, Pids
<1> QED
  BY <1>1, <1>3, <1>4, <1>5, <1>6, PagesStep DEF FullInv, Pages, Sound

LEMMA PagesReap ==
  ASSUME FullInv, NEW p \in Pids, Reap(p)
  PROVE  Pages'
<1>1. /\ state' = [state EXCEPT ![p] = "reaped"] /\ state[p] = "ZOMBIE"
      /\ memory' = reset_root_pgtable(memory, p)
      /\ UNCHANGED <<nextPid, page_count, heap_base, heap_pointer, execed, fault>>
  BY DEF Reap, heap
<1>2. Sound(memory) /\ GoodNow(p)
  BY DEF FullInv, Inv, Pages, Sound
<1>3. /\ Sound(memory') /\ memory'.pgtable[p] = << >>
      /\ memory'.page_list = memory.page_list
      /\ \A q \in Pids \ {p} : memory'.pgtable[q] = memory.pgtable[q]
  BY <1>1, <1>2, ResetTable
<1>4. state'[p] = "reaped" /\ \A q \in Pids \ {p} : state'[q] = state[q]
  BY <1>1 DEF FullInv, Inv, Types
<1>5. memory'.page_list[p] = {}
  BY <1>1, <1>2, <1>3 DEF GoodNow, Good
<1>6. DOMAIN memory'.pgtable[p] = {} /\ Range(memory'.pgtable[p]) = {}
  BY <1>3, <1>5, EmptyIsPrivate
<1>7. GoodNow(p)'
  BY <1>1, <1>2, <1>3, <1>4, <1>5, <1>6 DEF GoodNow, Good
<1>8. p < nextPid
  BY <1>1 DEF FullInv, Pages, Pids
<1> QED
  BY <1>1, <1>3, <1>4, <1>7, <1>8, PagesStep DEF FullInv, Pages, Sound

LEMMA PagesNext == FullInv /\ [Next]_vars => Pages'
<1> SUFFICES ASSUME FullInv, [Next]_vars PROVE Pages'
  OBVIOUS
<1>1. CASE UNCHANGED vars
  BY <1>1 DEF vars, heap, FullInv, Pages, GoodNow
<1>2. ASSUME NEW p \in Pids, Fork(p) PROVE Pages'
  BY <1>2, PagesFork
<1>3. ASSUME NEW p \in Pids, NEW image \in ImagePages, Execve(p, image) PROVE Pages'
  BY <1>3, PagesExecve
<1>4. ASSUME NEW p \in Pids, NEW increment \in -HEAP_SIZE..HEAP_SIZE, Sbrk(p, increment)
      PROVE  Pages'
  BY <1>4, HeapSize, PagesSbrk
<1>5. ASSUME NEW p \in Pids, Exit(p) PROVE Pages'
  BY <1>5, PagesExit
<1>6. ASSUME NEW p \in Pids, Reap(p) PROVE Pages'
  BY <1>6, PagesReap
<1> QED
  BY <1>1, <1>2, <1>3, <1>4, <1>5, <1>6 DEF Next

\* create_root_process(): page 1 is the code, in the kernel.
LEMMA PagesInit == Init => FullInv
<1> SUFFICES ASSUME Init PROVE FullInv
  OBVIOUS
<1> DEFINE nothing == [free |-> Frames,
                       refcount |-> [f \in Frames |-> 0],
                       page_list |-> [p \in Pids |-> {}],
                       pgtable |-> [p \in Pids |-> << >>]]
           first == ArgsPage - StackPages
           V == first..(first + StackPages - 1)
           stacked == allocate_page(nothing, Root, first, StackPages)
           old == stacked.pgtable[Root]
           table == [v \in DOMAIN old \cup {1} |-> IF v = 1 THEN Kernel ELSE old[v]]
<1>1. Root \in Pids /\ MaxPid \in Nat /\ MaxPid >= 1
  BY SizeAssumption DEF Root, Pids
<1>2. /\ StackPages \in Nat /\ ArgsPage \in Nat /\ first \in Nat /\ first >= 2
      /\ first + StackPages <= ArgsPage /\ HeapPages \in Nat /\ HeapPages <= ArgsPage
      /\ StackPages <= ArgsPage
  <2>1. PICK image \in ImagePages : TRUE
    BY SizeAssumption
  <2> QED
    BY <2>1, Layout
<1>3. Sound(nothing)
  <2>1. WellFormed(nothing) /\ Disjoint(nothing)
    BY DEF WellFormed, Disjoint
  <2>2. ASSUME NEW f \in Frames PROVE Cardinality(Users(nothing, f)) = 0
    <3>1. Users(nothing, f) = {}
      BY DEF Users
    <3> HIDE DEF nothing
    <3> QED
      BY <3>1, FS_EmptySet
  <2>3. Accounted(nothing)
    BY <2>2 DEF Accounted
  <2> QED
    BY <2>1, <2>3 DEF Sound
<1>4. /\ nothing.pgtable = [p \in Pids |-> << >>]
      /\ nothing.page_list = [p \in Pids |-> {}]
      /\ nothing.free = Frames
  OBVIOUS
<1>5. memory = [stacked EXCEPT !.pgtable[Root] = table]
  BY Zenon DEF Init, Stack
<1> HIDE DEF nothing
<1>6. Private(nothing, Root) /\ DOMAIN nothing.pgtable[Root] = {}
      /\ Range(nothing.pgtable[Root]) = {}
  BY <1>1, <1>4, EmptyIsPrivate
<1>7. StackPages <= Cardinality(nothing.free)
  <2>1. Cardinality(Frames) = NbFrames
    BY FS_Interval, FrameAssumption DEF Frames
  <2> QED
    BY <1>4, <2>1, FrameAssumption
<1> HIDE DEF first
<1>8. Allocated(nothing, stacked, Root, V, StackPages)
  BY <1>1, <1>2, <1>3, <1>6, <1>7, Allocate
<1>9. 1 \notin V /\ V \in SUBSET Virtual
  BY <1>2 DEF Virtual
<1> HIDE DEF V, stacked
<1>10. /\ Sound(stacked) /\ Private(stacked, Root) /\ DOMAIN old = V
       /\ Kernel \notin Range(old)
       /\ \A q \in Pids \ {Root} : stacked.pgtable[q] = << >> /\ stacked.page_list[q] = {}
  BY <1>4, <1>6, <1>8 DEF Allocated
<1> HIDE DEF table
<1>11. /\ memory.free = stacked.free /\ memory.refcount = stacked.refcount
       /\ memory.page_list = stacked.page_list
       /\ memory.pgtable = [stacked.pgtable EXCEPT ![Root] = table]
  BY <1>5, <1>10 DEF Sound, WellFormed
<1>12. /\ memory.pgtable[Root] = table
       /\ \A q \in Pids \ {Root} : memory.pgtable[q] = << >> /\ memory.page_list[q] = {}
  BY <1>1, <1>10, <1>11 DEF Sound, WellFormed
<1>13. Private(memory, Root)
  <2>1. /\ old \in [V -> Frames \cup {Kernel}] /\ IsInjective(old)
        /\ Range(old) \ {Kernel} = stacked.page_list[Root]
    BY <1>10 DEF Private
  <2>2. DOMAIN table = V \cup {1}
    BY <1>10 DEF table
  <2>3. table[1] = Kernel /\ \A v \in V : table[v] = old[v]
    BY <1>9, <1>10 DEF table
  <2>4. \A v \in V : old[v] # Kernel
    BY <1>10 DEF Range
  <2> HIDE DEF old
  <2>5. table \in [V \cup {1} -> Frames \cup {Kernel}]
    BY <1>10, <2>1, <2>3 DEF table, old
  <2>6. IsInjective(table)
    BY <2>1, <2>2, <2>3, <2>4, <2>5 DEF IsInjective
  <2>7. Range(table) = Range(old) \cup {Kernel}
    BY <2>1, <2>2, <2>3 DEF Range
  <2>8. 1 \in Virtual
    BY <1>2 DEF Virtual
  <2> QED
    BY <1>9, <1>11, <1>12, <2>1, <2>2, <2>5, <2>6, <2>7, <2>8 DEF Private
<1>14. /\ 0 \in Nat /\ 0 + HEAP_SIZE <= ArgsPage * PageSize /\ 0 \in 0..(0 + HEAP_SIZE - 1)
  <2>1. 0 * PageSize = 0
    BY HeapSize
  <2>2. 0 + HeapPages <= ArgsPage
    BY <1>2
  <2> QED
    BY <2>1, <2>2, Bytes
<1>15. /\ state = [p \in Pids |-> IF p = Root THEN "READY" ELSE "NEW"]
       /\ page_count = [p \in Pids |-> IF p = Root THEN StackPages ELSE 0]
       /\ heap_base = [p \in Pids |-> 0] /\ heap_pointer = [p \in Pids |-> 0]
       /\ execed = [p \in Pids |-> FALSE] /\ nextPid = 2 /\ fault = FALSE
  BY DEF Init
<1>16. GoodNow(Root)
  <2>1. Good(memory, Root, "READY", FALSE, StackPages, 0, 0)
    BY <1>2, <1>13, <1>14, PrivateTables DEF Good
  <2> QED
    BY <1>1, <1>15, <2>1 DEF GoodNow
<1>17. ASSUME NEW q \in Pids, q # Root PROVE GoodNow(q)
  <2>1. memory.pgtable[q] = << >> /\ memory.page_list[q] = {}
    BY <1>12, <1>17
  <2>2. DOMAIN memory.pgtable[q] = {} /\ Range(memory.pgtable[q]) = {}
    BY <2>1, EmptyIsPrivate
  <2>3. Good(memory, q, "NEW", FALSE, 0, 0, 0)
    BY <1>2, <1>14, <2>1, <2>2 DEF Good
  <2> QED
    BY <1>15, <1>17, <2>3 DEF GoodNow
<1>18. Disjoint(memory)
  BY <1>10, <1>11 DEF Sound, Disjoint
<1>19. \A p \in Pids : p >= nextPid => state[p] = "NEW"
  BY <1>15 DEF Root
<1>20. /\ nextPid \in 2..(MaxPid + 1) /\ fault \in BOOLEAN
       /\ DOMAIN page_count = Pids /\ page_count = [p \in Pids |-> page_count[p]]
  <2>1. nextPid \in 2..(MaxPid + 1)
    BY <1>1, <1>15
  <2>3. fault \in BOOLEAN
    BY <1>15, Zenon
  <2>2. DOMAIN page_count = Pids /\ page_count = [p \in Pids |-> page_count[p]]
    BY <1>15
  <2> QED
    BY <2>1, <2>2, <2>3
<1>21. Pages
  BY <1>16, <1>17, <1>18, <1>19, <1>20 DEF Pages
<1> QED
  BY <1>21, InvInit DEF FullInv

\* Reference counts never exceed the number of processes, break and heap stay
\* below the page of arguments, and what is mapped is a page of user space.
LEMMA FullTypes == FullInv => TypeOK
<1> SUFFICES ASSUME FullInv PROVE TypeOK
  OBVIOUS
<1>1. /\ nextPid \in 2..(MaxPid + 1)
      /\ state \in [Pids -> {"NEW", "READY", "ZOMBIE", "reaped"}]
      /\ execed \in [Pids -> BOOLEAN] /\ fault \in BOOLEAN
  BY DEF FullInv, Pages, Inv, Types
<1>2. /\ memory.free \subseteq Frames /\ memory.page_list \in [Pids -> SUBSET Frames]
  BY DEF FullInv, Inv, WellFormed
<1>3. memory.refcount \in [Frames -> 0..MaxPid]
  <2>1. ASSUME NEW f \in Frames PROVE memory.refcount[f] \in 0..MaxPid
    <3>1. Users(memory, f) \in SUBSET Pids
      BY DEF Users
    <3>2. Cardinality(Users(memory, f)) <= Cardinality(Pids) /\ Cardinality(Pids) = MaxPid
      BY <3>1, PidsFinite, FS_Subset, FS_Interval DEF Pids
    <3>3. memory.refcount[f] = Cardinality(Users(memory, f)) /\ memory.refcount[f] \in Nat
      BY DEF FullInv, Inv, Accounted, WellFormed
    <3> QED
      BY <3>2, <3>3, PidsFinite
  <2> QED
    BY <2>1 DEF FullInv, Inv, WellFormed
<1>4. ASSUME NEW p \in Pids
      PROVE  /\ DOMAIN memory.pgtable[p] \subseteq Virtual
             /\ Range(memory.pgtable[p]) \subseteq Frames \cup {Kernel}
             /\ page_count[p] \in 0..ArgsPage
             /\ heap_base[p] \in 0..ArgsPage * PageSize
             /\ heap_pointer[p] \in 0..ArgsPage * PageSize
  <2>1. GoodNow(p)
    BY DEF FullInv, Pages
  <2>2. ArgsPage * PageSize \in Int
    BY LayoutAssumption, HeapSize
  <2> QED
    BY <2>1, <2>2, HeapSize DEF GoodNow, Good
<1>5. page_count \in [Pids -> 0..ArgsPage]
  <2>1. page_count = [p \in Pids |-> page_count[p]]
    BY DEF FullInv, Pages
  <2> QED
    BY <1>4, <2>1
<1>6. heap_base \in [Pids -> 0..ArgsPage * PageSize]
      /\ heap_pointer \in [Pids -> 0..ArgsPage * PageSize]
  BY <1>4 DEF FullInv, Inv, Types
<1> QED
  BY <1>1, <1>2, <1>3, <1>4, <1>5, <1>6 DEF TypeOK

-----------------------------------------------------------------------------
(* The theorems.                                                           *)

\* What is known of the memory in every reachable state.
THEOREM Invariance == Spec => []Inv
  BY InvInit, InvNext, PTL DEF Spec

\* The reference counts kept by add_page_to_proc() and release_proc_pages()
\* are right after any fork(), execve(), sbrk(), exit() and waitpid(): no
\* frame is lost and none is freed under a process.
THEOREM FramesAreAccounted == Spec => []FramesAccounted
<1>1. Inv => FramesAccounted
  BY DEF Inv, Accounted, Users, FramesAccounted
<1> QED
  BY <1>1, Invariance, PTL

\* The break of a program stays in the heap execve() gave it, and every
\* address up to it is mapped, whatever forks and images came before.
THEOREM HeapIsMapped == Spec => []HeapMapped
  BY InvMapped, Invariance, PTL

\* The pages, the reference counts and the heaps, in every reachable state.
THEOREM FullInvariance == Spec => []FullInv
<1>1. FullInv /\ [Next]_vars => FullInv'
  BY InvNext, PagesNext DEF FullInv
<1> QED
  BY PagesInit, <1>1, PTL DEF Spec

\* Every variable has its type, for any number of processes and frames.
THEOREM TypeCorrect == Spec => []TypeOK
  BY FullInvariance, FullTypes, PTL

\* Stack, image, heap and arguments of a process do not overlap and no frame
\* is in two processes, whatever fork(), execve(), exit() and waitpid() did.
THEOREM FramesArePrivate == Spec => []FramesPrivate
<1>1. FullInv => FramesPrivate
  BY DEF FullInv, Pages, GoodNow, Good, Private, Disjoint, FramesPrivate
<1> QED
  BY <1>1, FullInvariance, PTL

\* After execve() the count of pages in the PCB is right, whatever was
\* executed before and whoever was forked.
THEOREM PagesAreCounted == Spec => []PagesCounted
<1>1. FullInv => PagesCounted
  BY DEF FullInv, Pages, GoodNow, Good, PagesCounted
<1> QED
  BY <1>1, FullInvariance, PTL

=============================================================================
