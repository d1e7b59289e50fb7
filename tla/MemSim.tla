------------------------------- MODULE MemSim -------------------------------
(***************************************************************************)
(* The virtual memory simulators lab11/memsim.c and lab12/memsim.c: one    *)
(* byte is read or written at a time through a one-level page table whose  *)
(* 16-bit entries hold a frame number in their upper bits and, with        *)
(* MEMORY_PTE_ATTRIBUTES_ACTIVE, access rights in their lower ones.        *)
(*                                                                         *)
(* The program of lab11 is that of lab12 without the attributes.           *)
(***************************************************************************)
EXTENDS Integers

CONSTANTS PageNum,         \* MEMORY_PAGE_NUM
          PageSize,        \* MEMORY_PAGE_SIZE, 2^PAGE_NUM_SHIFT
          ReadOnlyPages,   \* 10..12 in init_page_table()
          InvalidPages,    \* 5..8 in init_page_table()
          MaxByte,         \* 255
          MaxStores        \* bound: successful calls of store_byte()

ASSUME PageAssumption ==
  /\ PageNum \in Nat \ {0}
  /\ PageSize \in Nat \ {0} /\ PageSize % 8 = 0
  /\ ReadOnlyPages \subseteq 0..(PageNum - 1)
  /\ InvalidPages \subseteq 0..(PageNum - 1)
  /\ MaxByte \in Nat /\ MaxStores \in Nat

Pages     == 0..(PageNum - 1)
Offsets   == 0..(PageSize - 1)
Addresses == 0..(PageNum * PageSize - 1)
Bytes     == 0..MaxByte

\* The patterns of the RWX bits, RWX_PATTERN being 0.
R_PATTERN == 1
W_PATTERN == 2
X_PATTERN == 3

VARIABLES
  attributes,   \* MEMORY_PTE_ATTRIBUTES_ACTIVE
  page_table,
  main_mem,     \* by frame and offset
  ok,           \* the last call returned 0, not -1
  byte,         \* *byte of the caller of get_byte()
  stores        \* bytes stored so far

vars == <<attributes, page_table, main_mem, ok, byte, stores>>

TypeOK ==
  /\ attributes \in BOOLEAN
  /\ page_table \in [Pages -> Addresses]
  /\ main_mem \in [Pages -> [Offsets -> Bytes]]
  /\ ok \in BOOLEAN
  /\ byte \in Bytes
  /\ stores \in 0..MaxStores

-----------------------------------------------------------------------------
\* Faulty variant: the RWX bits are written one position too low.
RightsUnshifted(i) ==
  IF i \in InvalidPages THEN 0
  ELSE IF i \in ReadOnlyPages THEN 1 + R_PATTERN ELSE 1

\* The attributes of page i: (rwx << RWX_POS) | (valid << VALID_POS).
Rights(i) ==
  (IF i \in ReadOnlyPages THEN 2 * R_PATTERN ELSE 0)
    + (IF i \in InvalidPages THEN 0 ELSE 1)

\* Faulty variant: the attributes are added above the offset.
EntryOverlaps(i, attr) ==
  ((PageNum - 1 - i) * PageSize + IF attr THEN Rights(i) * PageSize ELSE 0)
    % (PageNum * PageSize)

\* Faulty variant: the frames are counted from PageNum down.
EntryFromPageNum(i, attr) ==
  (PageNum - i) * PageSize + IF attr THEN Rights(i) ELSE 0

\* What init_page_table() writes in the entry of page i.
Entry(i, attr) ==
  (PageNum - 1 - i) * PageSize + IF attr THEN Rights(i) ELSE 0

Valid(pte) == pte % 2 = 1
Rwx(pte)   == (pte \div 2) % 4

virt_to_pte(v) == page_table[v \div PageSize]
Frame(v)       == virt_to_pte(v) \div PageSize
Offset(v)      == v % PageSize

Init ==
  /\ attributes \in BOOLEAN
  /\ page_table = [i \in Pages |-> Entry(i, attributes)]
  /\ main_mem = [f \in Pages |-> [o \in Offsets |-> 0]]
  /\ ok = TRUE
  /\ byte = 0
  /\ stores = 0

\* The checks of get_byte().  An executable page can be read.
MayRead(v) ==
  attributes => /\ Valid(virt_to_pte(v))
                /\ Rwx(virt_to_pte(v)) # W_PATTERN

get_byte(v) ==
  /\ ok' = MayRead(v)
  /\ byte' = IF MayRead(v) THEN main_mem[Frame(v)][Offset(v)] ELSE byte
  /\ UNCHANGED <<attributes, page_table, main_mem, stores>>

\* The checks of store_byte().
MayWrite(v) ==
  attributes => /\ Valid(virt_to_pte(v))
                /\ Rwx(virt_to_pte(v)) \notin {R_PATTERN, X_PATTERN}

store_byte(v, b) ==
  /\ stores < MaxStores
  /\ ok' = MayWrite(v)
  /\ IF MayWrite(v)
       THEN /\ main_mem' = [main_mem EXCEPT ![Frame(v)][Offset(v)] = b]
            /\ stores' = stores + 1
       ELSE UNCHANGED <<main_mem, stores>>
  /\ UNCHANGED <<attributes, page_table, byte>>

Next ==
  \E v \in Addresses : get_byte(v) \/ \E b \in Bytes : store_byte(v, b)

Spec == Init /\ [][Next]_vars

-----------------------------------------------------------------------------
(* Properties.                                                             *)

\* Two addresses never share a byte of the memory, and every byte of it has
\* an address, whatever attributes share the entries with the frame numbers.
FramesPermuted ==
  \A i, j \in Pages :
    i # j => page_table[i] \div PageSize # page_table[j] \div PageSize

\* Addresses outside the given pages, when pages have attributes at all.
Allowed(pages) ==
  {v \in Addresses : attributes => v \div PageSize \notin pages}

Memory == INSTANCE VirtualMemory WITH
  mem      <- [v \in Addresses |-> main_mem[Frame(v)][Offset(v)]],
  readable <- Allowed(InvalidPages),
  writable <- Allowed(InvalidPages \cup ReadOnlyPages)

\* The simulator is a memory: each call does what VirtualMemory says of the
\* call with the same arguments.  Every address reads what was last written
\* to it, through the table, and the rights of the pages are those the
\* comments of init_page_table() and test_mem_2() (lab12/memsim.c:240-284)
\* give them.
IsAMemory ==
  /\ Memory!Init
  /\ [][\A v \in Addresses :
          /\ get_byte(v) => Memory!Load(v)
          /\ \A b \in Bytes : store_byte(v, b) => Memory!Store(v, b)]_vars

=============================================================================
