---------------------------- MODULE MemSimProofs ----------------------------
(***************************************************************************)
(* Theorems about MemSim, for any number and size of pages and any rights: *)
(* the table is a permutation of the frames, and the simulator implements  *)
(* VirtualMemory.                                                          *)
(***************************************************************************)
EXTENDS MemSim, TLAPS

-----------------------------------------------------------------------------
(* Arithmetic.                                                             *)

LEMMA Sizes ==
  /\ PageNum \in Int /\ PageNum >= 1
  /\ PageSize \in Int /\ PageSize >= 8
  /\ \E k \in Int : PageSize = 8 * k
<1>1. /\ PageNum \in Int /\ PageNum >= 1
      /\ PageSize \in Int /\ PageSize >= 1 /\ PageSize % 8 = 0
  BY PageAssumption
<1>2. PageSize = 8 * (PageSize \div 8) /\ PageSize \div 8 \in Int
  BY <1>1
<1> QED
  BY <1>1, <1>2

\* Quotient and remainder are unique.
LEMMA DivisionFacts ==
  ASSUME NEW d \in Int, d >= 1, NEW q \in Int, NEW r \in 0..(d - 1)
  PROVE  (q * d + r) \div d = q /\ (q * d + r) % d = r
<1> DEFINE a == q * d + r
           x == a \div d
           y == a % d
<1>1. a \in Int /\ x \in Int /\ y \in 0..(d - 1) /\ a = x * d + y
  <2>1. q * d \in Int
    OBVIOUS
  <2> QED
    BY <2>1
<1>2. a = q * d + r
  OBVIOUS
<1> HIDE DEF a, x, y
<1>3. ASSUME x < q PROVE FALSE
  <2>1. (x + 1) * d <= q * d
    BY <1>1, <1>3
  <2>2. (x + 1) * d = x * d + d
    BY <1>1
  <2> QED
    BY <1>1, <1>2, <2>1, <2>2
<1>4. ASSUME x > q PROVE FALSE
  <2>1. (q + 1) * d <= x * d
    BY <1>1, <1>4
  <2>2. (q + 1) * d = q * d + d
    OBVIOUS
  <2> QED
    BY <1>1, <1>2, <2>1, <2>2
<1>5. x = q
  BY <1>1, <1>3, <1>4
<1>6. y = r
  BY <1>1, <1>2, <1>5
<1> QED
  BY <1>5, <1>6 DEF a, x, y

\* An address is a page and an offset.
LEMMA AddressFacts ==
  ASSUME NEW v \in Addresses
  PROVE  /\ v \div PageSize \in Pages /\ v % PageSize \in Offsets
         /\ v = (v \div PageSize) * PageSize + (v % PageSize)
<1> DEFINE x == v \div PageSize
           y == v % PageSize
<1>1. v \in Int /\ 0 <= v /\ v < PageNum * PageSize
  <2>1. PageNum * PageSize \in Int
    BY Sizes
  <2> QED
    BY <2>1 DEF Addresses
<1>2. x \in Int /\ y \in 0..(PageSize - 1) /\ v = x * PageSize + y
  <2>1. PageSize \in Int /\ PageSize >= 1
    BY Sizes
  <2> QED
    BY <1>1, <2>1
<1> HIDE DEF x, y
<1>3. ASSUME x < 0 PROVE FALSE
  <2>1. (x + 1) * PageSize <= 0 * PageSize
    BY <1>2, <1>3, Sizes
  <2>2. (x + 1) * PageSize = x * PageSize + PageSize
    BY <1>2, Sizes
  <2> QED
    BY <1>1, <1>2, <2>1, <2>2, Sizes
<1>4. ASSUME x >= PageNum PROVE FALSE
  <2>1. PageNum * PageSize <= x * PageSize
    BY <1>2, <1>4, Sizes
  <2> QED
    BY <1>1, <1>2, <2>1, Sizes
<1>5. x \in Pages /\ y \in Offsets
  BY <1>2, <1>3, <1>4, Sizes DEF Pages, Offsets
<1> QED
  BY <1>2, <1>5 DEF x, y

\* What is read in an entry is what was written: the frame number is not
\* disturbed by the attributes, and conversely.
LEMMA EntryFacts ==
  ASSUME NEW i \in Pages, NEW attr \in BOOLEAN
  PROVE  /\ Entry(i, attr) \in Addresses
         /\ Entry(i, attr) \div PageSize = PageNum - 1 - i
         /\ attr => /\ Valid(Entry(i, attr)) <=> i \notin InvalidPages
                    /\ Rwx(Entry(i, attr)) = IF i \in ReadOnlyPages THEN 1 ELSE 0
<1> DEFINE f == PageNum - 1 - i
           r == IF attr THEN Rights(i) ELSE 0
           e == Entry(i, attr)
<1>1. f \in 0..(PageNum - 1) /\ PageNum \in Int
  BY Sizes DEF Pages
<1>2. r \in 0..3
  BY DEF Rights, R_PATTERN
<1>3. e = f * PageSize + r
  BY DEF Entry
<1>4. attr => r = (IF i \in ReadOnlyPages THEN 2 ELSE 0) + (IF i \in InvalidPages THEN 0 ELSE 1)
  BY DEF Rights, R_PATTERN
<1> HIDE DEF f, r, e
<1>5. e \div PageSize = f
  BY <1>1, <1>2, <1>3, DivisionFacts, Sizes
<1>6. e \in Addresses
  <2>1. (f + 1) * PageSize <= PageNum * PageSize /\ 0 * PageSize <= f * PageSize
    BY <1>1, Sizes
  <2>2. (f + 1) * PageSize = f * PageSize + PageSize /\ f * PageSize \in Int
    BY <1>1, Sizes
  <2>3. PageNum * PageSize \in Int
    BY Sizes
  <2> QED
    BY <1>2, <1>3, <2>1, <2>2, <2>3, Sizes DEF Addresses
<1>7. PICK z \in Int : e = 8 * z + r
  <2>1. PICK k \in Int : PageSize = 8 * k
    BY Sizes
  <2>2. f * PageSize = 8 * (f * k) /\ f * k \in Int
    BY <1>1, <2>1
  <2> QED
    BY <1>3, <2>2
<1>8. e % 2 = r % 2 /\ (e \div 2) % 4 = r \div 2
  BY <1>2, <1>7
<1>9. attr => /\ Valid(e) <=> i \notin InvalidPages
              /\ Rwx(e) = IF i \in ReadOnlyPages THEN 1 ELSE 0
  BY <1>2, <1>4, <1>8 DEF Valid, Rwx
<1> QED
  BY <1>5, <1>6, <1>9 DEF e, f

-----------------------------------------------------------------------------
(* The inductive invariant.                                                *)

\* Nothing writes to the table after init_page_table().
Initialised == page_table = [i \in Pages |-> Entry(i, attributes)]

Inv == TypeOK /\ Initialised

\* Where an address is in the memory, and what it may be used for.
LEMMA Translation ==
  ASSUME Inv, NEW v \in Addresses
  PROVE  /\ Frame(v) = PageNum - 1 - v \div PageSize
         /\ Frame(v) \in Pages /\ Offset(v) \in Offsets
         /\ MayRead(v) <=> v \in Allowed(InvalidPages)
         /\ MayWrite(v) <=> v \in Allowed(InvalidPages \cup ReadOnlyPages)
<1> DEFINE i == v \div PageSize
<1>1. i \in Pages /\ Offset(v) \in Offsets
  BY AddressFacts DEF Offset
<1>2. attributes \in BOOLEAN
  BY DEF Inv, TypeOK
<1>3. virt_to_pte(v) = Entry(i, attributes)
  BY <1>1 DEF Inv, Initialised, virt_to_pte
<1> HIDE DEF i
<1>4. Frame(v) = PageNum - 1 - i /\ Frame(v) \in Pages
  <2>1. Frame(v) = PageNum - 1 - i
    BY <1>1, <1>2, <1>3, EntryFacts DEF Frame
  <2> QED
    BY <1>1, <2>1, Sizes DEF Pages
<1>5. attributes => /\ Valid(virt_to_pte(v)) <=> i \notin InvalidPages
                    /\ Rwx(virt_to_pte(v)) = IF i \in ReadOnlyPages THEN 1 ELSE 0
  BY <1>1, <1>2, <1>3, EntryFacts
<1>6. \A S : v \in Allowed(S) <=> (attributes => i \notin S)
  BY DEF Allowed, i
<1>7. /\ MayRead(v) <=> (attributes => i \notin InvalidPages)
      /\ MayWrite(v) <=> (attributes => i \notin InvalidPages \cup ReadOnlyPages)
  BY <1>5 DEF MayRead, MayWrite, R_PATTERN, W_PATTERN, X_PATTERN
<1> QED
  BY <1>1, <1>4, <1>6, <1>7 DEF i

\* Two addresses are never the same byte.
LEMMA Injective ==
  ASSUME Inv, NEW u \in Addresses, NEW v \in Addresses,
         Frame(u) = Frame(v), Offset(u) = Offset(v)
  PROVE  u = v
<1>1. /\ u \div PageSize \in Int /\ v \div PageSize \in Int
      /\ u = (u \div PageSize) * PageSize + (u % PageSize)
      /\ v = (v \div PageSize) * PageSize + (v % PageSize)
  BY AddressFacts, Sizes DEF Pages
<1>2. u \div PageSize = v \div PageSize
  BY <1>1, Translation, Sizes
<1> QED
  BY <1>1, <1>2 DEF Offset

LEMMA InvInit == Init => Inv
<1> SUFFICES ASSUME Init PROVE Inv
  OBVIOUS
<1>1. attributes \in BOOLEAN /\ page_table = [i \in Pages |-> Entry(i, attributes)]
  BY DEF Init
<1>2. page_table \in [Pages -> Addresses]
  BY <1>1, EntryFacts
<1>3. 0 \in Bytes /\ 0 \in 0..MaxStores
  BY PageAssumption DEF Bytes
<1> QED
  BY <1>1, <1>2, <1>3 DEF Init, Inv, TypeOK, Initialised

LEMMA InvNext == Inv /\ [Next]_vars => Inv'
<1> SUFFICES ASSUME Inv, [Next]_vars PROVE Inv'
  OBVIOUS
<1>1. CASE UNCHANGED vars
  BY <1>1 DEF vars, Inv, TypeOK, Initialised
<1>2. ASSUME NEW v \in Addresses, get_byte(v) PROVE Inv'
  <2>1. Frame(v) \in Pages /\ Offset(v) \in Offsets
    BY Translation
  <2>2. byte' \in Bytes /\ ok' \in BOOLEAN
    BY <1>2, <2>1 DEF get_byte, Inv, TypeOK, MayRead
  <2> QED
    BY <1>2, <2>2 DEF get_byte, Inv, TypeOK, Initialised
<1>3. ASSUME NEW v \in Addresses, NEW b \in Bytes, store_byte(v, b) PROVE Inv'
  <2>1. Frame(v) \in Pages /\ Offset(v) \in Offsets
    BY Translation
  <2>2. main_mem' \in [Pages -> [Offsets -> Bytes]]
    BY <1>3, <2>1 DEF store_byte, Inv, TypeOK
  <2>3. stores' \in 0..MaxStores /\ ok' \in BOOLEAN
    BY <1>3, PageAssumption DEF store_byte, Inv, TypeOK, MayWrite
  <2> QED
    BY <1>3, <2>2, <2>3 DEF store_byte, Inv, TypeOK, Initialised
<1> QED
  BY <1>1, <1>2, <1>3 DEF Next

-----------------------------------------------------------------------------
(* The theorems.                                                           *)

\* The table is what init_page_table() made it.
THEOREM Invariance == Spec => []Inv
  BY InvInit, InvNext, PTL DEF Spec

\* Every byte, entry and counter keeps its type.
THEOREM TypeCorrect == Spec => []TypeOK
<1>1. Inv => TypeOK
  BY DEF Inv
<1> QED
  BY <1>1, Invariance, PTL

\* init_page_table() gives every page a frame of its own.
THEOREM FramesArePermuted == Spec => []FramesPermuted
<1>1. Inv => FramesPermuted
  <2> SUFFICES ASSUME Inv, NEW i \in Pages, NEW j \in Pages, i # j
               PROVE  page_table[i] \div PageSize # page_table[j] \div PageSize
    BY DEF FramesPermuted
  <2>1. attributes \in BOOLEAN
    BY DEF Inv, TypeOK
  <2>2. /\ page_table[i] \div PageSize = PageNum - 1 - i
        /\ page_table[j] \div PageSize = PageNum - 1 - j
    BY <2>1, EntryFacts DEF Inv, Initialised
  <2> QED
    BY <2>2, Sizes DEF Pages
<1> QED
  BY <1>1, Invariance, PTL

\* get_byte() and store_byte() are the calls of a memory with access rights,
\* whatever the number and the size of the pages and the rights they have.
THEOREM SimulatorIsAMemory == Spec => IsAMemory
<1> DEFINE mem == [v \in Addresses |-> main_mem[Frame(v)][Offset(v)]]
           Calls == \A v \in Addresses :
                      /\ get_byte(v) => Memory!Load(v)
                      /\ \A b \in Bytes : store_byte(v, b) => Memory!Store(v, b)
<1>1. Init => Memory!Init
  <2> SUFFICES ASSUME Init PROVE Memory!Init
    OBVIOUS
  <2>1. Inv
    BY InvInit
  <2>2. mem \in [Addresses -> Bytes]
    BY <2>1, Translation DEF Inv, TypeOK
  <2>3. \A S : Allowed(S) \in SUBSET Addresses
    BY DEF Allowed
  <2>4. ok = TRUE /\ byte \in Bytes
    BY <2>1 DEF Init, Inv, TypeOK
  <2> QED
    BY <2>2, <2>3, <2>4 DEF Memory!Init
<1>2. Inv /\ [Next]_vars => [Calls]_vars
  <2> SUFFICES ASSUME Inv PROVE Calls
    OBVIOUS
  <2>1. ASSUME page_table' = page_table, attributes' = attributes
        PROVE  /\ \A v \in Addresses : Frame(v)' = Frame(v) /\ Offset(v)' = Offset(v)
               /\ \A S : Allowed(S)' = Allowed(S)
    BY <2>1 DEF Frame, Offset, virt_to_pte, Allowed
  <2>2. ASSUME NEW v \in Addresses, get_byte(v) PROVE Memory!Load(v)
    <3>1. MayRead(v) <=> v \in Allowed(InvalidPages)
      BY Translation
    <3>2. mem' = mem
      BY <2>1, <2>2 DEF get_byte
    <3>3. ok' = (v \in Allowed(InvalidPages))
      BY <2>2, <3>1 DEF get_byte, MayRead
    <3>4. byte' = IF v \in Allowed(InvalidPages) THEN mem[v] ELSE byte
      BY <2>2, <3>1 DEF get_byte
    <3>5. \A S : Allowed(S)' = Allowed(S)
      BY <2>1, <2>2 DEF get_byte
    <3> QED
      BY <3>2, <3>3, <3>4, <3>5 DEF Memory!Load
  <2>3. ASSUME NEW v \in Addresses, NEW b \in Bytes, store_byte(v, b)
        PROVE  Memory!Store(v, b)
    <3>1. MayWrite(v) <=> v \in Allowed(InvalidPages \cup ReadOnlyPages)
      BY Translation
    <3>2. /\ \A u \in Addresses : Frame(u)' = Frame(u) /\ Offset(u)' = Offset(u)
          /\ \A S : Allowed(S)' = Allowed(S)
      BY <2>1, <2>3 DEF store_byte
    <3>3. CASE ~MayWrite(v)
      <4>1. mem' = mem /\ ok' = FALSE /\ byte' = byte
        BY <2>3, <3>2, <3>3 DEF store_byte
      <4>2. v \notin Allowed(InvalidPages \cup ReadOnlyPages)
        BY <3>1, <3>3
      <4> HIDE DEF mem
      <4>3. /\ ok' = (v \in Allowed(InvalidPages \cup ReadOnlyPages))
            /\ mem' = IF v \in Allowed(InvalidPages \cup ReadOnlyPages)
                        THEN [mem EXCEPT ![v] = b] ELSE mem
        <5>1. (v \in Allowed(InvalidPages \cup ReadOnlyPages)) = FALSE
          BY <4>2
        <5> QED
          BY <4>1, <5>1, Zenon
      <4> QED
        BY <3>2, <4>1, <4>3 DEF Memory!Store, mem
    <3>4. CASE MayWrite(v)
      <4>1. /\ main_mem' = [main_mem EXCEPT ![Frame(v)][Offset(v)] = b]
            /\ ok' = TRUE /\ byte' = byte
        BY <2>3, <3>4 DEF store_byte
      <4>2. ASSUME NEW u \in Addresses
            PROVE  main_mem'[Frame(u)][Offset(u)] =
                     IF u = v THEN b ELSE main_mem[Frame(u)][Offset(u)]
        <5>1. /\ Frame(u) \in Pages /\ Offset(u) \in Offsets
              /\ Frame(v) \in Pages /\ Offset(v) \in Offsets
          BY Translation
        <5>2. Frame(u) = Frame(v) /\ Offset(u) = Offset(v) => u = v
          BY Injective
        <5> QED
          BY <4>1, <5>1, <5>2 DEF Inv, TypeOK
      <4>3. mem' = [mem EXCEPT ![v] = b]
        BY <3>2, <4>2
      <4> QED
        BY <3>1, <3>2, <3>4, <4>1, <4>3 DEF Memory!Store
    <3> QED
      BY <3>3, <3>4
  <2> QED
    BY <2>2, <2>3
<1> QED
  BY <1>1, <1>2, Invariance, PTL DEF Spec, IsAMemory

=============================================================================
