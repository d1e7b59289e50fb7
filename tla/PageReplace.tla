---------------------------- MODULE PageReplace ----------------------------
(***************************************************************************)
(* The page replacement simulator of lab13/memreplace.c: three frames, a   *)
(* page table with a valid, a swap and a reference bit per page, an 8-bit  *)
(* virtual clock tvc and, for each page, its time of last use tdu.  The    *)
(* command line chooses the policy: LRU, or WSC (working set clock).       *)
(***************************************************************************)
EXTENDS Integers, FiniteSets

CONSTANTS NbPages,      \* NB_PAGES, 16 in the code
          Delta,        \* DELTA, 2 in the code
          TvcRange,     \* number of values of a uint8_t, 256 in the code
          MaxAccesses   \* bound: accesses the user asks for

ASSUME PagesAssumption  == NbPages \in Nat /\ NbPages >= 4
ASSUME ClockAssumption  == /\ TvcRange \in Nat /\ TvcRange > 0
                           /\ Delta \in Nat /\ MaxAccesses \in Nat

Pages == 0..(NbPages - 1)
Ticks == 0..(TvcRange - 1)

VARIABLES policy,    \* argv[1]
          valid,     \* pages whose VALID_BIT_MASK is set: they own a frame
          swap,      \* pages whose SWAP_BIT_MASK is set
          ref,       \* pages whose REF_BIT_MASK is set
          tdu,       \* time of last use, per page
          tvc,       \* virtual clock
          clock,     \* history: number of accesses so far, never wraps
          lastUse    \* history: access at which each page was last used, or 0

table   == <<policy, valid, swap, ref>>
history == <<clock, lastUse>>
vars    == <<table, tdu, tvc, history>>

TypeOK ==
  /\ policy \in {"LRU", "WSC"}
  /\ valid \in SUBSET Pages
  /\ swap \in SUBSET Pages
  /\ ref \in SUBSET Pages
  /\ tdu \in [Pages -> Ticks]
  /\ tvc \in Ticks
  /\ clock \in 0..MaxAccesses
  /\ lastUse \in [Pages -> 0..MaxAccesses]

\* init_page_table()
Init ==
  /\ policy \in {"LRU", "WSC"}
  /\ valid = {0, 1, 2}
  /\ swap = {3}
  /\ ref = {}
  /\ tdu = [i \in Pages |-> 0]
  /\ tvc = 0
  /\ clock = 0
  /\ lastUse = [i \in Pages |-> 0]

\* Faulty variants: the victim keeps its frame; the victim is not swapped out.
ExchangeKeepsFrame(victim, page) ==
  /\ valid' = valid \cup {page}
  /\ swap' = (swap \cup {victim}) \ {page}
ExchangeDropsVictim(victim, page) ==
  /\ valid' = (valid \ {victim}) \cup {page}
  /\ swap' = swap \ {page}

\* A victim loses its frame to page and goes to swap; page leaves swap.
Exchange(victim, page) ==
  /\ valid' = (valid \ {victim}) \cup {page}
  /\ swap' = (swap \cup {victim}) \ {page}

\* Faulty variant: the comparison is reversed.
MostRecentlyUsed ==
  {i \in valid : \A j \in valid :
     tdu[i] > tdu[j] \/ (tdu[i] = tdu[j] /\ i <= j)}

\* replaceLRU(): the resident page with the smallest time of use, the lowest
\* one if several.
LRUVictims ==
  {i \in valid : \A j \in valid :
     tdu[i] < tdu[j] \/ (tdu[i] = tdu[j] /\ i <= j)}

\* Resident pages the clock hand may stop at: not referenced, and older than
\* the window.  Under WSC no time of use is ever stored, so that this is the
\* clock itself: all pages are older than the window, or none, as in the first
\* accesses and those after the clock comes round.
OutOfWindow == {i \in valid \ ref : tvc - tdu[i] > Delta}

\* Faulty variant: the hand always takes the first resident page.
FirstResident == {i \in valid : \A j \in valid : i <= j}

\* replaceWSC(): the first page out of the window, else the first resident
\* page.
WSCVictims ==
  LET candidates == IF OutOfWindow = {} THEN valid ELSE OutOfWindow
  IN  {i \in candidates : \A j \in candidates : i <= j}

\* Pages the hand runs over, clearing their reference bit, before it stops.
Scanned(victim) ==
  IF OutOfWindow = {} THEN valid ELSE {i \in valid : i < victim}

\* Faulty variant: the clock does not wrap.
TickOver == tvc' = tvc + 1

\* tvc++ on a uint8_t.
Tick == tvc' = (tvc + 1) % TvcRange

\* replaceLRU() on a fault, then incCompteur().
AccessLRU(page) ==
  /\ IF page \in valid
       THEN UNCHANGED <<valid, swap>>
       ELSE \E victim \in LRUVictims : Exchange(victim, page)
  /\ Tick
  /\ tdu' = [tdu EXCEPT ![page] = tvc']
  /\ UNCHANGED ref

\* REF_BIT_MASK & VALID_BIT_MASK is 0: the condition of updateTDU() is never
\* true, and no time of use is ever updated.
updateTDU == UNCHANGED tdu

\* replaceWSC() on a fault, the reference bit, the clock, updateTDU().
AccessWSC(page) ==
  /\ IF page \in valid
       THEN /\ UNCHANGED <<valid, swap>>
            /\ ref' = ref \cup {page}
       ELSE \E victim \in WSCVictims :
              /\ Exchange(victim, page)
              /\ ref' = (ref \ Scanned(victim)) \cup {page}
  /\ Tick
  /\ updateTDU

\* One turn of the main loop.  Page numbers out of range and the command that
\* ends the program change nothing.
Access(page) ==
  /\ clock < MaxAccesses
  /\ \/ policy = "LRU" /\ AccessLRU(page)
     \/ policy = "WSC" /\ AccessWSC(page)
  /\ UNCHANGED policy
  /\ clock' = clock + 1
  /\ lastUse' = [lastUse EXCEPT ![page] = clock']

Next == \E page \in Pages : Access(page)

Spec == Init /\ [][Next]_vars

-----------------------------------------------------------------------------
(* Properties.                                                             *)

\* Replacement neither loses nor invents a frame: a victim is always found,
\* and it is never the page being loaded.
FramesConserved == Cardinality(valid) = 3

\* A page is in one place: in memory or in swap, not both, and a page that
\* was ever used does not disappear from both.
NoPageLost ==
  /\ valid \cap swap = {}
  /\ \A i \in Pages : lastUse[i] > 0 => i \in valid \cup swap

\* LRU is what its name says (comment at memreplace.c:35): no page that was
\* evicted has been used more recently than a page that was kept.
ResidentAreRecent ==
  policy = "LRU" =>
    \A i \in valid, j \in Pages \ valid : lastUse[j] <= lastUse[i]

\* And it is so until the clock has come round once, but for the access that
\* brings it round: that one still evicts the right page.
RecentUntilWrap == clock <= TvcRange => ResidentAreRecent

\* The clock hand gives a second chance: a page used since the hand last ran
\* over it leaves only if no other resident page was free to go.
SecondChance ==
  [][\A i \in ref \ valid', j \in valid \ ref : tvc - tdu[j] <= Delta]_vars

=============================================================================
