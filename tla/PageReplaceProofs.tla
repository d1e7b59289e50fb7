------------------------- MODULE PageReplaceProofs -------------------------
(***************************************************************************)
(* Theorems about PageReplace, for every number of pages, every width of   *)
(* the clock and every number of accesses.                                 *)
(***************************************************************************)
EXTENDS PageReplace, FiniteSetTheorems, TLAPS

-----------------------------------------------------------------------------
(* The virtual clock.                                                      *)

\* A tick stays in the range of the clock, and the clock counts the ticks
\* until it wraps.
LEMMA ModFacts ==
  ASSUME NEW a \in Nat, NEW m \in Nat, m > 0
  PROVE  /\ a % m \in 0..(m - 1)
         /\ a < m => a % m = a
  OBVIOUS

-----------------------------------------------------------------------------
(* The page table.                                                         *)

\* A page loses its reference bit with its frame: the hand of WSC clears those
\* of the pages before its victim, and the victim has none or all are cleared.
RefResident == ref \subseteq valid

\* LRU never sets a reference bit.
RefUnusedByLRU == policy = "LRU" => ref = {}

IInv == TypeOK /\ FramesConserved /\ NoPageLost /\ RefResident /\ RefUnusedByLRU

LEMMA CardinalityThree == Cardinality({0, 1, 2}) = 3
<1>1. IsFiniteSet({0}) /\ Cardinality({0}) = 1
  BY FS_Singleton
<1> DEFINE S == {0} \cup {1}
<1>2. IsFiniteSet(S) /\ Cardinality(S) = IF 1 \in {0} THEN 1 ELSE 1 + 1
  <2> HIDE DEF S
  <2>1. S = {0} \cup {1}
    BY DEF S
  <2> QED
    BY ONLY <1>1, <2>1, FS_AddElement, Zenon
<1>3. Cardinality(S) = 2 /\ 2 \notin S
  BY <1>2
<1>4. Cardinality(S \cup {2}) = IF 2 \in S THEN Cardinality(S) ELSE Cardinality(S) + 1
  <2> HIDE DEF S
  <2> QED
    BY <1>2, FS_AddElement
<1>5. {0, 1, 2} = S \cup {2}
  OBVIOUS
<1> QED
  BY <1>3, <1>4, <1>5

\* Exchanging a resident page for an absent one keeps the number of frames.
LEMMA ExchangeKeepsCount ==
  ASSUME NEW S, IsFiniteSet(S), Cardinality(S) = 3,
         NEW x \in S, NEW y, y \notin S
  PROVE  Cardinality((S \ {x}) \cup {y}) = 3
<1>1. IsFiniteSet(S \ {x}) /\ Cardinality(S \ {x}) = 2
  BY FS_RemoveElement
<1>2. y \notin S \ {x}
  OBVIOUS
<1> QED
  BY <1>1, <1>2, FS_AddElement

LEMMA VictimsAreResident ==
  ASSUME TypeOK
  PROVE  LRUVictims \subseteq valid /\ WSCVictims \subseteq valid
  BY DEF LRUVictims, WSCVictims, OutOfWindow, TypeOK

\* Whatever the policy, an access is a hit or exchanges a resident page.
LEMMA AccessShape ==
  ASSUME TypeOK, NEW page \in Pages, Access(page)
  PROVE  \/ page \in valid /\ UNCHANGED <<valid, swap>>
         \/ page \notin valid /\ \E victim \in valid : Exchange(victim, page)
  BY VictimsAreResident DEF Access, AccessLRU, AccessWSC

LEMMA InitIInv == Init => IInv
<1> SUFFICES ASSUME Init PROVE IInv
  OBVIOUS
<1> USE PagesAssumption, ClockAssumption DEF Init
<1>1. TypeOK
  BY DEF TypeOK, Pages, Ticks
<1>2. FramesConserved
  BY CardinalityThree DEF FramesConserved
<1>3. NoPageLost /\ RefResident /\ RefUnusedByLRU
  BY DEF NoPageLost, RefResident, RefUnusedByLRU, Pages
<1> QED
  BY <1>1, <1>2, <1>3 DEF IInv

LEMMA NextIInv == IInv /\ [Next]_vars => IInv'
<1> SUFFICES ASSUME IInv, [Next]_vars PROVE IInv'
  OBVIOUS
<1>1. ASSUME NEW page \in Pages, Access(page) PROVE IInv'
  <2> USE <1>1, ClockAssumption
  <2>1. \/ page \in valid /\ UNCHANGED <<valid, swap>>
        \/ page \notin valid /\ \E victim \in valid : Exchange(victim, page)
    BY AccessShape DEF IInv
  <2>0. policy' = policy
    BY DEF Access
  <2>2. TypeOK'
    <3>1. valid' \in SUBSET Pages /\ swap' \in SUBSET Pages
      BY <2>1 DEF IInv, TypeOK, Exchange
    <3>2. ref' \in SUBSET Pages
      BY DEF IInv, TypeOK, Access, AccessLRU, AccessWSC
    <3>3. tvc' \in Ticks
      BY ModFacts DEF IInv, TypeOK, Access, AccessLRU, AccessWSC, Tick, Ticks
    <3>4. tdu' \in [Pages -> Ticks]
      BY <3>3 DEF IInv, TypeOK, Access, AccessLRU, AccessWSC, updateTDU
    <3>5. clock' \in 0..MaxAccesses /\ lastUse' \in [Pages -> 0..MaxAccesses]
      BY DEF IInv, TypeOK, Access
    <3>6. policy' \in {"LRU", "WSC"}
      BY <2>0 DEF IInv, TypeOK
    <3> QED
      BY <3>1, <3>2, <3>3, <3>4, <3>5, <3>6 DEF TypeOK
  <2>3. FramesConserved'
    <3>1. IsFiniteSet(valid)
      <4>1. IsFiniteSet(Pages)
        BY FS_Interval, PagesAssumption DEF Pages
      <4> QED
        BY <4>1, FS_Subset DEF IInv, TypeOK
    <3>2. CASE UNCHANGED valid
      BY <3>2 DEF IInv, FramesConserved
    <3>3. CASE page \notin valid /\ \E victim \in valid : Exchange(victim, page)
      BY <3>1, <3>3, ExchangeKeepsCount DEF IInv, FramesConserved, Exchange
    <3> QED
      BY <2>1, <3>2, <3>3
  <2>4. NoPageLost'
    <3>1. valid' \cap swap' = {} /\ page \in valid'
      BY <2>1 DEF IInv, NoPageLost, Exchange
    <3>2. valid \cup swap \subseteq valid' \cup swap'
      BY <2>1 DEF Exchange
    <3>3. \A i \in Pages : i # page => lastUse'[i] = lastUse[i]
      BY DEF Access, IInv, TypeOK
    <3> QED
      BY <3>1, <3>2, <3>3 DEF IInv, NoPageLost
  <2>5. RefResident' /\ RefUnusedByLRU'
    <3>1. CASE policy = "LRU" /\ AccessLRU(page)
      BY <2>0, <3>1 DEF IInv, AccessLRU, RefResident, RefUnusedByLRU
    <3>2. CASE policy = "WSC" /\ AccessWSC(page)
      <4>1. CASE page \in valid
        BY <2>0, <3>2, <4>1 DEF IInv, AccessWSC, RefResident, RefUnusedByLRU
      <4>2. CASE page \notin valid
        <5>1. PICK victim \in WSCVictims :
                /\ Exchange(victim, page)
                /\ ref' = (ref \ Scanned(victim)) \cup {page}
          BY <3>2, <4>2 DEF AccessWSC
        <5>2. ref \ Scanned(victim) \subseteq valid \ {victim}
          BY <5>1 DEF IInv, RefResident, WSCVictims, OutOfWindow, Scanned
        <5> QED
          BY <2>0, <3>2, <5>1, <5>2 DEF Exchange, RefResident, RefUnusedByLRU
      <4> QED
        BY <4>1, <4>2
    <3> QED
      BY <3>1, <3>2 DEF Access
  <2> QED
    BY <2>2, <2>3, <2>4, <2>5 DEF IInv
<1>2. ASSUME UNCHANGED vars PROVE IInv'
  BY <1>2 DEF vars, table, history, IInv, TypeOK, FramesConserved, NoPageLost,
              RefResident, RefUnusedByLRU
<1> QED
  BY <1>1, <1>2 DEF Next

\* A page table entry, the clock and the times of use keep their types: tvc
\* and tdu wrap like the uint8_t they are.
THEOREM TypeCorrect == Spec => []TypeOK
<1>1. IInv => TypeOK
  BY DEF IInv
<1> QED
  BY <1>1, InitIInv, NextIInv, PTL DEF Spec

\* Neither policy loses or invents a frame (replaceLRU, replaceWSC and the
\* fault path of the main loop).
THEOREM FramesStayThree == Spec => []FramesConserved
<1>1. IInv => FramesConserved
  BY DEF IInv
<1> QED
  BY <1>1, InitIInv, NextIInv, PTL DEF Spec

\* The valid and swap bits of a page exclude each other, and a page once used
\* is always in memory or in swap.
THEOREM PagesAreKept == Spec => []NoPageLost
<1>1. IInv => NoPageLost
  BY DEF IInv
<1> QED
  BY <1>1, InitIInv, NextIInv, PTL DEF Spec

-----------------------------------------------------------------------------
(* LRU, as long as the clock has not wrapped.                              *)

\* tdu holds the true times of use.
ClockExact == tvc = clock /\ tdu = lastUse

LRUInv ==
  policy = "LRU" =>
    /\ clock < TvcRange => ClockExact
    /\ clock <= TvcRange => ResidentAreRecent
    /\ \A i \in Pages : lastUse[i] <= clock

LEMMA LRUStep ==
  ASSUME IInv, LRUInv, NEW page \in Pages, Access(page)
  PROVE  LRUInv'
<1> SUFFICES ASSUME policy = "LRU" PROVE LRUInv'
  BY DEF LRUInv, Access
<1> USE ClockAssumption
<1>1. /\ clock \in Nat /\ clock < MaxAccesses /\ clock' = clock + 1
      /\ policy' = policy
  BY DEF IInv, TypeOK, Access
<1>2. AccessLRU(page)
  BY DEF Access
<1>3. lastUse' = [lastUse EXCEPT ![page] = clock + 1]
  BY <1>1 DEF Access
<1>4. clock' < TvcRange => ClockExact'
  <2> SUFFICES ASSUME clock + 1 < TvcRange PROVE ClockExact'
    BY <1>1
  <2>1. ClockExact
    BY <1>1 DEF LRUInv
  <2>2. tvc' = clock + 1
    BY <1>1, <1>2, <2>1, ModFacts DEF AccessLRU, Tick, ClockExact
  <2> QED
    BY <1>1, <1>2, <1>3, <2>1, <2>2 DEF AccessLRU, ClockExact
<1>5. \A i \in Pages : lastUse[i] \in Nat /\ lastUse[i] <= clock
  BY DEF IInv, TypeOK, LRUInv
<1>6. /\ lastUse'[page] = clock + 1
      /\ \A i \in Pages : i # page => lastUse'[i] = lastUse[i]
  BY <1>3 DEF IInv, TypeOK
<1>7. clock' <= TvcRange => ResidentAreRecent'
  <2> SUFFICES ASSUME clock < TvcRange PROVE ResidentAreRecent'
    BY <1>1
  <2>0. ClockExact /\ ResidentAreRecent
    BY <1>1 DEF LRUInv
  <2>1. valid \subseteq Pages
    BY DEF IInv, TypeOK
  <2>2. CASE page \in valid
    <3>1. valid' = valid
      BY <1>2, <2>2 DEF AccessLRU
    <3> QED
      BY <1>1, <1>5, <1>6, <2>0, <2>1, <2>2, <3>1 DEF ResidentAreRecent
  <2>3. CASE page \notin valid
    <3>1. PICK victim \in LRUVictims : Exchange(victim, page)
      BY <1>2, <2>3 DEF AccessLRU
    <3>2. victim \in valid /\ \A j \in valid : lastUse[victim] <= lastUse[j]
      BY <1>5, <2>0, <2>1 DEF LRUVictims, ClockExact
    <3>3. valid' = (valid \ {victim}) \cup {page}
      BY <3>1 DEF Exchange
    <3> SUFFICES ASSUME NEW i \in valid', NEW j \in Pages \ valid'
                 PROVE  lastUse'[j] <= lastUse'[i]
      BY DEF ResidentAreRecent
    <3>4. j # page /\ (j \notin valid \/ j = victim)
      BY <3>3
    <3>5. CASE i = page
      BY <1>1, <1>5, <1>6, <3>4, <3>5
    <3>6. CASE i # page
      <4>1. i \in valid
        BY <3>3, <3>6
      <4>2. lastUse[j] <= lastUse[i]
        BY <2>0, <3>2, <3>4, <4>1 DEF ResidentAreRecent
      <4> QED
        BY <1>6, <2>1, <3>4, <3>6, <4>1, <4>2
    <3> QED
      BY <3>5, <3>6
  <2> QED
    BY <2>2, <2>3
<1>8. (\A i \in Pages : lastUse[i] <= clock)'
  BY <1>1, <1>5, <1>6
<1> QED
  BY <1>1, <1>4, <1>7, <1>8 DEF LRUInv

\* Under LRU the three pages in memory are always the most recently used
\* ones, until the 8-bit clock has come round.
THEOREM LRUIsLeastRecentlyUsed == Spec => []RecentUntilWrap
<1>1. Init => LRUInv
  BY PagesAssumption, ClockAssumption
  DEF Init, LRUInv, ResidentAreRecent, ClockExact, Pages
<1>2. IInv /\ LRUInv /\ [Next]_vars => LRUInv'
  <2>1. CASE Next
    BY <2>1, LRUStep DEF Next
  <2>2. CASE UNCHANGED vars
    BY <2>2 DEF vars, table, history, LRUInv, ResidentAreRecent, ClockExact
  <2> QED
    BY <2>1, <2>2
<1>3. LRUInv => RecentUntilWrap
  BY DEF LRUInv, RecentUntilWrap, ResidentAreRecent
<1> QED
  BY <1>1, <1>2, <1>3, InitIInv, NextIInv, PTL DEF Spec

-----------------------------------------------------------------------------
(* The clock hand.                                                         *)

LEMMA HandSkipsReferenced ==
  ASSUME IInv, NEW page \in Pages, Access(page),
         NEW i \in ref \ valid', NEW j \in valid \ ref
  PROVE  tvc - tdu[j] <= Delta
<1>1. i \in valid
  BY DEF IInv, RefResident
<1>2. page \notin valid /\ policy = "WSC"
  BY <1>1 DEF IInv, RefUnusedByLRU, Access, AccessLRU, AccessWSC
<1>3. PICK victim \in WSCVictims : Exchange(victim, page)
  BY <1>2 DEF Access, AccessLRU, AccessWSC
<1>4. i = victim
  BY <1>1, <1>3 DEF Exchange
<1>5. ASSUME j \in OutOfWindow PROVE FALSE
  BY <1>3, <1>4, <1>5 DEF WSCVictims, OutOfWindow
<1>6. ~(tvc - tdu[j] > Delta)
  BY <1>5 DEF OutOfWindow
<1>7. tvc \in Int /\ tdu[j] \in Int /\ Delta \in Int
  BY ClockAssumption DEF IInv, TypeOK, Ticks
<1> QED
  BY <1>6, <1>7

\* replaceWSC() gives a second chance: it evicts a referenced page only if
\* no resident page that is not referenced is older than the window.
THEOREM SecondChanceIsGiven == Spec => SecondChance
<1> DEFINE Given == \A i \in ref \ valid', j \in valid \ ref : tvc - tdu[j] <= Delta
<1>1. IInv /\ [Next]_vars => [Given]_vars
  BY HandSkipsReferenced DEF Next
<1> QED
  BY <1>1, InitIInv, NextIInv, PTL DEF Spec, SecondChance

=============================================================================
