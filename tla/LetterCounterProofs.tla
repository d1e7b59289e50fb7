------------------------ MODULE LetterCounterProofs ------------------------
(***************************************************************************)
(* Theorems about LetterCounter, for every text, every alphabet and every  *)
(* number of threads.                                                      *)
(***************************************************************************)
EXTENDS LetterCounter, FiniteSetTheorems, TLAPS

-----------------------------------------------------------------------------
(* The chunks.                                                             *)

\* What division with remainder is.
LEMMA DivFacts ==
  ASSUME NEW n \in Nat, NEW k \in Nat \ {0}
  PROVE  /\ n \div k \in Nat /\ n % k \in Nat
         /\ n = (k * (n \div k)) + (n % k)
  OBVIOUS

LEMMA ProductFacts ==
  ASSUME NEW a \in Nat, NEW b \in Nat, NEW c \in Nat
  PROVE  /\ a * c \in Nat
         /\ (a + 1) * c = a * c + c
         /\ a <= b => a * c <= b * c
<1>1. a * c \in Nat /\ (a + 1) * c = a * c + c
  BY SMT
<1>2. ASSUME a <= b PROVE a * c <= b * c
  <2> DEFINE d == b - a
  <2>1. d \in Nat /\ b = a + d
    BY <1>2
  <2>2. d * c \in Nat
    BY <2>1, SMT
  <2>3. (a + d) * c = a * c + d * c
    BY <2>1, SMT
  <2> QED
    BY <1>1, <2>1, <2>2, <2>3
<1> QED
  BY <1>1, <1>2

\* A chunk starts where the one before ends, and the last one ends with the
\* text.
Shape == textLength \in Nat /\ thread_num \in Nat \ {0}

LEMMA ChunkFacts ==
  ASSUME Shape, NEW t \in Nat, t < thread_num
  PROVE  /\ Start(t) \in Nat /\ Size(t) \in Nat
         /\ t + 1 < thread_num => Start(t) + Size(t) = Start(t + 1)
         /\ t + 1 = thread_num => Start(t) + Size(t) = textLength
         /\ Start(t) + Size(t) <= textLength
         /\ Start(0) = 0
<1> DEFINE c == chunkSize
           r == leftover
           k == thread_num
<1>1. c \in Nat /\ r \in Nat /\ k \in Nat /\ textLength = k * c + r
  BY DivFacts DEF Shape, chunkSize, leftover
<1>2. Size(t) = IF t = k - 1 THEN c + r ELSE c
  BY DEF Size
<1>s. \A x : Start(x) = x * c
  BY DEF Start
<1> HIDE DEF c, r, k
<1>3. /\ t * c \in Nat
      /\ (t + 1) * c = t * c + c
      /\ t + 1 <= k => (t + 1) * c <= k * c
  BY <1>1, ProductFacts
<1>4. t + 1 <= k /\ (t = k - 1 => t + 1 = k)
  BY <1>1 DEF k
<1>5. 0 * c = 0
  BY <1>1, SMT
<1>6. Start(t) = t * c /\ Start(t + 1) = (t + 1) * c /\ Start(0) = 0
  BY <1>5, <1>s
<1>7. k = thread_num
  BY DEF k
<1>8. CASE t + 1 = k
  BY <1>1, <1>2, <1>3, <1>6, <1>7, <1>8
<1>9. CASE t + 1 < k
  <2>1. Size(t) = c
    BY <1>1, <1>2, <1>9
  <2>2. Start(t) + Size(t) = Start(t + 1)
    BY <1>3, <1>6, <2>1
  <2>3. k * c \in Nat /\ Start(t) + Size(t) <= k * c
    BY <1>1, <1>3, <1>4, <1>6, <2>2, ProductFacts
  <2> QED
    BY <1>1, <1>3, <1>6, <1>7, <1>9, <2>1, <2>2, <2>3
<1> QED
  BY <1>1, <1>4, <1>8, <1>9

-----------------------------------------------------------------------------
(* The places of a letter.                                                 *)

LEMMA PlacesFinite ==
  ASSUME NEW s, NEW l, NEW a \in Nat, NEW b \in Nat
  PROVE  /\ IsFiniteSet(Places(s, l, a, b))
         /\ Cardinality(Places(s, l, a, b)) \in Nat
         /\ a <= b => Cardinality(Places(s, l, a, b)) <= b - a
<1>1. IsFiniteSet(a..(b - 1)) /\ Cardinality(a..(b - 1)) = IF a > b - 1 THEN 0 ELSE b - a
  BY FS_Interval
<1>2. Places(s, l, a, b) \in SUBSET (a..(b - 1))
  BY DEF Places
<1> QED
  BY <1>1, <1>2, FS_Subset, FS_CardinalityType

LEMMA NoPlaces ==
  ASSUME NEW s, NEW l, NEW a \in Nat
  PROVE  Cardinality(Places(s, l, a, a)) = 0
<1>1. Places(s, l, a, a) = {}
  BY DEF Places
<1> QED
  BY <1>1, FS_EmptySet

LEMMA OnePlace ==
  ASSUME NEW s, NEW l, NEW a \in Nat, NEW b \in Nat, a <= b
  PROVE  Cardinality(Places(s, l, a, b + 1)) =
           Cardinality(Places(s, l, a, b)) +
             (IF s[b] \in {<<"upper", l>>, <<"lower", l>>} THEN 1 ELSE 0)
<1>1. IsFiniteSet(Places(s, l, a, b))
  BY PlacesFinite
<1>n. b \notin Places(s, l, a, b)
  BY DEF Places
<1>c. Cardinality(Places(s, l, a, b)) \in Nat
  BY PlacesFinite
<1>2. CASE s[b] \in {<<"upper", l>>, <<"lower", l>>}
  <2>1. Places(s, l, a, b + 1) = Places(s, l, a, b) \cup {b}
    BY <1>2 DEF Places
  <2> QED
    BY <1>1, <1>n, <1>2, <2>1, FS_AddElement
<1>3. CASE s[b] \notin {<<"upper", l>>, <<"lower", l>>}
  <2>1. Places(s, l, a, b + 1) = Places(s, l, a, b)
    BY <1>3 DEF Places
  <2> QED
    BY <1>3, <1>c, <2>1
<1> QED
  BY <1>2, <1>3

LEMMA PlacesSplit ==
  ASSUME NEW s, NEW l, NEW a \in Nat, NEW b \in Nat, a <= b
  PROVE  Cardinality(Places(s, l, 0, b)) =
           Cardinality(Places(s, l, 0, a)) + Cardinality(Places(s, l, a, b))
<1>1. Places(s, l, 0, b) = Places(s, l, 0, a) \cup Places(s, l, a, b)
  BY DEF Places
<1>2. Places(s, l, 0, a) \cap Places(s, l, a, b) = {}
  BY DEF Places
<1>3. /\ IsFiniteSet(Places(s, l, 0, a)) /\ IsFiniteSet(Places(s, l, a, b))
      /\ Cardinality(Places(s, l, 0, a)) \in Nat /\ Cardinality(Places(s, l, a, b)) \in Nat
  BY PlacesFinite
<1> DEFINE S == Places(s, l, 0, a)
           T == Places(s, l, a, b)
<1> HIDE DEF S, T
<1>4. Cardinality(S \cup T) = Cardinality(S) + Cardinality(T) - Cardinality(S \cap T)
  BY <1>3, FS_Union DEF S, T
<1>5. Cardinality(S \cap T) = 0
  BY <1>2, FS_EmptySet DEF S, T
<1>6. Cardinality(S \cup T) = Cardinality(S) + Cardinality(T)
  BY <1>3, <1>4, <1>5 DEF S, T
<1> QED
  BY <1>1, <1>6 DEF S, T

-----------------------------------------------------------------------------
(* The inductive invariant.                                                *)

\* What a thread has counted so far: the letters of its chunk up to pos.
Counting ==
  \A t \in Threads :
    /\ state[t] # "none" => t < thread_num
    /\ state[t] \in {"none", "zero"} => pos[t] = 0
    /\ state[t] \in {"count", "done"} =>
         /\ pos[t] <= Size(t)
         /\ \A l \in Letters :
              counters[t][l] = Cardinality(Places(text, l, Start(t), Start(t) + pos[t]))
    /\ state[t] = "done" => pos[t] = Size(t)

Finished == {"display", "free1", "free2", "free3"}

\* What main() has added up so far: the letters before the chunk it waits for.
Adding ==
  /\ pc \in {"create", "join"} => i < thread_num
  /\ pc = "create" => /\ \A l \in Letters : result[l] = 0
                      /\ \A t \in Threads : t >= i => state[t] = "none"
  /\ pc = "join" =>
       /\ \A l \in Letters : result[l] = Cardinality(Places(text, l, 0, Start(i)))
       /\ \A t \in Threads : t < i => state[t] = "done"
  /\ pc \in Finished =>
       /\ \A l \in Letters : result[l] = Cardinality(Places(text, l, 0, textLength))
       /\ \A t \in Threads : state[t] \in {"none", "done"}

\* Nothing is freed before a failure or the end of every thread.
Memory ==
  /\ pc \in {"create", "join"} => memory = Blocks
  /\ ~failed => pc \notin {"clean_all", "clean_parameters", "clean_text"}

Inv == TypeOK /\ Counting /\ Adding /\ Memory /\ FaultsExplained

LEMMA ShapeFacts ==
  ASSUME TypeOK
  PROVE  /\ Shape
         /\ \A t \in Threads : t \in Nat
         /\ \A t \in Nat : t < thread_num => t \in Threads
         /\ textLength <= MaxText
  BY SizeAssumption DEF TypeOK, Shape, Threads

LEMMA InputKept ==
  ASSUME UNCHANGED input
  PROVE  /\ text' = text /\ textLength' = textLength /\ thread_num' = thread_num
         /\ \A t : Start(t)' = Start(t) /\ Size(t)' = Size(t)
  BY DEF input, Start, Size, chunkSize, leftover

LEMMA InitInv == Init => Inv
<1> SUFFICES ASSUME Init PROVE Inv
  OBVIOUS
<1> USE SizeAssumption, LettersAssumption DEF Init
<1>1. TypeOK
  <2>1. 0 \in 0..MaxText
    OBVIOUS
  <2>2. /\ pos \in [Threads -> 0..MaxText]
        /\ counters \in [Threads -> [Letters -> 0..MaxText]]
        /\ result \in [Letters -> 0..MaxText]
    BY <2>1
  <2>3. i \in 0..thread_num
    OBVIOUS
  <2> QED
    BY <2>2, <2>3 DEF TypeOK
<1>2. Counting
  BY DEF Counting
<1>3. Adding /\ Memory /\ FaultsExplained
  BY DEF Adding, Memory, FaultsExplained, Finished
<1> QED
  BY <1>1, <1>2, <1>3 DEF Inv

-----------------------------------------------------------------------------
(* main().                                                                 *)

LEMMA CreateInv == Inv /\ CreateThread => Inv'
<1> SUFFICES ASSUME Inv, CreateThread PROVE Inv'
  OBVIOUS
<1> USE ShapeFacts, InputKept DEF Inv, CreateThread
<1>1. i \in Threads /\ i < thread_num /\ thread_num \in Nat
  BY DEF Adding, TypeOK, Shape
<1>2. /\ state'[i] = "zero"
      /\ \A t \in Threads : t # i => state'[t] = state[t]
  BY <1>1 DEF TypeOK
<1>3. TypeOK'
  BY <1>1 DEF TypeOK, input
<1>4. Counting'
  BY <1>1, <1>2 DEF Counting, Adding
<1>5. Adding'
  <2>1. CASE i + 1 < thread_num
    BY <1>1, <1>2, <2>1 DEF Adding, Finished, Shape, Threads
  <2>2. CASE ~(i + 1 < thread_num)
    <3>1. \A l \in Letters : result'[l] = Cardinality(Places(text, l, 0, Start(0)))
      BY NoPlaces, ChunkFacts, <1>1 DEF Adding
    <3> QED
      BY <1>1, <2>2, <3>1 DEF Adding, Finished, Threads, Shape
  <2> QED
    BY <2>1, <2>2
<1>6. Memory' /\ FaultsExplained'
  BY DEF Memory, FaultsExplained
<1> QED
  BY <1>3, <1>4, <1>5, <1>6

LEMMA FailInv == Inv /\ CreateOrJoinFails => Inv'
<1> SUFFICES ASSUME Inv, CreateOrJoinFails PROVE Inv'
  OBVIOUS
<1> USE InputKept DEF Inv, CreateOrJoinFails, worker
<1>1. TypeOK'
  BY DEF TypeOK, input
<1>2. Counting' /\ Adding' /\ Memory' /\ FaultsExplained'
  BY DEF Counting, Adding, Memory, FaultsExplained, Finished
<1> QED
  BY <1>1, <1>2

\* The letters before the next chunk are those before the chunk joined and
\* those its thread has counted.
LEMMA JoinInv == Inv /\ JoinThread => Inv'
<1> SUFFICES ASSUME Inv, JoinThread PROVE Inv'
  OBVIOUS
<1> USE InputKept DEF Inv
<1>1. /\ i \in Nat /\ i \in Threads /\ i < thread_num /\ thread_num \in Nat
      /\ textLength \in Nat /\ textLength <= MaxText
      /\ state[i] = "done"
  BY ShapeFacts DEF Adding, TypeOK, Shape, JoinThread
<1> DEFINE e == Start(i) + Size(i)
<1>2. Start(i) \in Nat /\ e \in Nat /\ Start(i) <= e /\ e <= textLength
  BY <1>1, ShapeFacts, ChunkFacts
<1>3. ASSUME NEW l \in Letters
      PROVE  result'[l] = Cardinality(Places(text, l, 0, e))
  <2>1. result[l] = Cardinality(Places(text, l, 0, Start(i)))
    BY DEF Adding, JoinThread
  <2>2. counters[i][l] = Cardinality(Places(text, l, Start(i), e))
    BY <1>1 DEF Counting
  <2>3. result'[l] = result[l] + counters[i][l]
    BY DEF JoinThread
  <2> QED
    BY <1>2, <2>1, <2>2, <2>3, PlacesSplit
<1>4. /\ i + 1 < thread_num => e = Start(i + 1)
      /\ ~(i + 1 < thread_num) => e = textLength
  BY <1>1, ShapeFacts, ChunkFacts
<1> HIDE DEF e
<1>5. ASSUME NEW l \in Letters
      PROVE  result'[l] \in 0..MaxText
  <2>1. /\ Cardinality(Places(text, l, 0, e)) \in Nat
        /\ Cardinality(Places(text, l, 0, e)) <= e
    BY <1>2, PlacesFinite
  <2> QED
    BY <1>1, <1>2, <1>3, <2>1, SizeAssumption
<1>6. TypeOK'
  <2>1. result' \in [Letters -> 0..MaxText]
    BY <1>5 DEF JoinThread
  <2>2. i' \in 0..thread_num
    BY <1>1 DEF JoinThread
  <2> QED
    BY <2>1, <2>2 DEF JoinThread, TypeOK, input, worker
<1>7. Counting'
  BY DEF Counting, JoinThread, worker
<1>8. Adding'
  <2>1. CASE i + 1 < thread_num
    <3>1. \A l \in Letters : result'[l] = Cardinality(Places(text, l, 0, Start(i + 1)))
      BY <1>3, <1>4, <2>1
    <3>2. pc' = "join" /\ i' = i + 1
      BY <2>1 DEF JoinThread
    <3>3. \A t \in Threads : t < i + 1 => state'[t] = "done"
      BY <1>1 DEF JoinThread, Adding, worker, Threads
    <3> QED
      BY <1>1, <2>1, <3>1, <3>2, <3>3 DEF Adding, Finished, JoinThread
  <2>2. CASE ~(i + 1 < thread_num)
    <3>1. \A l \in Letters : result'[l] = Cardinality(Places(text, l, 0, textLength))
      BY <1>3, <1>4, <2>2
    <3>2. pc' = "display"
      BY <2>2 DEF JoinThread
    <3>3. ASSUME NEW t \in Threads PROVE state'[t] \in {"none", "done"}
      <4>1. state'[t] = state[t] /\ pc = "join"
        BY DEF JoinThread, worker
      <4>2. t < i \/ t = i \/ t > i
        BY <1>1 DEF Threads
      <4>3. t > i => ~(t < thread_num)
        BY <1>1, <2>2 DEF Threads
      <4> QED
        BY <1>1, <4>1, <4>2, <4>3 DEF Adding, Counting, TypeOK
    <3> QED
      BY <3>1, <3>2, <3>3, InputKept DEF Adding, Finished, JoinThread
  <2> QED
    BY <2>1, <2>2
<1>9. Memory' /\ FaultsExplained'
  BY DEF Memory, FaultsExplained, JoinThread
<1> QED
  BY <1>6, <1>7, <1>8, <1>9

LEMMA FreeInv == Inv /\ (Display \/ FreeAll \/ CleanAll) => Inv'
<1> SUFFICES ASSUME Inv, Display \/ FreeAll \/ CleanAll PROVE Inv'
  OBVIOUS
<1>1. /\ UNCHANGED <<input, i, result, failed, worker, fault>>
      /\ memory' \subseteq memory
  BY DEF Display, FreeAll, CleanAll, Free
<1>2. \/ pc \in Finished /\ pc' \in Finished \cup {"exited"}
      \/ /\ pc \in {"clean_all", "clean_parameters", "clean_text"}
         /\ pc' \in {"clean_parameters", "clean_text", "exited"}
  BY DEF Display, FreeAll, CleanAll, Free, Finished
<1>3. TypeOK'
  BY <1>1, <1>2 DEF Inv, TypeOK, input, worker, Finished
<1>4. Counting'
  BY <1>1, InputKept DEF Inv, Counting, worker
<1>5. Adding' /\ Memory' /\ FaultsExplained'
  BY <1>1, <1>2, InputKept DEF Inv, Adding, Memory, FaultsExplained, worker, Finished
<1> QED
  BY <1>3, <1>4, <1>5 DEF Inv

-----------------------------------------------------------------------------
(* count_letters().                                                        *)

\* A thread that works is one of those created, and has not been joined.
LEMMA WorkerFacts ==
  ASSUME Inv, NEW t \in Threads, state[t] \in {"zero", "count"}
  PROVE  /\ t \in Nat /\ t < thread_num
         /\ pc \notin Finished
         /\ pc = "join" => ~(t < i)
         /\ pc = "create" => t < i
  BY ShapeFacts DEF Inv, Counting, Adding, TypeOK, Threads

LEMMA FaultInv ==
  ASSUME Inv, NEW why \in {"overread", "overrun", "freed"}, Fault(why),
         why = "overrun" => \E k \in DOMAIN text : text[k][2] = LettersNb,
         why = "freed" => failed,
         why # "overread"
  PROVE  Inv'
<1>1. UNCHANGED <<input, main, worker>>
  BY DEF Fault
<1>2. TypeOK'
  BY <1>1 DEF Inv, TypeOK, input, main, worker, Fault
<1>3. Counting' /\ Adding' /\ Memory'
  BY <1>1, InputKept DEF Inv, Counting, Adding, Memory, main, worker
<1>4. FaultsExplained'
  BY <1>1 DEF Inv, FaultsExplained, Fault, input, main
<1> QED
  BY <1>2, <1>3, <1>4 DEF Inv

\* Memory is only missing after a failure.
LEMMA FreedAfterFailure ==
  ASSUME Inv, NEW t \in Threads, NEW s \in {"zero", "count"}, Works(t, s),
         memory # Blocks
  PROVE  failed
<1>1. pc \notin Finished /\ pc # "exited"
  BY WorkerFacts DEF Works
<1> QED
  BY <1>1 DEF Inv, Memory, TypeOK, Finished

LEMMA ZeroInv ==
  ASSUME Inv, NEW t \in Threads, ZeroCounters(t)
  PROVE  Inv'
<1>1. CASE "parameters" \in memory
  <2>1. /\ counters' = [counters EXCEPT ![t] = [l \in Letters |-> 0]]
        /\ state' = [state EXCEPT ![t] = "count"]
        /\ UNCHANGED <<input, main, pos, fault>>
        /\ state[t] = "zero"
    BY <1>1 DEF ZeroCounters, Works
  <2>2. TypeOK'
    <3>1. [l \in Letters |-> 0] \in [Letters -> 0..MaxText]
      BY SizeAssumption
    <3> QED
      BY <2>1, <3>1 DEF Inv, TypeOK, input, main
  <2>3. Counting'
    <3>1. Start(t) \in Nat /\ Size(t) \in Nat
      BY <2>1, WorkerFacts, ShapeFacts, ChunkFacts DEF Inv
    <3>2. \A l \in Letters : Cardinality(Places(text, l, Start(t), Start(t) + 0)) = 0
      BY <3>1, NoPlaces
    <3> QED
      BY <2>1, <3>1, <3>2, InputKept DEF Inv, Counting, TypeOK
  <2>4. Adding' /\ Memory' /\ FaultsExplained'
    BY <2>1, WorkerFacts, InputKept
    DEF Inv, Adding, Memory, FaultsExplained, TypeOK, main
  <2> QED
    BY <2>2, <2>3, <2>4 DEF Inv
<1>2. CASE "parameters" \notin memory
  BY <1>2, FreedAfterFailure, FaultInv DEF ZeroCounters, Blocks
<1> QED
  BY <1>1, <1>2

LEMMA ReturnInv ==
  ASSUME Inv, NEW t \in Threads, Return(t)
  PROVE  Inv'
<1>1. CASE "parameters" \in memory
  <2>1. /\ state' = [state EXCEPT ![t] = "done"]
        /\ UNCHANGED <<input, main, pos, counters, fault>>
        /\ state[t] = "count" /\ pos[t] >= Size(t)
    BY <1>1 DEF Return, Works
  <2>2. TypeOK'
    BY <2>1 DEF Inv, TypeOK, input, main
  <2>3. Counting'
    <3>1. pos[t] \in Nat /\ Size(t) \in Nat
      BY <2>1, WorkerFacts, ShapeFacts, ChunkFacts DEF Inv, TypeOK
    <3> QED
      BY <2>1, <3>1, InputKept DEF Inv, Counting, TypeOK
  <2>4. Adding' /\ Memory' /\ FaultsExplained'
    BY <2>1, WorkerFacts, InputKept
    DEF Inv, Adding, Memory, FaultsExplained, TypeOK, main
  <2> QED
    BY <2>2, <2>3, <2>4 DEF Inv
<1>2. CASE "parameters" \notin memory
  BY <1>2, FreedAfterFailure, FaultInv DEF Return, Blocks
<1> QED
  BY <1>1, <1>2

\* One character more of the chunk, within the text.
LEMMA CharFacts ==
  ASSUME Inv, NEW t \in Threads, state[t] = "count", pos[t] < Size(t)
  PROVE  /\ Start(t) \in Nat /\ Size(t) \in Nat /\ pos[t] \in Nat
         /\ Start(t) + pos[t] \in 0..(textLength - 1)
         /\ pos[t] + 1 <= MaxText
         /\ textLength \in Nat /\ textLength <= MaxText
<1>1. Start(t) \in Nat /\ Size(t) \in Nat /\ Start(t) + Size(t) <= textLength
  BY WorkerFacts, ShapeFacts, ChunkFacts DEF Inv
<1>2. pos[t] \in Nat /\ textLength \in Nat /\ textLength <= MaxText /\ MaxText \in Nat
  BY SizeAssumption, ShapeFacts DEF Inv, TypeOK, Shape
<1> QED
  BY <1>1, <1>2

LEMMA TallyInv ==
  ASSUME Inv, NEW t \in Threads, Works(t, "count"), pos[t] < Size(t),
         LET c == text[Start(t) + pos[t]]
         IN  ~(Counted(c) /\ c[2] = LettersNb) /\ Tally(t, c)
  PROVE  Inv'
<1> DEFINE a == Start(t)
           b == Start(t) + pos[t]
           c == text[b]
<1>1. /\ a \in Nat /\ b \in Nat /\ a <= b /\ pos[t] \in Nat /\ Size(t) \in Nat
      /\ pos[t] + 1 \in 0..MaxText /\ b - a = pos[t] /\ pos[t] + 1 <= Size(t)
      /\ c \in Chars
      /\ MaxText \in Nat
  BY CharFacts, SizeAssumption DEF Works, Inv, TypeOK
<1>2. /\ pos' = [pos EXCEPT ![t] = @ + 1]
      /\ counters' = IF Counted(c) THEN [counters EXCEPT ![t][c[2]] = @ + 1] ELSE counters
      /\ UNCHANGED <<input, main, state, fault>>
  BY DEF Tally
<1>3. state[t] = "count"
  BY DEF Works
<1>4. ASSUME NEW l \in Letters
      PROVE  /\ c \in {<<"upper", l>>, <<"lower", l>>} => Counted(c) /\ c[2] = l
             /\ c \notin {<<"upper", l>>, <<"lower", l>>} => ~(Counted(c) /\ c[2] = l)
  <2>1. CASE c = Other
    BY <2>1 DEF Other, Counted
  <2>2. CASE c # Other
    <3>1. PICK x \in {"upper", "lower"}, y \in 0..LettersNb : c = <<x, y>>
      BY <1>1, <2>2 DEF Chars
    <3>2. Counted(c) /\ c[2] = y
      BY <3>1, LettersAssumption DEF Counted
    <3> QED
      BY <3>1, <3>2, LettersAssumption DEF Letters
  <2> QED
    BY <2>1, <2>2
<1>5. Counted(c) => c[2] \in Letters
  <2> SUFFICES ASSUME Counted(c) PROVE c[2] \in Letters
    OBVIOUS
  <2>1. PICK x \in {"upper", "lower"}, y \in 0..LettersNb : c = <<x, y>>
    BY <1>1 DEF Chars, Other, Counted
  <2>2. y # LettersNb
    BY <2>1
  <2> QED
    BY <2>1, <2>2, LettersAssumption DEF Letters
<1>6. ASSUME NEW l \in Letters
      PROVE  /\ counters'[t][l] = Cardinality(Places(text, l, a, b + 1))
             /\ counters'[t][l] \in 0..MaxText
  <2>1. counters[t][l] = Cardinality(Places(text, l, a, b))
    BY <1>3 DEF Inv, Counting
  <2>2. Cardinality(Places(text, l, a, b + 1)) =
          counters[t][l] + (IF c \in {<<"upper", l>>, <<"lower", l>>} THEN 1 ELSE 0)
    BY <1>1, <2>1, OnePlace
  <2>3. counters'[t][l] =
          counters[t][l] + (IF c \in {<<"upper", l>>, <<"lower", l>>} THEN 1 ELSE 0)
    <3>0. counters[t] \in [Letters -> 0..MaxText] /\ counters \in [Threads -> [Letters -> 0..MaxText]]
      BY DEF Inv, TypeOK
    <3>1. CASE c \in {<<"upper", l>>, <<"lower", l>>}
      <4>1. counters' = [counters EXCEPT ![t][l] = @ + 1]
        BY <1>2, <1>4, <3>1
      <4> QED
        BY <4>1, <3>0, <3>1
    <3>2. CASE c \notin {<<"upper", l>>, <<"lower", l>>}
      <4>1. counters'[t][l] = counters[t][l]
        <5>1. CASE Counted(c)
          <6> DEFINE d == c[2]
          <6>1. counters' = [counters EXCEPT ![t][d] = @ + 1] /\ d # l
            BY <1>2, <1>4, <3>2, <5>1
          <6> HIDE DEF d
          <6> QED
            BY <6>1, <3>0
        <5>2. CASE ~Counted(c)
          BY <1>2, <5>2
        <5> QED
          BY <5>1, <5>2
      <4>2. counters[t][l] \in 0..MaxText
        BY <3>0
      <4> HIDE DEF c
      <4> QED
        BY <3>2, <4>1, <4>2, <1>1
    <3> QED
      BY <3>1, <3>2
  <2>4. /\ Cardinality(Places(text, l, a, b + 1)) \in Nat
        /\ Cardinality(Places(text, l, a, b + 1)) <= (b + 1) - a
    BY <1>1, PlacesFinite
  <2> HIDE DEF a, b, c
  <2> QED
    BY <1>1, <2>2, <2>3, <2>4
<1>7. /\ counters' \in [Threads -> [Letters -> 0..MaxText]]
      /\ \A u \in Threads : u # t => counters'[u] = counters[u]
  <2>1. counters \in [Threads -> [Letters -> 0..MaxText]]
    BY DEF Inv, TypeOK
  <2>2. CASE Counted(c)
    <3> DEFINE d == c[2]
    <3>1. counters' = [counters EXCEPT ![t] = [counters[t] EXCEPT ![d] = @ + 1]]
      BY <1>2, <2>2
    <3> HIDE DEF d
    <3>2. /\ DOMAIN counters' = Threads /\ counters' = [u \in Threads |-> counters'[u]]
          /\ counters'[t] = [counters[t] EXCEPT ![d] = @ + 1]
          /\ \A u \in Threads : u # t => counters'[u] = counters[u]
      BY <2>1, <3>1
    <3>3. counters'[t] \in [Letters -> 0..MaxText]
      BY <1>6, <2>1, <3>2
    <3> QED
      BY <2>1, <3>2, <3>3
  <2>3. CASE ~Counted(c)
    BY <1>2, <2>1, <2>3
  <2> QED
    BY <2>2, <2>3
<1> HIDE DEF a, b, c
<1>8. TypeOK'
  BY <1>1, <1>2, <1>7 DEF Inv, TypeOK, input, main
<1>9. Counting'
  <2>1. /\ pos'[t] = pos[t] + 1
        /\ \A u \in Threads : u # t => pos'[u] = pos[u]
    BY <1>2 DEF Inv, TypeOK
  <2>2. b + 1 = Start(t) + pos'[t] /\ a = Start(t)
    BY <1>1, <2>1, CharFacts DEF a, b
  <2> QED
    BY <1>1, <1>2, <1>3, <1>6, <1>7, <2>1, <2>2, InputKept DEF Inv, Counting
<1>10. Adding' /\ Memory' /\ FaultsExplained'
  BY <1>2, InputKept DEF Inv, Adding, Memory, FaultsExplained, main, input
<1> QED
  BY <1>8, <1>9, <1>10 DEF Inv

LEMMA CountCharInv ==
  ASSUME Inv, NEW t \in Threads, CountChar(t)
  PROVE  Inv'
<1> DEFINE k == Start(t) + pos[t]
<1>1. Works(t, "count") /\ pos[t] < Size(t) /\ state[t] = "count"
  BY DEF CountChar, Works
<1>2. k \in 0..(textLength - 1) /\ textLength \in Nat
  BY <1>1, CharFacts
<1>3. k \in DOMAIN text /\ ~(k >= textLength)
  BY <1>2 DEF Inv, TypeOK
<1>4. CASE ~({"parameters", "text"} \subseteq memory)
  <2>1. Fault("freed") /\ memory # Blocks
    BY <1>4 DEF CountChar, Blocks
  <2> QED
    BY <1>1, <2>1, FreedAfterFailure, FaultInv
<1>5. CASE {"parameters", "text"} \subseteq memory /\ Counted(text[k]) /\ text[k][2] = LettersNb
  <2>1. Fault("overrun")
    BY <1>3, <1>5 DEF CountChar
  <2> QED
    BY <1>3, <1>5, <2>1, FaultInv
<1>6. CASE {"parameters", "text"} \subseteq memory /\ ~(Counted(text[k]) /\ text[k][2] = LettersNb)
  <2>1. Tally(t, text[k])
    BY <1>3, <1>6 DEF CountChar
  <2> QED
    BY <1>1, <1>6, <2>1, TallyInv
<1> QED
  BY <1>4, <1>5, <1>6

-----------------------------------------------------------------------------
LEMMA NextInv == Inv /\ [Next]_vars => Inv'
<1> SUFFICES ASSUME Inv, [Next]_vars PROVE Inv'
  OBVIOUS
<1>1. CASE Main
  BY <1>1, CreateInv, JoinInv, FreeInv DEF Main
<1>2. CASE System
  BY <1>2, FailInv DEF System
<1>3. ASSUME NEW t \in Threads, Worker(t) PROVE Inv'
  BY <1>3, ZeroInv, CountCharInv, ReturnInv DEF Worker
<1>4. CASE UNCHANGED vars
  <2>1. TypeOK'
    BY <1>4 DEF Inv, TypeOK, vars, input, main, worker
  <2>2. Counting' /\ Adding' /\ Memory' /\ FaultsExplained'
    BY <1>4, InputKept DEF Inv, Counting, Adding, Memory, FaultsExplained, vars, input, main, worker
  <2> QED
    BY <2>1, <2>2 DEF Inv
<1> QED
  BY <1>1, <1>2, <1>3, <1>4 DEF Next

\* What main() and its threads know of each other's work, at any time.
THEOREM Invariance == Spec => []Inv
<1> QED
  BY InitInv, NextInv, PTL DEF Spec

\* Every index, size and counter keeps its type: no counter ever exceeds the
\* length of the text.
THEOREM TypeCorrect == Spec => []TypeOK
<1>1. Inv => TypeOK
  BY DEF Inv
<1> QED
  BY <1>1, Invariance, PTL

\* What main() of lab6 displays is the number of occurrences of each letter,
\* however the text is divided and the threads are scheduled.
THEOREM CountsAlwaysExact == Spec => []CountsExact
<1>1. Inv => CountsExact
  BY DEF Inv, Adding, CountsExact, Finished
<1> QED
  BY <1>1, Invariance, PTL

\* The chunks never reach past the text; memory is left only at a character
\* just past the alphabet, or after a thread could not be created or joined.
THEOREM MemoryIsSafe == Spec => []FaultsExplained
<1>1. Inv => FaultsExplained
  BY DEF Inv
<1> QED
  BY <1>1, Invariance, PTL

=============================================================================
