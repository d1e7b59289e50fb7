--------------------------- MODULE LetterCounter ---------------------------
(***************************************************************************)
(* The threaded letter counter, as lab6/lab6.patch completes it: main()    *)
(* cuts the text in as many chunks as there are threads, creates a thread  *)
(* for each, joins them in order and adds up their counters.  When a       *)
(* thread cannot be created or joined, main() frees everything and returns *)
(* while the other threads may still run.                                  *)
(*                                                                         *)
(* A character is a case and an offset from the first letter of that case; *)
(* an offset of LettersNb is the character just past the alphabet.  The    *)
(* file, the arguments and the printed text are left out.                  *)
(***************************************************************************)
EXTENDS Integers, FiniteSets

CONSTANTS LettersNb,   \* LETTERS_NB
          MaxText,     \* bound: characters of the text
          MaxThreads   \* the largest number of threads accepted

ASSUME LettersAssumption == LettersNb \in Nat \ {0}
ASSUME SizeAssumption == MaxText \in Nat /\ MaxThreads \in Nat \ {0}

Letters == 0..(LettersNb - 1)
Other   == <<"other", 0>>
Chars   == ({"upper", "lower"} \X (0..LettersNb)) \cup {Other}

VARIABLES
  textLength,
  text,
  thread_num,
  pc,          \* what main() does next
  i,           \* the loop variable of main()
  state,       \* of each thread
  pos,         \* the loop variable of each thread
  counters,    \* parameters[t].counters
  result,      \* result_counters
  memory,      \* the blocks allocated and not freed yet
  fault,       \* the first access outside of what is allocated
  failed       \* history: a thread could not be created or joined

input  == <<textLength, text, thread_num>>
main   == <<pc, i, result, memory, failed>>
worker == <<state, pos, counters>>
vars   == <<input, main, worker, fault>>

Threads == 0..(MaxThreads - 1)
Blocks  == {"text", "parameters", "threads"}

TypeOK ==
  /\ textLength \in 0..MaxText
  /\ text \in [0..(textLength - 1) -> Chars]
  /\ thread_num \in 1..MaxThreads
  /\ pc \in {"create", "join", "display", "free1", "free2", "free3",
             "clean_all", "clean_parameters", "clean_text", "exited"}
  /\ i \in 0..thread_num
  /\ state \in [Threads -> {"none", "zero", "count", "done"}]
  /\ pos \in [Threads -> 0..MaxText]
  /\ counters \in [Threads -> [Letters -> 0..MaxText]]
  /\ result \in [Letters -> 0..MaxText]
  /\ memory \subseteq Blocks
  /\ fault \in {"none", "overread", "overrun", "freed"}
  /\ failed \in BOOLEAN

\* The text is loaded, and calloc() has cleared the parameters.  The test of
\* the number of threads is not in the repository.  Its message (lab6.patch:91)
\* admits 0, by which the program would divide.
Init ==
  /\ textLength \in 0..MaxText
  /\ text \in [0..(textLength - 1) -> Chars]
  /\ thread_num \in 1..MaxThreads
  /\ pc = "create" /\ i = 0
  /\ state = [t \in Threads |-> "none"]
  /\ pos = [t \in Threads |-> 0]
  /\ counters = [t \in Threads |-> [l \in Letters |-> 0]]
  /\ result = [l \in Letters |-> 0]
  /\ memory = Blocks
  /\ fault = "none"
  /\ failed = FALSE

-----------------------------------------------------------------------------
chunkSize == textLength \div thread_num

\* Faulty variant: one character more.
OneTooMany == (textLength % thread_num) + 1

leftover == textLength % thread_num

\* parameters[t].text_pointer
Start(t) == t * chunkSize

\* parameters[t].size
Size(t) == IF t = thread_num - 1 THEN chunkSize + leftover ELSE chunkSize

\* The character is taken for a letter: the upper bound of the test is the
\* character just past the alphabet.
Counted(c) == c[1] # "other" /\ c[2] <= LettersNb

-----------------------------------------------------------------------------
(* main().                                                                 *)

CreateThread ==
  /\ pc = "create"
  /\ state' = [state EXCEPT ![i] = "zero"]
  /\ IF i + 1 < thread_num
       THEN i' = i + 1 /\ pc' = "create"
       ELSE i' = 0 /\ pc' = "join"
  /\ UNCHANGED <<input, pos, counters, result, memory, fault, failed>>

\* goto clean_all, whatever the threads created before are doing.
CreateOrJoinFails ==
  /\ pc \in {"create", "join"}
  /\ pc' = "clean_all"
  /\ failed' = TRUE
  /\ UNCHANGED <<input, i, result, memory, worker, fault>>

\* Faulty variant: the counters of a thread are read while it runs.
JoinNobody ==
  /\ pc = "join"
  /\ result' = [l \in Letters |-> result[l] + counters[i][l]]
  /\ i' = i + 1
  /\ pc' = IF i + 1 < thread_num THEN "join" ELSE "display"
  /\ UNCHANGED <<input, worker, memory, fault, failed>>

\* pthread_join(), and the counters of the thread added to the result.
JoinThread ==
  /\ pc = "join"
  /\ state[i] = "done"
  /\ result' = [l \in Letters |-> result[l] + counters[i][l]]
  /\ i' = i + 1
  /\ pc' = IF i + 1 < thread_num THEN "join" ELSE "display"
  /\ UNCHANGED <<input, worker, memory, fault, failed>>

Display ==
  /\ pc = "display"
  /\ pc' = "free1"
  /\ UNCHANGED <<input, i, result, memory, failed, worker, fault>>

Free(here, block, next) ==
  /\ pc = here
  /\ memory' = memory \ {block}
  /\ pc' = next
  /\ UNCHANGED <<input, i, result, failed, worker, fault>>

FreeAll ==
  \/ Free("free1", "text", "free2")
  \/ Free("free2", "threads", "free3")
  \/ Free("free3", "parameters", "exited")

\* The labels clean_all, clean_parameters and clean_text.
CleanAll ==
  \/ Free("clean_all", "threads", "clean_parameters")
  \/ Free("clean_parameters", "parameters", "clean_text")
  \/ Free("clean_text", "text", "exited")

-----------------------------------------------------------------------------
(* count_letters(), until main() returns and the process ends.             *)

Fault(why) ==
  /\ fault' = IF fault = "none" THEN why ELSE fault
  /\ UNCHANGED <<input, main, worker>>

Works(t, s) == pc # "exited" /\ fault = "none" /\ state[t] = s

\* The counters are cleared.
ZeroCounters(t) ==
  /\ Works(t, "zero")
  /\ IF "parameters" \in memory
       THEN /\ counters' = [counters EXCEPT ![t] = [l \in Letters |-> 0]]
            /\ state' = [state EXCEPT ![t] = "count"]
            /\ UNCHANGED <<input, main, pos, fault>>
       ELSE Fault("freed")

\* Faulty variant: the loop does not go on after a character that is no
\* letter.
StopAtOther(t, c) ==
  /\ pos' = IF Counted(c) THEN [pos EXCEPT ![t] = @ + 1] ELSE pos
  /\ counters' = IF Counted(c) THEN [counters EXCEPT ![t][c[2]] = @ + 1] ELSE counters
  /\ UNCHANGED <<input, main, state, fault>>

\* Faulty variant: a letter is counted as upper and as lower case.
TallyTwice(t, c) ==
  /\ pos' = [pos EXCEPT ![t] = @ + 1]
  /\ counters' = IF Counted(c) THEN [counters EXCEPT ![t][c[2]] = @ + 2] ELSE counters
  /\ UNCHANGED <<input, main, state, fault>>

Tally(t, c) ==
  /\ pos' = [pos EXCEPT ![t] = @ + 1]
  /\ counters' = IF Counted(c) THEN [counters EXCEPT ![t][c[2]] = @ + 1] ELSE counters
  /\ UNCHANGED <<input, main, state, fault>>

\* One turn of the loop: the size, a character and a counter, each in memory
\* that main() may have freed, past the end of the text or past the end of
\* the counters.
CountChar(t) ==
  LET k == Start(t) + pos[t]
  IN  /\ Works(t, "count")
      /\ pos[t] < Size(t)
      /\ IF ~({"parameters", "text"} \subseteq memory) THEN Fault("freed")
         ELSE IF k >= textLength THEN Fault("overread")
         ELSE IF Counted(text[k]) /\ text[k][2] = LettersNb THEN Fault("overrun")
         ELSE Tally(t, text[k])

Return(t) ==
  /\ Works(t, "count")
  /\ pos[t] >= Size(t)
  /\ IF "parameters" \in memory
       THEN /\ state' = [state EXCEPT ![t] = "done"]
            /\ UNCHANGED <<input, main, pos, counters, fault>>
       ELSE Fault("freed")

-----------------------------------------------------------------------------
Main == fault = "none" /\ (CreateThread \/ JoinThread \/ Display \/ FreeAll \/ CleanAll)

System == fault = "none" /\ CreateOrJoinFails

Worker(t) == ZeroCounters(t) \/ CountChar(t) \/ Return(t)

Next == Main \/ System \/ \E t \in Threads : Worker(t)

Spec == Init /\ [][Next]_vars

\* Every thread, main() included, is scheduled as long as it can go on.  No
\* call has to fail.
FairSpec ==
  /\ Spec
  /\ WF_vars(Main)
  /\ \A t \in Threads : WF_vars(Worker(t))

-----------------------------------------------------------------------------
(* Properties.                                                             *)

\* The places of a letter in s, in either case, from a included to b excluded.
Places(s, l, a, b) == {k \in a..(b - 1) : s[k] \in {<<"upper", l>>, <<"lower", l>>}}

\* What is displayed is the number of occurrences of each letter in the whole
\* text: no character is counted twice, by two threads, nor left out between
\* two chunks, and no counter is read before it is final.
CountsExact ==
  pc = "display" =>
    \A l \in Letters : result[l] = Cardinality(Places(text, l, 0, textLength))

\* The program leaves its memory in two cases only: it counts a character
\* just past the alphabet, or a thread could not be created or joined.  The
\* chunks never reach past the end of the text.
FaultsExplained ==
  /\ fault = "overrun" => \E k \in DOMAIN text : text[k][2] = LettersNb
  /\ fault = "freed" => failed
  /\ fault # "overread"

\* The program ends.
Terminates == <>(pc = "exited" \/ fault # "none")

=============================================================================
