--------------------------- MODULE VirtualMemory ---------------------------
(***************************************************************************)
(* What the simulators of lab11 and lab12 promise to the code that reads   *)
(* and writes bytes: every virtual address is a byte of its own, and the   *)
(* page of an address says whether it can be read, and written.            *)
(***************************************************************************)
CONSTANTS Addresses, Bytes

VARIABLES mem,        \* the byte at every virtual address
          readable,   \* addresses that can be read
          writable,   \* addresses that can be written
          ok,         \* the last call returned 0, not -1
          byte        \* where the caller wants the byte it reads

vmVars == <<mem, readable, writable, ok, byte>>

Init ==
  /\ mem \in [Addresses -> Bytes]
  /\ readable \in SUBSET Addresses
  /\ writable \in SUBSET Addresses
  /\ ok = TRUE
  /\ byte \in Bytes

Load(v) ==
  /\ ok' = (v \in readable)
  /\ byte' = IF v \in readable THEN mem[v] ELSE byte
  /\ UNCHANGED <<mem, readable, writable>>

Store(v, b) ==
  /\ ok' = (v \in writable)
  /\ mem' = IF v \in writable THEN [mem EXCEPT ![v] = b] ELSE mem
  /\ UNCHANGED <<readable, writable, byte>>

Next == \E v \in Addresses : Load(v) \/ \E b \in Bytes : Store(v, b)

Spec == Init /\ [][Next]_vmVars

=============================================================================
