--------------------------- MODULE MCPageReplace ---------------------------
(***************************************************************************)
(* PageReplace with the real width of the clock.  The tree of all schedules *)
(* of more than 256 accesses is out of reach: the user first asks for page *)
(* 0 again and again, and is free only when the clock is about to wrap.    *)
(***************************************************************************)
EXTENDS PageReplace

CONSTANT FreeFrom       \* access from which the user is free

WarmUp == clock < FreeFrom /\ Access(0)

LateNext == WarmUp \/ (clock >= FreeFrom /\ Next)

LateSpec == Init /\ policy = "LRU" /\ [][LateNext]_vars

=============================================================================
