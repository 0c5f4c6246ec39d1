--------------------------- MODULE ConfigHistory ---------------------------
(***************************************************************************)
(* What the control plane promises: a pointer to the active snapshot that  *)
(* moves in single steps, each recorded in a trail, and runs that are      *)
(* pinned to a snapshot out of that trail while they are in flight.        *)
(***************************************************************************)
EXTENDS Naturals

CONSTANTS Ids, Runs, None

VARIABLES
  current,   \* the active snapshot, or None
  count,     \* how often the pointer has moved
  trail,     \* pairs <<n, s>>: the n-th move activated s
  pinned     \* run -> its snapshot while it is in flight, or None

vars == <<current, count, trail, pinned>>

Init ==
  /\ current = None /\ count = 0 /\ trail = {}
  /\ pinned = [r \in Runs |-> None]

\* An activation or a rollback commits.
Switch(s) ==
  /\ current' = s /\ count' = count + 1
  /\ trail' = trail \cup {<<count + 1, s>>}
  /\ UNCHANGED pinned

\* A run is bound, is bound again, or comes back from a terminal state.
Pin(r, s) ==
  /\ \E n \in 1 .. count : <<n, s>> \in trail
  /\ pinned' = [pinned EXCEPT ![r] = s]
  /\ UNCHANGED <<current, count, trail>>

\* A run reaches a terminal state.
Release(r) ==
  /\ pinned[r] # None
  /\ pinned' = [pinned EXCEPT ![r] = None]
  /\ UNCHANGED <<current, count, trail>>

Next ==
  \/ \E s \in Ids : Switch(s)
  \/ \E r \in Runs : Release(r) \/ \E s \in Ids : Pin(r, s)

Spec == Init /\ [][Next]_vars
=============================================================================
