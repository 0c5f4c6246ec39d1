--------------------------- MODULE DeliveryInbox ---------------------------
(***************************************************************************)
(* What the webhook guard promises: an event is taken in at most once, and *)
(* only an event that was taken in is answered as a duplicate.             *)
(***************************************************************************)
CONSTANT Events

VARIABLES recorded, duplicates   \* sets of events

vars == <<recorded, duplicates>>

Init == recorded = {} /\ duplicates = {}

Take(e) ==
  /\ e \notin recorded
  /\ recorded' = recorded \cup {e}
  /\ UNCHANGED duplicates

AnswerDuplicate(e) ==
  /\ e \in recorded
  /\ duplicates' = duplicates \cup {e}
  /\ UNCHANGED recorded

Next == \E e \in Events : Take(e) \/ AnswerDuplicate(e)

Spec == Init /\ [][Next]_vars
=============================================================================
