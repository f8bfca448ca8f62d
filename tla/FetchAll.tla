------------------------------ MODULE FetchAll ------------------------------
(***************************************************************************)
(* What FetchAll (internal/fetch/fetch.go) promises its caller, and all    *)
(* that Merger knows of it: every slot of the slice is filled, each of     *)
(* them once, in whatever order the sources answer, and only then is it    *)
(* handed over; from there on it does not change.                          *)
(***************************************************************************)
CONSTANTS
  Slot,     \* the indexes of the slice
  Result,   \* what a slot may be filled with
  Empty     \* what the slice is made of, no Result

VARIABLES slots, returned
vars == <<slots, returned>>

Init ==
  /\ slots = [i \in Slot |-> Empty]
  /\ returned = (Slot = {})

Fill(i) ==
  /\ ~returned
  /\ slots[i] = Empty
  /\ \E r \in Result : slots' = [slots EXCEPT ![i] = r]
  /\ UNCHANGED returned

Return ==
  /\ \A i \in Slot : slots[i] # Empty
  /\ returned' = TRUE
  /\ UNCHANGED slots

Spec == Init /\ [][(\E i \in Slot : Fill(i)) \/ Return]_vars

=============================================================================
