----------------------------- MODULE DurableMap ----------------------------
(***************************************************************************)
(* What internal/store promises, with no log, buffer or file: a map from   *)
(* entry ids to the time each was first stored, which survives the death   *)
(* of the process and the loss of power.  Entries come and go one by one,  *)
(* and are committed together.  A crash may put an entry back to a value   *)
(* it has had since the last commit, and may do nothing else: an entry is  *)
(* never invented, its time never changes, and what was committed is never *)
(* lost and, once deleted for good, never comes back.                      *)
(***************************************************************************)
EXTENDS Naturals

CONSTANTS
  Id,
  MaxTime     \* times are 1..MaxTime; 0 is "not stored"

VARIABLES
  entry,      \* entry[i]: the time at which i was stored
  possible    \* possible[i]: the values of entry[i] since the last commit

vars == <<entry, possible>>

Only(e) == [i \in Id |-> {e[i]}]

Init ==
  /\ entry = [i \in Id |-> 0]
  /\ possible = Only(entry)

Change(i, t) ==
  /\ entry' = [entry EXCEPT ![i] = t]
  /\ possible' = [possible EXCEPT ![i] = @ \cup {t}]

\* An entry that is not stored is stored: the time of one that is, is kept.
Add(i) == entry[i] = 0 /\ \E t \in 1..MaxTime : Change(i, t)

Delete(i) == entry[i] # 0 /\ Change(i, 0)

Commit == possible' = Only(entry) /\ UNCHANGED entry

\* What a crash may leave of the map.
Survives(e) == \A i \in Id : e[i] \in possible[i]

\* The process dies: what it had handed to the system is still there.
Die ==
  /\ entry' \in [Id -> 0..MaxTime]
  /\ Survives(entry')
  /\ UNCHANGED possible

\* The machine dies too: what is left has reached the disk.
LosePower ==
  /\ entry' \in [Id -> 0..MaxTime]
  /\ Survives(entry')
  /\ possible' = Only(entry')

Next ==
  \/ \E i \in Id : Add(i) \/ Delete(i)
  \/ Commit \/ Die \/ LosePower

Spec == Init /\ [][Next]_vars

=============================================================================
