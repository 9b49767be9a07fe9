-------------------------- MODULE ReorderContract --------------------------
(***************************************************************************)
(* What the reordering promises whoever reads the firmware's boot table:   *)
(* when the program stops, its changes are all there or all undone, except *)
(* in rows that the firmware itself changed meanwhile, and unless the      *)
(* firmware refused a write of the rollback.  The table is booted only     *)
(* when the changes are all there.                                         *)
(***************************************************************************)
CONSTANT Index    \* the rows

VARIABLES
  stage,      \* clean, changing, boot, halt
  table,      \* the firmware's table
  fixed,      \* what is to be done is settled
  original,   \* the table to return to
  goal,       \* the table to reach
  foreign,    \* rows the firmware changed since then
  refused     \* the last rollback could not make a write

vars == <<stage, table, fixed, original, goal, foreign, refused>>

Init ==
  /\ stage = "clean" /\ ~fixed /\ original = table /\ goal = table
  /\ foreign = {} /\ ~refused

Running == stage \in {"clean", "changing"}

Restored == \A i \in Index \ foreign : table[i] = original[i]

Reached ==
  /\ \A i \in Index \ foreign : table[i] = goal[i]
  /\ \E s \in Index : \A i \in Index : goal[i].pri = 0 <=> i = s

\* Only priorities are to be changed.
Fix ==
  /\ stage = "clean" /\ ~fixed /\ fixed' = TRUE
  /\ original' = table /\ \A i \in Index : goal'[i].what = table[i].what
  /\ UNCHANGED <<stage, table, foreign, refused>>

\* The priority of one row, which must still be the row that was meant; the
\* write may have no effect.
Change ==
  /\ Running /\ fixed /\ stage' = "changing"
  /\ \E i \in Index :
       /\ table[i].what = original[i].what
       /\ table' = [table EXCEPT ![i].pri = table'[i].pri]
  /\ UNCHANGED <<fixed, original, goal, foreign, refused>>

\* The firmware refuses a write of the rollback, or allows another try.
Refuse ==
  /\ stage = "changing" /\ refused' = ~refused
  /\ UNCHANGED <<stage, table, fixed, original, goal, foreign>>

Clear ==
  /\ stage = "changing" /\ Restored /\ stage' = "clean"
  /\ UNCHANGED <<table, fixed, original, goal, foreign, refused>>

Boot ==
  /\ stage = "changing" /\ Reached /\ stage' = "boot"
  /\ UNCHANGED <<table, fixed, original, goal, foreign, refused>>

\* A refusal may be what the program stops for.
Halt ==
  /\ Running /\ stage' = "halt" /\ (Restored \/ Reached \/ refused')
  /\ refused' # refused => stage = "changing"
  /\ UNCHANGED <<table, fixed, original, goal, foreign>>

\* The firmware changes a row.
Firmware ==
  /\ Running
  /\ \E i \in Index :
       /\ \A j \in Index \ {i} : table'[j] = table[j]
       /\ foreign' = IF fixed THEN foreign \cup {i} ELSE foreign
  /\ IF fixed THEN UNCHANGED <<original, goal>> ELSE original' = table' /\ goal' = table'
  /\ UNCHANGED <<stage, fixed, refused>>

Next == Fix \/ Change \/ Refuse \/ Clear \/ Boot \/ Halt \/ Firmware

Spec == Init /\ [][Next]_vars
=============================================================================
