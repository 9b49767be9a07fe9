--------------------------- MODULE HandoffContract --------------------------
(***************************************************************************)
(* What one boot attempt promises the rest of the program, and the user:   *)
(* it returns only if it changed no hardware; once it has, it either       *)
(* enters the legacy boot, once, or stops for good.                        *)
(***************************************************************************)
VARIABLES
  hardware,  \* original, changed, or rolledBack (changed and put back)
  outcome    \* running, returned, halted, booting

vars == <<hardware, outcome>>

Init == hardware = "original" /\ outcome = "running"

Return == outcome = "running" /\ hardware = "original"
          /\ outcome' = "returned" /\ UNCHANGED hardware

Change == outcome = "running" /\ hardware = "original"
          /\ hardware' = "changed" /\ UNCHANGED outcome

RollBack == outcome = "running" /\ hardware = "changed"
            /\ hardware' = "rolledBack" /\ UNCHANGED outcome

\* Halting is the only way out of a rollback.
Halt == outcome \in {"running", "booting"} /\ hardware # "original"
        /\ outcome' = "halted" /\ UNCHANGED hardware

Boot == outcome = "running" /\ hardware = "changed"
        /\ outcome' = "booting" /\ UNCHANGED hardware

Next == Return \/ Change \/ RollBack \/ Halt \/ Boot

Spec == Init /\ [][Next]_vars
=============================================================================
