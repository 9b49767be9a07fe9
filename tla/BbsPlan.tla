------------------------------ MODULE BbsPlan -------------------------------
(***************************************************************************)
(* LegacyBootCaptureLegacyDevOrder and LegacyBootBuildPriorityPlan: how    *)
(* the new boot priorities are worked out, one row at a time, from the     *)
(* journaled table and the firmware's own ordering variable.               *)
(***************************************************************************)
EXTENDS BbsPolicy

CONSTANTS
  Tables,   \* the tables the firmware may have
  Orders    \* the contents LegacyDevOrder may have

ASSUME PlanAssumption ==
  /\ Tables \subseteq Table
  /\ Orders \subseteq Seq(Entry) \cup {NoOrder}

VARIABLES
  pc,
  table, sel, raw,    \* the journal, the selected row, the variable
  order,              \* LegacyDevOrderUsable, Ranks and Disabled
  planned,            \* PlannedPriorities
  ranked,             \* Ranked
  next,               \* NextPriority
  pass                \* Pass

inputs == <<table, sel, raw>>
vars == <<pc, inputs, order, planned, ranked, next, pass>>

\* Discovery has found the one selected disk, and it can be attempted.
Init ==
  /\ pc = "capture"
  /\ table \in Tables /\ sel \in Index /\ SelectedDiskCanAttempt(table[sel])
  /\ raw \in Orders
  /\ order = Fallback
  /\ planned = [i \in Index |-> 0] /\ ranked = {} /\ next = 0 /\ pass = 0

CaptureLegacyDevOrder ==
  /\ pc = "capture"
  /\ \/ order' \in Captures(raw, table) /\ pc' = "plan"
     \/ pc' = "failed" /\ UNCHANGED order
  /\ UNCHANGED <<inputs, planned, ranked, next, pass>>

Rows == Eligible(table, sel, order)

\* The first loop, and the selected row.
PlanBegin ==
  /\ pc = "plan"
  /\ pc' = IF sel \in Rows THEN "rank" ELSE "failed"
  /\ planned' = [i \in Index |-> IF i = sel THEN 0
                                 ELSE IF i \in Rows THEN Unprioritized ELSE table[i].pri]
  /\ ranked' = (Index \ Rows) \cup {sel}
  /\ next' = 1 /\ pass' = 0
  /\ UNCHANGED <<inputs, order>>

\* Pass 0 ranks disks, pass 1 everything else.
Candidates == {i \in Rows \ ranked : table[i].what.hdd = (pass = 0)}

\* Mutant: without an order variable disks, too, go by their old priority.
BetterByPriority(i, j) ==
  IF order.usable THEN order.rank[i] < order.rank[j] \/ (order.rank[i] = order.rank[j] /\ i < j)
  ELSE table[i].pri < table[j].pri \/ (table[i].pri = table[j].pri /\ i < j)

Better(i, j) ==
  IF order.usable THEN order.rank[i] < order.rank[j] \/ (order.rank[i] = order.rank[j] /\ i < j)
  ELSE IF pass = 0 THEN i < j
  ELSE table[i].pri < table[j].pri \/ (table[i].pri = table[j].pri /\ i < j)

\* One round of the selection loop.  NextPriority cannot reach the reserved
\* values (TypeOK), so that the EFI_OUT_OF_RESOURCES return needs no step.
RankNext ==
  /\ pc = "rank" /\ Candidates # {}
  /\ IF order.usable /\ \E i \in Candidates : order.rank[i] = MaxUint16
     THEN pc' = "compromised" /\ UNCHANGED <<planned, ranked, next>>
     ELSE \E best \in Candidates :
            /\ \A i \in Candidates \ {best} : Better(best, i)
            /\ planned' = [planned EXCEPT ![best] = next]
            /\ ranked' = ranked \cup {best}
            /\ next' = next + 1
            /\ pc' = pc
  /\ UNCHANGED <<inputs, order, pass>>

PassDone ==
  /\ pc = "rank" /\ Candidates = {}
  /\ IF pass = 0 THEN pass' = 1 /\ pc' = pc ELSE pc' = "check" /\ UNCHANGED pass
  /\ UNCHANGED <<inputs, order, planned, ranked, next>>

\* Mutant: a protected row may keep priority zero.
PlanCheckSkipped ==
  /\ pc = "check"
  /\ pc' = "ready"
  /\ UNCHANGED <<inputs, order, planned, ranked, next, pass>>

\* A protected row that already has priority zero cannot be moved away.
PlanCheck ==
  /\ pc = "check"
  /\ pc' = IF \E i \in Index \ {sel} : planned[i] = 0 THEN "failed" ELSE "ready"
  /\ UNCHANGED <<inputs, order, planned, ranked, next, pass>>

Terminated == pc \in {"ready", "failed", "compromised"} /\ UNCHANGED vars

Next ==
  \/ CaptureLegacyDevOrder \/ PlanBegin \/ RankNext \/ PassDone \/ PlanCheck \/ Terminated

Spec == Init /\ [][Next]_vars

-----------------------------------------------------------------------------
(* Properties.                                                             *)

TypeOK ==
  /\ pc \in {"capture", "plan", "rank", "check", "ready", "failed", "compromised"}
  /\ table \in Table /\ sel \in Index /\ raw \in Seq(Entry) \cup {NoOrder}
  /\ order \in OrderType
  /\ planned \in [Index -> Priority]
  /\ ranked \subseteq Index
  /\ next \in 0 .. Count /\ pass \in {0, 1}

\* The selection loop of LegacyBootBuildPriorityPlan computes the ranking that
\* its comments describe.
PlanIsRanking == pc = "ready" => planned = Plan(table, sel, order)

\* A finished plan makes the selected disk the one and only entry with priority
\* zero, gives the eligible rows the priorities 0, 1, 2, ... without a gap or a
\* double, below the reserved ones, and leaves every other row as it is.
PlanDense ==
  pc = "ready" =>
    /\ \A i \in Index : planned[i] = 0 <=> i = sel
    /\ \A i \in Rows : planned[i] < next
    /\ \A i, j \in Rows : planned[i] = planned[j] => i = j
    /\ \A p \in 0 .. next - 1 : \E i \in Rows : planned[i] = p
    /\ \A i \in Index \ Rows : planned[i] = table[i].pri

\* A LegacyDevOrder that passed the strict validation ranks every row the plan
\* asks it about: the EFI_COMPROMISED_DATA return in the loop is never taken.
OrderCoversPlan == pc # "compromised"

=============================================================================
