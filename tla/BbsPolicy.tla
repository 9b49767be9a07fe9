----------------------------- MODULE BbsPolicy ------------------------------
(***************************************************************************)
(* The firmware's table of bootable devices, the rules by which the        *)
(* program decides which rows it may reorder, and the firmware variable    *)
(* LegacyDevOrder that says in which order.                                *)
(***************************************************************************)
EXTENDS Integers, Sequences, FiniteSets

CONSTANTS
  Count,    \* BbsCount
  NoOrder   \* LegacyDevOrder is absent, unreadable or structurally malformed

ASSUME CountAssumption == Count \in 1 .. 256

Index == 0 .. Count - 1

MaxUint16 == 65535

Priority      == 0 .. MaxUint16
DoNotBootFrom == 65532
Lowest        == 65533
Unprioritized == 65534
Ignore        == 65535

\* A row apart from its priority: whether it is a hard disk; its status flags
\* (enabled with media and not failed; otherwise; all zero); whether a resident
\* ROM or a firmware handler vouches for it.  The texts a row points to, and
\* its address, belong here too: they are compared, never interpreted.
Kind  == [hdd : BOOLEAN, flags : {"good", "bad", "zero"}, known : BOOLEAN]
Row   == [pri : Priority, what : Kind]
Table == [Index -> Row]

BbsPriorityIsValid(p) == p \notin {Ignore, DoNotBootFrom, Lowest}

BbsEntryIsTransactionEligible(row) ==
  /\ BbsPriorityIsValid(row.pri)
  /\ row.what.flags = "good" \/ (row.what.flags = "zero" /\ row.what.known)

SelectedDiskCanAttempt(row) ==
  row.what.hdd /\ (row.what.flags # "zero" \/ row.what.known)

\* The selected disk follows the user's choice; every other row must be
\* enabled, and not switched off by a usable LegacyDevOrder.
BbsIndexIsTransactionEligible(table, sel, order, i) ==
  IF i = sel THEN SelectedDiskCanAttempt(table[i])
  ELSE /\ BbsEntryIsTransactionEligible(table[i])
       /\ table[i].what.flags # "zero"
       /\ order.usable => ~order.off[i]

Eligible(table, sel, order) ==
  {i \in Index : BbsIndexIsTransactionEligible(table, sel, order, i)}

-----------------------------------------------------------------------------
(* LegacyDevOrder: a sequence of entries, those of one type together.      *)

Entry == [hdd : BOOLEAN, index : Nat, off : BOOLEAN]

\* The ordering in use: LegacyDevOrderUsable, Ranks and Disabled.
OrderType == [usable : BOOLEAN, rank : [Index -> 0 .. MaxUint16], off : [Index -> BOOLEAN]]

Names(raw, i) == \E k \in 1 .. Len(raw) : raw[k].index = i

\* Mutant: rows that the variable forgets are not noticed.
FitsLoosely(raw, table) ==
  /\ \A k \in 1 .. Len(raw) : raw[k].index \in Index
  /\ \A k, l \in 1 .. Len(raw) : raw[k].index = raw[l].index => k = l

\* The variable names every row with a valid priority exactly once, under its
\* own type, and no other row.
Fits(raw, table) ==
  /\ \A k \in 1 .. Len(raw) :
       /\ raw[k].index \in Index
       /\ table[raw[k].index].what.hdd = raw[k].hdd
       /\ BbsPriorityIsValid(table[raw[k].index].pri)
  /\ \A k, l \in 1 .. Len(raw) : raw[k].index = raw[l].index => k = l
  /\ \A i \in Index : BbsPriorityIsValid(table[i].pri) => Names(raw, i)

Captured(raw) ==
  [usable |-> TRUE,
   rank   |-> [i \in Index |-> IF Names(raw, i)
                               THEN (CHOOSE k \in 1 .. Len(raw) : raw[k].index = i) - 1
                               ELSE MaxUint16],
   off    |-> [i \in Index |-> \E k \in 1 .. Len(raw) : raw[k].index = i /\ raw[k].off]]

Fallback ==
  [usable |-> FALSE, rank |-> [i \in Index |-> MaxUint16], off |-> [i \in Index |-> FALSE]]

\* LegacyBootCaptureLegacyDevOrder: a variable that does not fit, or that
\* cannot be read this time, is not used.
Captures(raw, table) ==
  {Fallback} \cup (IF raw # NoOrder /\ Fits(raw, table) THEN {Captured(raw)} ELSE {})

-----------------------------------------------------------------------------
(* What the plan is meant to be: the selected disk first, then the other   *)
(* disks, then everything else; rows that may not be reordered keep their   *)
(* priority.                                                               *)

Ahead(table, sel, order, i, j) ==
  LET hddI == table[i].what.hdd
      hddJ == table[j].what.hdd
  IN CASE sel \in {i, j} -> i = sel /\ j # sel
       [] sel \notin {i, j} /\ hddI # hddJ -> hddI
       [] sel \notin {i, j} /\ hddI = hddJ /\ order.usable -> order.rank[i] < order.rank[j]
       [] sel \notin {i, j} /\ hddI = hddJ /\ ~order.usable /\ hddI -> i < j
       [] OTHER -> table[i].pri < table[j].pri \/ (table[i].pri = table[j].pri /\ i < j)

Plan(table, sel, order) ==
  LET rows == Eligible(table, sel, order)
  IN [i \in Index |-> IF i \in rows
                      THEN Cardinality({j \in rows : Ahead(table, sel, order, j, i)})
                      ELSE table[i].pri]

=============================================================================
