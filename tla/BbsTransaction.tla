--------------------------- MODULE BbsTransaction ---------------------------
(***************************************************************************)
(* The reversible reordering of the firmware's boot table: discovery,      *)
(* preflight, journal, the priority writes one by one, validation, and the *)
(* rollback from the history of writes.                                    *)
(*                                                                         *)
(* The table is in firmware memory.  Between any two steps the firmware    *)
(* may change a row or the ordering variable (Meddle); a write may have no *)
(* effect; a log write may fail and, before the rollback, stops the        *)
(* transaction.                                                            *)
(***************************************************************************)
EXTENDS BbsPolicy

CONSTANTS
  Tables,       \* the tables the firmware may start with
  Orders,       \* the contents LegacyDevOrder may have
  Oddities,     \* the rows the firmware may put into the table by itself
  MaxMeddles    \* how often it does, and how often LegacyDevOrder changes

ASSUME TransactionAssumption ==
  /\ Tables \subseteq Table
  /\ Orders \subseteq Seq(Entry) \cup {NoOrder}
  /\ Oddities \subseteq Row
  /\ MaxMeddles \in Nat

VARIABLES
  pc,
  live, raw,        \* the firmware's table and its LegacyDevOrder variable
  sel,              \* LiveBbsIndex
  snapshot,         \* BbsDiscoverySnapshot
  journal,          \* BbsJournal
  order, copy,      \* the ordering in use, and the bytes it was made from
  planned,          \* PlannedPriorities
  expected,         \* ExpectedPriorities
  complete,         \* JournalComplete
  dirty, applied,   \* PriorityTransactionDirty, PrioritiesApplied
  writes,           \* PriorityWrites
  phase, at,        \* the loops of LegacyBootBootPriorityApply
  try, hist, good,  \* which rollback, its HistoryIndex, its OverallStatus
  meddles,          \* interferences still available to the environment
  meddled,          \* history: rows the firmware changed since the journal
  late,             \* history: the same since the last complete validation
  ignored           \* history: the last rollback could not make a write

firmware == <<live, raw>>
context == <<sel, snapshot, journal, order, copy, planned, expected, complete>>
state == <<dirty, applied, writes>>
loops == <<phase, at, try, hist, good>>
ghosts == <<meddles, meddled, late, ignored>>
vars == <<pc, firmware, context, state, loops, ghosts>>

Write == [index : Index, old : Priority, new : Priority]

Blank == [i \in Index |-> [pri |-> 0, what |-> [hdd |-> FALSE, flags |-> "zero", known |-> FALSE]]]
Zeros == [i \in Index |-> 0]

Init ==
  /\ pc = "idle"
  /\ live \in Tables /\ raw \in Orders
  /\ sel = 0 /\ snapshot = Blank /\ journal = Blank /\ order = Fallback /\ copy = NoOrder
  /\ planned = Zeros /\ expected = Zeros /\ complete = FALSE
  /\ dirty = FALSE /\ applied = FALSE /\ writes = <<>>
  /\ phase = 1 /\ at = 0 /\ try = 1 /\ hist = 0 /\ good = TRUE
  /\ meddles = MaxMeddles /\ meddled = {} /\ late = {} /\ ignored = FALSE

-----------------------------------------------------------------------------
(* Before the hardware handoff.                                            *)

\* LegacyBootBootTargetDiscover: exactly one row is the configured disk, and
\* the table did not change while it was read.
Discover ==
  /\ pc = "idle"
  /\ \/ /\ \E i \in Index : SelectedDiskCanAttempt(live[i]) /\ sel' = i
        /\ snapshot' = live /\ pc' = "discovered"
     \/ pc' = "failed" /\ UNCHANGED <<sel, snapshot>>
  /\ UNCHANGED <<firmware, journal, order, copy, planned, expected, complete, state, loops, ghosts>>

Priorities(table) == [i \in Index |-> table[i].pri]

\* LegacyBootBuildPriorityPlan for a table and an order; it is refused if a row
\* that must be preserved has priority zero.
BuildPriorityPlan(table, o) ==
  /\ sel \in Eligible(table, sel, o)
  /\ planned' = Plan(table, sel, o)
  /\ \A i \in Index \ {sel} : planned'[i] # 0
  /\ expected' = Priorities(table)

\* LegacyBootBootTargetPrepare.
Prepare ==
  /\ pc = "discovered"
  /\ \/ /\ journal' = snapshot
        /\ order' \in Captures(raw, snapshot) /\ copy' = raw
        /\ BuildPriorityPlan(snapshot, order')
        /\ pc' = "prepared"
     \/ pc' = "failed" /\ UNCHANGED <<journal, order, copy, planned, expected>>
  /\ UNCHANGED <<firmware, sel, snapshot, complete, state, loops, ghosts>>

\* LegacyBootBootTargetRelease, after a failure or a countdown that was
\* cancelled; the next attempt starts with an empty context.
Release ==
  /\ pc \in {"failed", "prepared"} /\ ~dirty /\ writes = <<>>
  /\ pc' = "idle"
  /\ sel' = 0 /\ snapshot' = Blank /\ journal' = Blank /\ order' = Fallback /\ copy' = NoOrder
  /\ planned' = Zeros /\ expected' = Zeros /\ complete' = FALSE
  /\ UNCHANGED <<firmware, state, loops, ghosts>>

-----------------------------------------------------------------------------
(* After the ROM dispatch: journal.                                        *)

OrderUnchanged == order.usable => raw = copy

\* Mutant: the table is journaled as it is now, without the comparison.
JournalBeginUnbound ==
  /\ pc = "prepared"
  /\ \/ /\ journal' = live
        /\ order' = order /\ copy' = copy
        /\ planned' = planned /\ expected' = Priorities(live)
        /\ pc' = "journaling"
     \/ pc' = "halted" /\ UNCHANGED <<journal, order, copy, planned, expected>>
  /\ UNCHANGED <<firmware, sel, snapshot, complete, state, loops, ghosts>>

\* LegacyBootBootTargetJournalAndValidate up to the flush: the table must still
\* be the one that was discovered; an order that was not usable is captured
\* again.  After a failure the rollback refuses (no journal) and all halts.
JournalBegin ==
  /\ pc = "prepared"
  /\ \/ /\ live = snapshot /\ journal' = live
        /\ IF order.usable THEN OrderUnchanged /\ UNCHANGED <<order, copy>>
           ELSE order' \in Captures(raw, live) /\ copy' = raw
        /\ BuildPriorityPlan(live, order')
        /\ pc' = "journaling"
     \/ pc' = "halted" /\ UNCHANGED <<journal, order, copy, planned, expected>>
  /\ UNCHANGED <<firmware, sel, snapshot, complete, state, loops, ghosts>>

\* The rereads after the flush.
JournalEnd ==
  /\ pc = "journaling"
  /\ \/ /\ live = journal /\ OrderUnchanged
        /\ complete' = TRUE /\ meddled' = {} /\ late' = {} /\ pc' = "journaled"
     \/ pc' = "halted" /\ UNCHANGED <<complete, meddled, late>>
  /\ UNCHANGED <<firmware, sel, snapshot, journal, order, copy, planned, expected,
                 state, loops, meddles, ignored>>

-----------------------------------------------------------------------------
(* LegacyBootBootPriorityApply.                                            *)

\* LegacyBootVerifyLiveAgainstPriorities.
Intact(table, priorities) ==
  \A i \in Index : table[i] = [pri |-> priorities[i], what |-> journal[i].what]

\* ValidateOriginal; nothing has been written, so a failure only goes to the
\* caller, which asks for a rollback and halts.
ApplyBegin ==
  /\ pc = "journaled"
  /\ \/ /\ Intact(live, expected) /\ OrderUnchanged
        /\ phase' = 1 /\ at' = 0 /\ late' = {} /\ pc' = "write"
     \/ pc' = "abort" /\ UNCHANGED <<phase, at, late>>
  /\ UNCHANGED <<firmware, context, state, try, hist, good, meddles, meddled, ignored>>

Rows == Eligible(journal, sel, order)

\* The row the loops are at (none, if phase 2 finds no row with a priority),
\* and what is to be written there.
Wanted == IF phase = 1 THEN Rows \cap {at} ELSE {i \in Rows : planned[i] = at}
Requested == IF phase = 1 THEN Unprioritized ELSE at

\* The loops have a round to go for the row or the priority they are at.
Looping == IF phase = 1 THEN at \in Rows ELSE at < Cardinality(Rows)

\* The row is as the transaction left it.
AsExpected(i) == live[i] = [pri |-> expected[i], what |-> journal[i].what]

\* Mutant: the loop does not stop at the end of the table.
WriteSkipPast ==
  /\ pc = "write"
  /\ \/ /\ phase = 1 /\ at <= Count /\ at \notin Rows
        /\ at' = at + 1 /\ UNCHANGED phase
     \/ /\ Looping /\ \E i \in Wanted : AsExpected(i) /\ expected[i] = Requested
        /\ at' = at + 1 /\ UNCHANGED phase
     \/ /\ phase = 1 /\ at = Count
        /\ phase' = 2 /\ at' = 0
  /\ UNCHANGED <<pc, firmware, context, state, try, hist, good, ghosts>>

\* A loop's next round when there is nothing to write: a protected row, or a
\* row that has the value already; the end of the first loop.
WriteSkip ==
  /\ pc = "write"
  /\ \/ /\ phase = 1 /\ at < Count /\ at \notin Rows
        /\ at' = at + 1 /\ UNCHANGED phase
     \/ /\ Looping /\ \E i \in Wanted : AsExpected(i) /\ expected[i] = Requested
        /\ at' = at + 1 /\ UNCHANGED phase
     \/ /\ phase = 1 /\ at = Count
        /\ phase' = 2 /\ at' = 0
  /\ UNCHANGED <<pc, firmware, context, state, try, hist, good, ghosts>>

\* LegacyBootWritePriority up to the flushed intent: a row that is not as
\* expected, a priority without a row, or a failing log begin the rollback.
WriteIntent ==
  /\ pc = "write" /\ Looping
  /\ ~\E i \in Wanted : AsExpected(i) /\ expected[i] = Requested
  /\ \/ (\E i \in Wanted : AsExpected(i)) /\ pc' = "intent"
     \/ pc' = "undo"
  /\ UNCHANGED <<firmware, context, state, loops, ghosts>>

\* Mutant: the write is recorded only if the readback agrees.
WritePriorityLate ==
  /\ pc = "intent"
  /\ \E i \in Wanted :
       \/ /\ AsExpected(i) /\ dirty' = TRUE
          /\ writes' = Append(writes, [index |-> i, old |-> expected[i], new |-> Requested])
          /\ live' = [live EXCEPT ![i].pri = Requested]
          /\ expected' = [expected EXCEPT ![i] = Requested] /\ pc' = "verify"
       \/ /\ AsExpected(i) /\ live' = [live EXCEPT ![i].pri = Requested] /\ pc' = "undo"
          /\ UNCHANGED <<expected, dirty, writes>>
       \/ ~AsExpected(i) /\ pc' = "undo" /\ UNCHANGED <<live, expected, dirty, writes>>
  /\ UNCHANGED <<raw, sel, snapshot, journal, order, copy, planned, complete, applied, loops, ghosts>>

\* The second reread, the record, the write itself and its readback.
WritePriority ==
  /\ pc = "intent"
  /\ \E i \in Wanted :
       \/ /\ AsExpected(i) /\ dirty' = TRUE
          /\ writes' = Append(writes, [index |-> i, old |-> expected[i], new |-> Requested])
          /\ \/ /\ live' = [live EXCEPT ![i].pri = Requested]
                /\ expected' = [expected EXCEPT ![i] = Requested] /\ pc' = "verify"
             \/ UNCHANGED <<live, expected>> /\ pc' = "undo"
       \/ ~AsExpected(i) /\ pc' = "undo" /\ UNCHANGED <<live, expected, dirty, writes>>
  /\ UNCHANGED <<raw, sel, snapshot, journal, order, copy, planned, complete, applied, loops, ghosts>>

\* The whole table is verified after every write.
WriteVerify ==
  /\ pc = "verify"
  /\ \/ Intact(live, expected) /\ at' = at + 1 /\ late' = {} /\ pc' = "write"
     \/ pc' = "undo" /\ UNCHANGED <<at, late>>
  /\ UNCHANGED <<firmware, context, state, phase, try, hist, good, meddles, meddled, ignored>>

ApplyEnd ==
  /\ pc = "write" /\ phase = 2 /\ at = Cardinality(Rows)
  /\ applied' = TRUE /\ pc' = "applied"
  /\ UNCHANGED <<firmware, context, dirty, writes, loops, ghosts>>

OnlyZero == \A i \in Index : planned[i] = 0 <=> i = sel

\* Mutant: the second validation looks at the bookkeeping only.
ValidateAppliedBlind ==
  /\ pc \in {"applied", "validated"}
  /\ \/ /\ OnlyZero /\ late' = {}
        /\ pc' = IF pc = "applied" THEN "validated" ELSE "complete"
        /\ UNCHANGED try
     \/ pc' = "undo" /\ try' = (IF pc = "applied" THEN 1 ELSE 2) /\ UNCHANGED late
  /\ UNCHANGED <<firmware, context, state, phase, at, hist, good, meddles, meddled, ignored>>

\* ValidateApplied: at the end of the transaction, and again by its caller.
ValidateApplied ==
  /\ pc \in {"applied", "validated"}
  /\ \/ /\ complete /\ applied /\ dirty
        /\ OrderUnchanged /\ Intact(live, planned) /\ OnlyZero /\ late' = {}
        /\ pc' = IF pc = "applied" THEN "validated" ELSE "complete"
        /\ UNCHANGED try
     \/ pc' = "undo" /\ try' = (IF pc = "applied" THEN 1 ELSE 2) /\ UNCHANGED late
  /\ UNCHANGED <<firmware, context, state, phase, at, hist, good, meddles, meddled, ignored>>

\* GetLegacyBootArguments and the final log commit: boot, or halt for good.
BootArguments ==
  /\ pc = "complete" /\ complete /\ applied /\ dirty
  /\ pc' \in {"booting", "stopped"}
  /\ UNCHANGED <<firmware, context, state, loops, ghosts>>

-----------------------------------------------------------------------------
(* LegacyBootRollbackInternal.                                             *)

RollbackExit == IF try = 1 THEN "abort" ELSE "halted"

\* The failure label of Apply, or the caller: without a write there is nothing
\* to undo; with an unusable memory range nothing can be.
RollbackBegin ==
  /\ pc = "undo"
  /\ \/ /\ ~dirty /\ writes = <<>> /\ pc' = RollbackExit
        /\ UNCHANGED <<hist, good, ignored>>
     \/ /\ dirty \/ writes # <<>>
        /\ \/ pc' = "back" /\ hist' = Len(writes) /\ good' \in BOOLEAN /\ ignored' = FALSE
           \/ pc' = RollbackExit /\ ignored' = TRUE /\ UNCHANGED <<hist, good>>
  /\ UNCHANGED <<firmware, context, state, phase, at, try, meddles, meddled, late>>

Record == writes[hist]

SameRow == live[Record.index].what = journal[Record.index].what

\* A row whose identity changed is not touched; the others still are.
RollbackIntent ==
  /\ pc = "back" /\ hist > 0
  /\ \/ SameRow /\ pc' = "restore" /\ good' \in {good, FALSE} /\ UNCHANGED hist
     \/ ~SameRow /\ good' = FALSE /\ hist' = hist - 1 /\ pc' = pc
  /\ UNCHANGED <<firmware, context, state, phase, at, try, ghosts>>

\* Mutant: a failed log write ends the rollback.
RollbackWriteLogged ==
  /\ pc = "restore"
  /\ \/ /\ SameRow /\ good
        /\ live' = [live EXCEPT ![Record.index].pri = Record.old]
        /\ expected' = [expected EXCEPT ![Record.index] = Record.old]
        /\ good' \in {FALSE, good /\ Intact(live', expected')}
        /\ hist' = hist - 1 /\ UNCHANGED ignored
     \/ ~good /\ hist' = 0 /\ UNCHANGED <<live, expected, good, ignored>>
  /\ pc' = "back"
  /\ UNCHANGED <<raw, sel, snapshot, journal, order, copy, planned, complete, state,
                 phase, at, try, meddles, meddled, late>>

\* The second look, the write and its readback, and the whole table.
RollbackWrite ==
  /\ pc = "restore"
  /\ \/ /\ SameRow
        /\ live' = [live EXCEPT ![Record.index].pri = Record.old]
        /\ expected' = [expected EXCEPT ![Record.index] = Record.old]
        /\ good' \in {FALSE, good /\ Intact(live', expected')}
        /\ UNCHANGED ignored
     \/ /\ SameRow /\ live[Record.index].pri # Record.old
        /\ good' = FALSE /\ ignored' = TRUE /\ UNCHANGED <<live, expected>>
     \/ ~SameRow /\ good' = FALSE /\ UNCHANGED <<live, expected, ignored>>
  /\ hist' = hist - 1 /\ pc' = "back"
  /\ UNCHANGED <<raw, sel, snapshot, journal, order, copy, planned, complete, state,
                 phase, at, try, meddles, meddled, late>>

\* Mutant: the rollback is believed without comparing the table.
RollbackEndTrusting ==
  /\ pc = "back" /\ hist = 0
  /\ dirty' = FALSE /\ applied' = FALSE /\ writes' = <<>> /\ pc' = RollbackExit
  /\ UNCHANGED <<firmware, context, loops, ghosts>>

\* Only an exact table clears the transaction.
RollbackEnd ==
  /\ pc = "back" /\ hist = 0
  /\ \/ /\ good /\ Intact(live, expected) /\ live = journal
        /\ dirty' = FALSE /\ applied' = FALSE /\ writes' = <<>>
     \/ UNCHANGED state
  /\ pc' = RollbackExit
  /\ UNCHANGED <<firmware, context, loops, ghosts>>

\* LegacyBootBootPriorityRollback as NativeCsmVgaBootRun calls it after any
\* failure, also after a rollback that Apply made; then the halt.
Abort ==
  /\ pc = "abort"
  /\ try' = 2
  /\ pc' = IF dirty \/ writes # <<>> THEN "undo" ELSE "halted"
  /\ UNCHANGED <<firmware, context, state, phase, at, hist, good, ghosts>>

Ended == {"halted", "stopped", "booting"}

\* The firmware changes a row, or its ordering variable.
Meddle ==
  /\ pc \notin Ended /\ meddles > 0
  /\ meddles' = meddles - 1
  /\ \/ \E i \in Index, r \in Oddities :
          /\ live' = [live EXCEPT ![i] = r]
          /\ meddled' = meddled \cup {i} /\ late' = late \cup {i}
          /\ UNCHANGED raw
     \/ raw' \in Orders /\ UNCHANGED <<live, meddled, late>>
  /\ UNCHANGED <<pc, context, state, loops, ignored>>

Terminated == pc \in Ended /\ UNCHANGED vars

-----------------------------------------------------------------------------

Next ==
  \/ Discover \/ Prepare \/ Release \/ JournalBegin \/ JournalEnd
  \/ ApplyBegin \/ WriteSkip \/ WriteIntent \/ WritePriority \/ WriteVerify \/ ApplyEnd
  \/ ValidateApplied \/ BootArguments
  \/ RollbackBegin \/ RollbackIntent \/ RollbackWrite \/ RollbackEnd \/ Abort
  \/ Meddle \/ Terminated

Spec == Init /\ [][Next]_vars

-----------------------------------------------------------------------------
(* Properties.                                                             *)

Labels ==
  {"idle", "discovered", "prepared", "failed", "journaling", "journaled", "write", "intent",
   "verify", "applied", "validated", "complete", "undo", "back", "restore", "abort"} \cup Ended

\* The history of writes fits into LEGACY_BOOT_BOOT_TARGET_MAX_PRIORITY_WRITES
\* (twice the rows): its limit needs no step of its own.
TypeOK ==
  /\ pc \in Labels
  /\ live \in Table /\ snapshot \in Table /\ journal \in Table
  /\ raw \in Orders /\ copy \in Orders \cup {NoOrder}
  /\ sel \in Index
  /\ order \in OrderType
  /\ planned \in [Index -> Priority] /\ expected \in [Index -> Priority]
  /\ complete \in BOOLEAN /\ dirty \in BOOLEAN /\ applied \in BOOLEAN
  /\ writes \in Seq(Write) /\ Len(writes) <= 2 * Count
  /\ phase \in {1, 2} /\ at \in 0 .. Count /\ try \in {1, 2}
  /\ hist \in 0 .. Len(writes) /\ good \in BOOLEAN
  /\ meddles \in 0 .. MaxMeddles
  /\ meddled \subseteq Index /\ late \subseteq Index /\ ignored \in BOOLEAN

\* "selected disk is the one and only BootPriority 0 entry": when the table is
\* handed to LegacyBoot, every row that the firmware did not touch since the
\* last validation has its planned priority and its journaled identity, and
\* zero is the selected disk's alone.
BootsSelected ==
  pc \in {"complete", "booting"} =>
    \A i \in Index \ late :
      /\ live[i] = [pri |-> planned[i], what |-> snapshot[i].what]
      /\ live[i].pri = 0 <=> i = sel

\* "Rollback must proceed even if its logging sink failed", and past rows it
\* has to refuse: if the writes of the last rollback took effect, every row
\* the firmware left alone has its original priority when the program halts,
\* also after an earlier rollback failed half-way.
RollbackReaches ==
  pc = "halted" /\ complete /\ ~ignored =>
    \A i \in Index \ meddled : live[i] = journal[i]

\* Only BootPriority of an eligible row may change, only with a complete journal,
\* never in a row whose identity changed, and never unrecorded.
AuthorizedWrites ==
  [][ \A i \in Index : live'[i] # live[i] /\ meddles' = meddles =>
        /\ complete /\ i \in Rows
        /\ live[i].what = journal[i].what /\ live'[i].what = live[i].what
        /\ dirty' /\ \E k \in 1 .. Len(writes') : writes'[k].index = i ]_vars

(* The contract of the reordering: how its state is seen from outside.      *)

Stage ==
  IF pc = "booting" THEN "boot"
  ELSE IF pc \in {"halted", "stopped"} THEN "halt"
  ELSE IF dirty THEN "changing" ELSE "clean"

\* Until the journal is complete the program has nothing to return to or to
\* reach, and every change is the firmware's.
Original == IF complete THEN journal ELSE live
Goal ==
  IF complete THEN [i \in Index |-> [pri |-> planned[i], what |-> journal[i].what]] ELSE live
Foreign == IF complete THEN meddled ELSE {}

Contract == INSTANCE ReorderContract WITH
  stage <- Stage, table <- live, fixed <- complete, original <- Original, goal <- Goal,
  foreign <- Foreign, refused <- ignored

\* "every journaled byte matches its original value", or every one its planned
\* value: the transaction implements ReorderContract.  It counts as clean (a
\* release would be allowed) only if the program has left no trace in the table,
\* and it ends with the planned table, with the original one, or because the
\* firmware refused to take a priority back.
ReorderIsAtomic == Contract!Spec

=============================================================================
