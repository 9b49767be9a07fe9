------------------------ MODULE BbsTransactionProofs ------------------------
(***************************************************************************)
(* Proofs that the change of the boot table is complete or undone, for     *)
(* every table, every order variable and any interference by the firmware. *)
(***************************************************************************)
EXTENDS BbsTransaction, FiniteSetTheorems, TLAPS

-----------------------------------------------------------------------------
(* Types of the policy's operators.                                        *)

LEMMA NumberFacts == MaxUint16 \in Nat /\ MaxUint16 > 256
BY DEF MaxUint16

LEMMA IndexFacts ==
  /\ Index \subseteq Nat /\ IsFiniteSet(Index) /\ Cardinality(Index) = Count
  /\ Count \in Nat /\ Count >= 1 /\ Count <= 256
<1>1. Count \in Nat /\ Count >= 1 /\ Count <= 256
  BY CountAssumption
<1>2. IsFiniteSet(0 .. Count - 1) /\ Cardinality(0 .. Count - 1) = Count
  BY <1>1, FS_Interval
<1> QED BY <1>1, <1>2 DEF Index

\* A variable that names no row twice has at most as many entries as there are
\* rows.
LEMMA FitsBound ==
  ASSUME NEW r \in Seq(Entry), NEW t, Fits(r, t)
  PROVE  Len(r) <= Count
<1> DEFINE f == [k \in 1 .. Len(r) |-> r[k].index]
<1>1. Len(r) \in Nat
  OBVIOUS
<1>2. f \in [1 .. Len(r) -> Index]
  BY DEF Fits
<1>3. IsFiniteSet(1 .. Len(r)) /\ Cardinality(1 .. Len(r)) = Len(r)
  BY <1>1, FS_Interval, SMTT(30)
<1>4. \A x, y \in 1 .. Len(r) : f[x] = f[y] => x = y
  BY DEF Fits
<1> HIDE DEF f
<1>5. ~(Cardinality(Index) < Cardinality(1 .. Len(r)))
  <2>1. SUFFICES ASSUME Cardinality(Index) < Cardinality(1 .. Len(r)) PROVE FALSE
    OBVIOUS
  <2>2. \E x, y \in 1 .. Len(r) : x # y /\ f[x] = f[y]
    BY <1>2, <1>3, <2>1, IndexFacts, FS_PigeonHole
  <2> QED BY <2>2, <1>4
<1> QED BY <1>1, <1>3, <1>5, IndexFacts

LEMMA CapturedType ==
  ASSUME NEW r \in Seq(Entry), NEW t \in Table, Fits(r, t)
  PROVE  Captured(r) \in OrderType
<1> DEFINE rank == Captured(r).rank
<1>1. \A i \in Index : Names(r, i) =>
        \E k \in 1 .. Len(r) : rank[i] = k - 1
  BY DEF Captured, Names
<1>2. Len(r) \in Nat /\ Len(r) <= 256
  BY FitsBound, IndexFacts
<1>3. \A i \in Index : ~Names(r, i) => rank[i] = MaxUint16
  BY DEF Captured
<1>4. rank = [i \in Index |-> rank[i]]
  BY DEF Captured
<1>5. rank \in [Index -> 0 .. MaxUint16] => Captured(r) \in OrderType
  BY DEF Captured, OrderType
<1> HIDE DEF rank
<1>6. ASSUME NEW i \in Index PROVE rank[i] \in 0 .. MaxUint16
  <2>1. CASE Names(r, i)
    BY <1>1, <1>2, <2>1, NumberFacts
  <2>2. CASE ~Names(r, i)
    BY <1>3, <2>2, NumberFacts
  <2> QED BY <2>1, <2>2
<1> QED BY <1>4, <1>5, <1>6

LEMMA FallbackType == Fallback \in OrderType /\ ~Fallback.usable
BY NumberFacts DEF Fallback, OrderType

LEMMA CapturesType ==
  ASSUME NEW r \in Seq(Entry) \cup {NoOrder}, NEW t \in Table, NEW o \in Captures(r, t)
  PROVE  o \in OrderType
<1>1. CASE o = Fallback
  BY <1>1, FallbackType
<1>2. CASE r # NoOrder /\ Fits(r, t) /\ o = Captured(r)
  BY <1>2, CapturedType
<1> QED BY <1>1, <1>2 DEF Captures

\* The ranking consists of 16-bit numbers.
LEMMA PlanType ==
  ASSUME NEW t \in Table, NEW s \in Index, NEW o \in OrderType
  PROVE  Plan(t, s, o) \in [Index -> Priority]
<1>1. ASSUME NEW D, D \subseteq Index PROVE Cardinality(D) \in Priority
  <2>1. Cardinality(D) \in Nat /\ Cardinality(D) <= Count
    BY <1>1, IndexFacts, FS_Subset, FS_CardinalityType
  <2> QED BY <2>1, IndexFacts, NumberFacts DEF Priority
<1>2. \A i : {j \in Eligible(t, s, o) : Ahead(t, s, o, j, i)} \subseteq Index
  BY DEF Eligible
<1>3. \A i : Cardinality({j \in Eligible(t, s, o) : Ahead(t, s, o, j, i)}) \in Priority
  BY <1>1, <1>2
<1>4. \A i \in Index : t[i].pri \in Priority
  BY DEF Table, Row
<1> QED BY <1>3, <1>4 DEF Plan

-----------------------------------------------------------------------------
(* The inductive invariant of the transaction.                             *)

Early   == {"idle", "discovered", "prepared", "failed", "journaling"}
Forward == {"journaled", "write", "intent", "verify"}

Recorded(i) == \E k \in 1 .. Len(writes) : writes[k].index = i

\* Record k is the oldest one of its row.
Oldest(k) == \A l \in 1 .. k - 1 : writes[l].index # writes[k].index

ControlInv ==
  /\ pc \in Early => ~complete
  /\ pc \notin Early \cup {"halted"} => complete
  /\ ~complete => ~dirty
  /\ ~dirty => writes = <<>>
  /\ pc = "journaled" => ~dirty
  /\ pc \in {"back", "restore"} => dirty
  /\ pc = "restore" => hist > 0

\* How many writes there can be at each place of the loops.
Passed == IF phase = 1 THEN at ELSE Count + at

BoundInv ==
  /\ pc \in {"write", "intent"} => Len(writes) <= Passed
  /\ pc = "verify" => Len(writes) <= Passed + 1
  /\ pc \in {"intent", "verify"} => at < Count

\* The journal is the table that was discovered.
JournalInv ==
  /\ pc = "journaling" \/ complete => journal = snapshot
  /\ pc = "journaling" => \A i \in Index : expected[i] = journal[i].pri

\* Every write is of an eligible row; the oldest record of a row has its
\* original priority; a row without a record is as it was.
HistoryInv ==
  complete =>
    /\ \A k \in 1 .. Len(writes) : writes[k].index \in Rows
    /\ \A k \in 1 .. Len(writes) : Oldest(k) => writes[k].old = journal[writes[k].index].pri
    /\ pc \in Forward => \A i \in Index : ~Recorded(i) => expected[i] = journal[i].pri
    /\ \A i \in Index \ meddled : live[i].what = journal[i].what
    /\ \A i \in Index \ meddled : ~Recorded(i) => live[i] = journal[i]

\* A rollback in progress has restored the rows it will not come back to.
RollbackInv ==
  /\ pc \in {"back", "restore"} /\ ~ignored =>
       \A i \in Index \ meddled :
         (\A k \in 1 .. hist : writes[k].index # i) => live[i] = journal[i]
  /\ pc = "halted" /\ complete /\ ~ignored =>
       \A i \in Index \ meddled : live[i] = journal[i]

ValidInv ==
  pc \in {"validated", "complete", "booting"} =>
    /\ OnlyZero
    /\ \A i \in Index \ late : live[i] = [pri |-> planned[i], what |-> journal[i].what]

TransactionInv ==
  /\ TypeOK /\ ControlInv /\ BoundInv /\ JournalInv
  /\ HistoryInv /\ RollbackInv /\ ValidInv

-----------------------------------------------------------------------------
(* What the parts depend on.                                               *)

LEMMA SameRows ==
  ASSUME UNCHANGED <<sel, journal, order>>
  PROVE  Rows' = Rows
BY DEF Rows, Eligible, BbsIndexIsTransactionEligible

LEMMA RowsFacts == Rows \subseteq Index /\ Cardinality(Rows) \in Nat /\ Cardinality(Rows) <= Count
<1>1. Rows \subseteq Index
  BY DEF Rows, Eligible
<1> QED BY <1>1, IndexFacts, FS_Subset, FS_CardinalityType

LEMMA HistoryFrame ==
  ASSUME HistoryInv, UNCHANGED <<complete, writes, sel, journal, order, expected, live, meddled>>,
         pc' \in Forward => pc \in Forward
  PROVE  HistoryInv'
BY SameRows DEF HistoryInv, Recorded, Oldest

\* As long as there is no complete journal, nothing has been written.
LEMMA EarlyParts ==
  ASSUME ~complete', ~dirty', writes' = <<>>, pc' \in Early \cup {"halted"},
         pc' = "journaling" =>
           journal' = snapshot' /\ \A i \in Index : expected'[i] = journal'[i].pri
  PROVE  ControlInv' /\ BoundInv' /\ JournalInv' /\ HistoryInv' /\ RollbackInv' /\ ValidInv'
<1>1. pc' \notin Forward \cup {"back", "restore", "validated", "complete", "booting"}
  BY DEF Early, Forward
<1> QED BY <1>1 DEF ControlInv, BoundInv, JournalInv, HistoryInv, RollbackInv, ValidInv, Early,
                    Forward

\* After that the journal and what follows from it stay.
LEMMA LateParts ==
  ASSUME TransactionInv, complete, pc' \notin Early,
         UNCHANGED <<sel, snapshot, journal, order, complete>>
  PROVE  JournalInv' /\ Rows' = Rows
BY SameRows DEF TransactionInv, JournalInv, Early

LEMMA InitStep == Init => TransactionInv
<1>1. SUFFICES ASSUME Init PROVE TransactionInv
  OBVIOUS
<1>2. TypeOK
  <2>1. 0 \in Index /\ 0 \in Priority /\ 0 \in 0 .. Count
    BY IndexFacts, NumberFacts DEF Index, Priority
  <2>2. snapshot \in Table /\ journal \in Table
    BY <1>1, <2>1 DEF Init, Blank, Table, Row, Kind
  <2>3. planned \in [Index -> Priority] /\ expected \in [Index -> Priority]
    BY <1>1, <2>1 DEF Init, Zeros
  <2>4. order \in OrderType
    BY <1>1, FallbackType DEF Init
  <2>5. writes \in Seq(Write) /\ Len(writes) = 0 /\ Len(writes) <= 2 * Count
    BY <1>1, IndexFacts DEF Init
  <2>6. meddles \in 0 .. MaxMeddles
    BY <1>1, TransactionAssumption DEF Init
  <2>7. complete \in BOOLEAN /\ dirty \in BOOLEAN /\ applied \in BOOLEAN /\ good \in BOOLEAN
        /\ ignored \in BOOLEAN
    BY <1>1, Zenon DEF Init
  <2> QED BY <1>1, <2>1, <2>2, <2>3, <2>4, <2>5, <2>6, <2>7, TransactionAssumption
          DEF Init, TypeOK, Labels
<1>3. pc = "idle" /\ ~complete /\ ~dirty /\ writes = <<>>
  BY <1>1 DEF Init
<1> QED BY <1>2, <1>3 DEF TransactionInv, ControlInv, BoundInv, JournalInv, HistoryInv,
                          RollbackInv, ValidInv, Early
-----------------------------------------------------------------------------
(* One lemma per action.                                                   *)

LEMMA DiscoverStep == ASSUME TransactionInv, Discover PROVE TransactionInv'
<1>0. /\ TypeOK /\ ~complete /\ ~dirty /\ writes = <<>>
      /\ UNCHANGED <<live, raw, journal, order, copy, planned, expected, complete, dirty, applied,
                     writes, phase, at, try, hist, good, meddles, meddled, late, ignored>>
      /\ pc' \in {"discovered", "failed"}
      /\ sel' \in Index /\ snapshot' \in {live, snapshot}
  BY DEF Discover, TransactionInv, TypeOK, ControlInv, firmware, state, loops, ghosts, Early
<1>1. TypeOK'
  BY <1>0 DEF TypeOK, Labels
<1> QED BY <1>0, <1>1, EarlyParts DEF TransactionInv, Early

\* What the planning leaves behind is well typed.
LEMMA PlanningType ==
  ASSUME TypeOK, NEW t \in Table, NEW o \in OrderType, BuildPriorityPlan(t, o)
  PROVE  /\ planned' \in [Index -> Priority] /\ expected' \in [Index -> Priority]
         /\ \A i \in Index : expected'[i] = t[i].pri
<1>1. planned' \in [Index -> Priority]
  BY PlanType DEF BuildPriorityPlan, TypeOK
<1>2. \A i \in Index : t[i].pri \in Priority
  BY DEF Table, Row
<1> QED BY <1>1, <1>2 DEF BuildPriorityPlan, Priorities

LEMMA PrepareStep == ASSUME TransactionInv, Prepare PROVE TransactionInv'
<1>0. /\ TypeOK /\ ~complete /\ ~dirty /\ writes = <<>>
      /\ UNCHANGED <<live, raw, sel, snapshot, complete, dirty, applied,
                     writes, phase, at, try, hist, good, meddles, meddled, late, ignored>>
      /\ pc' \in {"prepared", "failed"}
  BY DEF Prepare, TransactionInv, ControlInv, firmware, state, loops, ghosts, Early
<1>1. /\ journal' \in Table /\ order' \in OrderType /\ copy' \in Orders \cup {NoOrder}
      /\ planned' \in [Index -> Priority] /\ expected' \in [Index -> Priority]
  <2>1. CASE UNCHANGED <<journal, order, copy, planned, expected>>
    BY <1>0, <2>1 DEF TypeOK
  <2>2. CASE /\ journal' = snapshot /\ order' \in Captures(raw, snapshot) /\ copy' = raw
             /\ BuildPriorityPlan(snapshot, order')
    <3>1. snapshot \in Table /\ raw \in Orders /\ raw \in Seq(Entry) \cup {NoOrder}
      BY <1>0, TransactionAssumption DEF TypeOK
    <3>2. order' \in OrderType
      BY <2>2, <3>1, CapturesType
    <3> QED BY <1>0, <2>2, <3>1, <3>2, PlanningType
  <2> QED BY <2>1, <2>2 DEF Prepare
<1>2. TypeOK'
  BY <1>0, <1>1 DEF TypeOK, Labels
<1> QED BY <1>0, <1>2, EarlyParts DEF TransactionInv, Early

LEMMA ReleaseStep == ASSUME TransactionInv, Release PROVE TransactionInv'
<1>0. /\ TypeOK /\ ~dirty /\ writes = <<>> /\ pc' = "idle" /\ complete' = FALSE
      /\ UNCHANGED <<live, raw, dirty, applied,
                     writes, phase, at, try, hist, good, meddles, meddled, late, ignored>>
      /\ sel' = 0 /\ snapshot' = Blank /\ journal' = Blank /\ order' = Fallback /\ copy' = NoOrder
      /\ planned' = Zeros /\ expected' = Zeros
  BY DEF Release, TransactionInv, firmware, state, loops, ghosts
<1>1. TypeOK'
  <2>1. 0 \in Index /\ 0 \in Priority
    BY IndexFacts, NumberFacts DEF Index, Priority
  <2>2. Blank \in Table /\ Zeros \in [Index -> Priority] /\ Fallback \in OrderType
    BY <2>1, FallbackType DEF Blank, Zeros, Table, Row, Kind
  <2>3. complete' \in BOOLEAN
    BY <1>0, Zenon
  <2> QED BY <1>0, <2>1, <2>2, <2>3 DEF TypeOK, Labels
<1> QED BY <1>0, <1>1, EarlyParts DEF TransactionInv, Early

LEMMA JournalBeginStep == ASSUME TransactionInv, JournalBegin PROVE TransactionInv'
<1>0. /\ TypeOK /\ ~complete /\ ~dirty /\ writes = <<>>
      /\ UNCHANGED <<live, raw, sel, snapshot, complete, dirty, applied,
                     writes, phase, at, try, hist, good, meddles, meddled, late, ignored>>
  BY DEF JournalBegin, TransactionInv, ControlInv, firmware, state, loops, ghosts, Early
<1>1. CASE pc' = "halted" /\ UNCHANGED <<journal, order, copy, planned, expected>>
  <2>1. TypeOK'
    BY <1>0, <1>1 DEF TypeOK, Labels, Ended
  <2> QED BY <1>0, <1>1, <2>1, EarlyParts DEF TransactionInv
<1>2. CASE /\ live = snapshot /\ journal' = live
           /\ IF order.usable THEN OrderUnchanged /\ UNCHANGED <<order, copy>>
              ELSE order' \in Captures(raw, live) /\ copy' = raw
           /\ BuildPriorityPlan(live, order')
           /\ pc' = "journaling"
  <2>1. live \in Table /\ raw \in Orders /\ raw \in Seq(Entry) \cup {NoOrder}
    BY <1>0, TransactionAssumption DEF TypeOK
  <2>2. order' \in OrderType /\ copy' \in Orders \cup {NoOrder}
    BY <1>0, <1>2, <2>1, CapturesType DEF TypeOK
  <2>3. /\ planned' \in [Index -> Priority] /\ expected' \in [Index -> Priority]
        /\ \A i \in Index : expected'[i] = journal'[i].pri
    BY <1>0, <1>2, <2>1, <2>2, PlanningType
  <2>4. TypeOK'
    BY <1>0, <1>2, <2>1, <2>2, <2>3 DEF TypeOK, Labels
  <2>5. journal' = snapshot'
    BY <1>0, <1>2
  <2> QED BY <1>0, <1>2, <2>3, <2>4, <2>5, EarlyParts DEF TransactionInv, Early
<1> QED BY <1>1, <1>2 DEF JournalBegin

LEMMA JournalEndStep == ASSUME TransactionInv, JournalEnd PROVE TransactionInv'
<1>0. /\ TypeOK /\ ~complete /\ ~dirty /\ writes = <<>>
      /\ journal = snapshot /\ \A i \in Index : expected[i] = journal[i].pri
      /\ UNCHANGED <<live, raw, sel, snapshot, journal, order, copy, planned, expected, dirty,
                     applied, writes, phase, at, try, hist, good, meddles, ignored>>
  BY DEF JournalEnd, TransactionInv, ControlInv, JournalInv, firmware, state, loops, Early
<1>1. CASE pc' = "halted" /\ UNCHANGED <<complete, meddled, late>>
  <2>1. TypeOK'
    BY <1>0, <1>1 DEF TypeOK, Labels, Ended
  <2> QED BY <1>0, <1>1, <2>1, EarlyParts DEF TransactionInv
<1>2. CASE live = journal /\ complete' = TRUE /\ meddled' = {} /\ late' = {} /\ pc' = "journaled"
  <2>1. TypeOK'
    <3>1. complete' \in BOOLEAN
      BY <1>2, Zenon
    <3> QED BY <1>0, <1>2, <3>1 DEF TypeOK, Labels
  <2>2. ControlInv' /\ BoundInv' /\ JournalInv' /\ RollbackInv' /\ ValidInv'
    BY <1>0, <1>2 DEF ControlInv, BoundInv, JournalInv, RollbackInv, ValidInv, Early
  <2>3. HistoryInv'
    BY <1>0, <1>2 DEF HistoryInv, Recorded, Forward
  <2> QED BY <2>1, <2>2, <2>3 DEF TransactionInv
<1> QED BY <1>1, <1>2 DEF JournalEnd

LEMMA ApplyBeginStep == ASSUME TransactionInv, ApplyBegin PROVE TransactionInv'
<1>0. /\ TypeOK /\ complete /\ ~dirty /\ writes = <<>> /\ pc = "journaled" /\ HistoryInv
      /\ UNCHANGED <<live, raw, sel, snapshot, journal, order, copy, planned, expected, complete,
                     dirty, applied, writes, try, hist, good, meddles, meddled, ignored>>
      /\ \/ pc' = "write" /\ phase' = 1 /\ at' = 0 /\ late' = {}
         \/ pc' = "abort" /\ UNCHANGED <<phase, at, late>>
  BY DEF ApplyBegin, TransactionInv, ControlInv, firmware, context, state, Early
<1>1. TypeOK'
  <2>1. at' \in 0 .. Count
    <3>1. at \in 0 .. Count /\ 0 \in 0 .. Count /\ (at < Count => at + 1 \in 0 .. Count)
      BY <1>0, IndexFacts DEF TypeOK
    <3> QED BY <1>0, <3>1
  <2>2. pc' \in Labels /\ phase' \in {1, 2} /\ late' \subseteq Index
    BY <1>0 DEF TypeOK, Labels
  <2> QED BY <1>0, <2>1, <2>2 DEF TypeOK
<1>2. ControlInv' /\ BoundInv' /\ RollbackInv' /\ ValidInv'
  BY <1>0, IndexFacts DEF ControlInv, BoundInv, Passed, RollbackInv, ValidInv, Early
<1>3. JournalInv'
  BY <1>0, LateParts DEF Early
<1>4. HistoryInv'
  BY <1>0, HistoryFrame DEF Forward
<1> QED BY <1>1, <1>2, <1>3, <1>4 DEF TransactionInv

\* A loop that still has a round to go has not used up its rows.
LEMMA LoopingBound ==
  ASSUME TypeOK, Looping
  PROVE  at < Count /\ at + 1 \in 0 .. Count
BY RowsFacts, IndexFacts DEF Looping, TypeOK, Index

LEMMA WriteSkipStep == ASSUME TransactionInv, WriteSkip PROVE TransactionInv'
<1>0. /\ TypeOK /\ complete /\ pc = "write" /\ pc' = "write" /\ HistoryInv
      /\ ControlInv /\ Len(writes) <= Passed /\ Len(writes) \in Nat
      /\ UNCHANGED <<live, raw, sel, snapshot, journal, order, copy, planned, expected, complete,
                     dirty, applied, writes, try, hist, good, meddles, meddled, late, ignored>>
  BY DEF WriteSkip, TransactionInv, TypeOK, ControlInv, BoundInv, firmware, context, state, ghosts,
         Early
<1>1. /\ phase' \in {1, 2} /\ at' \in 0 .. Count
      /\ Len(writes) <= IF phase' = 1 THEN at' ELSE Count + at'
  <2>1. CASE phase = 1 /\ at < Count /\ at' = at + 1 /\ UNCHANGED phase
    BY <1>0, <2>1, IndexFacts DEF TypeOK, Passed
  <2>2. CASE Looping /\ at' = at + 1 /\ UNCHANGED phase
    <3>1. at' \in 0 .. Count
      BY <1>0, <2>2, LoopingBound
    <3> QED BY <1>0, <2>2, <3>1, IndexFacts DEF TypeOK, Passed
  <2>3. CASE phase = 1 /\ at = Count /\ phase' = 2 /\ at' = 0
    BY <1>0, <2>3, IndexFacts DEF TypeOK, Passed
  <2> QED BY <2>1, <2>2, <2>3 DEF WriteSkip
<1>2. TypeOK'
  BY <1>0, <1>1 DEF TypeOK
<1>3. ControlInv' /\ BoundInv' /\ RollbackInv' /\ ValidInv'
  BY <1>0, <1>1 DEF ControlInv, BoundInv, Passed, RollbackInv, ValidInv, Early
<1>4. JournalInv'
  BY <1>0, LateParts DEF Early
<1>5. HistoryInv'
  BY <1>0, HistoryFrame DEF Forward
<1> QED BY <1>2, <1>3, <1>4, <1>5 DEF TransactionInv

LEMMA WriteIntentStep == ASSUME TransactionInv, WriteIntent PROVE TransactionInv'
<1>0. /\ TypeOK /\ complete /\ pc = "write" /\ pc' \in {"intent", "undo"} /\ HistoryInv
      /\ ControlInv /\ Len(writes) <= Passed /\ at < Count
      /\ UNCHANGED <<live, raw, sel, snapshot, journal, order, copy, planned, expected, complete,
                     dirty, applied, writes, phase, at, try, hist, good, meddles, meddled, late,
                     ignored>>
  BY LoopingBound DEF WriteIntent, TransactionInv, ControlInv, BoundInv, firmware, context, state,
                      loops, ghosts, Early
<1>1. TypeOK'
  BY <1>0 DEF TypeOK, Labels
<1>2. ControlInv' /\ BoundInv' /\ RollbackInv' /\ ValidInv'
  BY <1>0 DEF ControlInv, BoundInv, Passed, RollbackInv, ValidInv, Early
<1>3. JournalInv'
  BY <1>0, LateParts DEF Early
<1>4. HistoryInv'
  BY <1>0, HistoryFrame DEF Forward
<1> QED BY <1>1, <1>2, <1>3, <1>4 DEF TransactionInv

LEMMA WriteVerifyStep == ASSUME TransactionInv, WriteVerify PROVE TransactionInv'
<1>0. /\ TypeOK /\ complete /\ pc = "verify" /\ HistoryInv
      /\ ControlInv /\ Len(writes) <= Passed + 1 /\ at < Count
      /\ UNCHANGED <<live, raw, sel, snapshot, journal, order, copy, planned, expected, complete,
                     dirty, applied, writes, phase, try, hist, good, meddles, meddled, ignored>>
      /\ \/ pc' = "write" /\ at' = at + 1 /\ late' = {}
         \/ pc' = "undo" /\ UNCHANGED <<at, late>>
  BY DEF WriteVerify, TransactionInv, ControlInv, BoundInv, firmware, context, state, Early
<1>1. TypeOK'
  <2>1. at' \in 0 .. Count
    <3>1. at \in 0 .. Count /\ 0 \in 0 .. Count /\ (at < Count => at + 1 \in 0 .. Count)
      BY <1>0, IndexFacts DEF TypeOK
    <3> QED BY <1>0, <3>1
  <2>2. pc' \in Labels /\ phase' \in {1, 2} /\ late' \subseteq Index
    BY <1>0 DEF TypeOK, Labels
  <2> QED BY <1>0, <2>1, <2>2 DEF TypeOK
<1>2. ControlInv' /\ RollbackInv' /\ ValidInv'
  BY <1>0 DEF ControlInv, RollbackInv, ValidInv, Early
<1>3. BoundInv'
  BY <1>0, IndexFacts DEF BoundInv, Passed, TypeOK
<1>4. JournalInv'
  BY <1>0, LateParts DEF Early
<1>5. HistoryInv'
  BY <1>0, HistoryFrame DEF Forward
<1> QED BY <1>1, <1>2, <1>3, <1>4, <1>5 DEF TransactionInv

LEMMA ApplyEndStep == ASSUME TransactionInv, ApplyEnd PROVE TransactionInv'
<1>0. /\ TypeOK /\ complete /\ pc = "write" /\ pc' = "applied" /\ HistoryInv /\ ControlInv
      /\ applied' = TRUE
      /\ UNCHANGED <<live, raw, sel, snapshot, journal, order, copy, planned, expected, complete,
                     dirty, writes, phase, at, try, hist, good, meddles, meddled, late, ignored>>
  BY DEF ApplyEnd, TransactionInv, ControlInv, firmware, context, loops, ghosts, Early
<1>1. TypeOK'
  <2>1. applied' \in BOOLEAN
    BY <1>0, Zenon
  <2> QED BY <1>0, <2>1 DEF TypeOK, Labels
<1>2. ControlInv' /\ BoundInv' /\ RollbackInv' /\ ValidInv'
  BY <1>0 DEF ControlInv, BoundInv, RollbackInv, ValidInv, Early
<1>3. JournalInv'
  BY <1>0, LateParts DEF Early
<1>4. HistoryInv'
  BY <1>0, HistoryFrame DEF Forward
<1> QED BY <1>1, <1>2, <1>3, <1>4 DEF TransactionInv

LEMMA ValidateAppliedStep == ASSUME TransactionInv, ValidateApplied PROVE TransactionInv'
<1>0. /\ TypeOK /\ complete /\ pc \in {"applied", "validated"} /\ HistoryInv /\ ControlInv
      /\ UNCHANGED <<live, raw, sel, snapshot, journal, order, copy, planned, expected, complete,
                     dirty, applied, writes, phase, at, hist, good, meddles, meddled, ignored>>
      /\ \/ /\ Intact(live, planned) /\ OnlyZero /\ late' = {}
            /\ pc' \in {"validated", "complete"} /\ UNCHANGED try
         \/ pc' = "undo" /\ try' \in {1, 2} /\ UNCHANGED late
  BY DEF ValidateApplied, TransactionInv, ControlInv, firmware, context, state, Early
<1>1. TypeOK'
  BY <1>0 DEF TypeOK, Labels
<1>2. ControlInv' /\ BoundInv' /\ RollbackInv'
  BY <1>0 DEF ControlInv, BoundInv, RollbackInv, Early
<1>3. ValidInv'
  BY <1>0 DEF ValidInv, Intact, OnlyZero
<1>4. JournalInv'
  BY <1>0, LateParts DEF Early
<1>5. HistoryInv'
  BY <1>0, HistoryFrame DEF Forward
<1> QED BY <1>1, <1>2, <1>3, <1>4, <1>5 DEF TransactionInv

LEMMA BootArgumentsStep == ASSUME TransactionInv, BootArguments PROVE TransactionInv'
<1>0. /\ TypeOK /\ complete /\ pc = "complete" /\ pc' \in {"booting", "stopped"}
      /\ HistoryInv /\ ControlInv /\ ValidInv
      /\ UNCHANGED <<live, raw, sel, snapshot, journal, order, copy, planned, expected, complete,
                     dirty, applied, writes, phase, at, try, hist, good, meddles, meddled, late,
                     ignored>>
  BY DEF BootArguments, TransactionInv, firmware, context, state, loops, ghosts
<1>1. TypeOK'
  BY <1>0 DEF TypeOK, Labels, Ended
<1>2. ControlInv' /\ BoundInv' /\ RollbackInv'
  BY <1>0 DEF ControlInv, BoundInv, RollbackInv, Early
<1>3. ValidInv'
  BY <1>0 DEF ValidInv, OnlyZero
<1>4. JournalInv'
  BY <1>0, LateParts DEF Early
<1>5. HistoryInv'
  BY <1>0, HistoryFrame DEF Forward
<1> QED BY <1>1, <1>2, <1>3, <1>4, <1>5 DEF TransactionInv

LEMMA RollbackBeginStep == ASSUME TransactionInv, RollbackBegin PROVE TransactionInv'
<1>0. /\ TypeOK /\ complete /\ pc = "undo" /\ HistoryInv /\ ControlInv
      /\ UNCHANGED <<live, raw, sel, snapshot, journal, order, copy, planned, expected, complete,
                     dirty, applied, writes, phase, at, try, meddles, meddled, late>>
      /\ \/ writes = <<>> /\ pc' \in {"abort", "halted"} /\ UNCHANGED <<hist, good, ignored>>
         \/ /\ dirty /\ pc' = "back" /\ hist' = Len(writes) /\ good' \in BOOLEAN
            /\ ignored' = FALSE
         \/ pc' \in {"abort", "halted"} /\ ignored' = TRUE /\ UNCHANGED <<hist, good>>
  BY DEF RollbackBegin, RollbackExit, TransactionInv, ControlInv, firmware, context, state, Early
<1>1. TypeOK'
  <2>1. ignored' \in BOOLEAN /\ good' \in BOOLEAN
    BY <1>0, Zenon DEF TypeOK
  <2>2. Len(writes) \in Nat
    BY <1>0 DEF TypeOK
  <2>3. hist' \in 0 .. Len(writes) /\ pc' \in Labels
    BY <1>0, <2>2 DEF TypeOK, Labels, Ended
  <2> QED BY <1>0, <2>1, <2>3 DEF TypeOK
<1>2. ControlInv' /\ BoundInv' /\ ValidInv'
  BY <1>0 DEF ControlInv, BoundInv, ValidInv, Early
<1>3. RollbackInv'
  <2>1. \A i \in Index \ meddled : ~Recorded(i) => live[i] = journal[i]
    BY <1>0 DEF HistoryInv
  <2> QED BY <1>0, <2>1 DEF RollbackInv, Recorded
<1>4. JournalInv'
  BY <1>0, LateParts DEF Early
<1>5. HistoryInv'
  BY <1>0, HistoryFrame DEF Forward
<1> QED BY <1>1, <1>2, <1>3, <1>4, <1>5 DEF TransactionInv

LEMMA RollbackIntentStep == ASSUME TransactionInv, RollbackIntent PROVE TransactionInv'
<1>0. /\ TypeOK /\ complete /\ dirty /\ pc = "back" /\ hist > 0
      /\ HistoryInv /\ ControlInv /\ RollbackInv
      /\ UNCHANGED <<live, raw, sel, snapshot, journal, order, copy, planned, expected, complete,
                     dirty, applied, writes, phase, at, try, meddles, meddled, late, ignored>>
      /\ good' \in {good, FALSE}
      /\ \/ pc' = "restore" /\ UNCHANGED hist
         \/ ~SameRow /\ hist' = hist - 1 /\ pc' = "back"
  BY DEF RollbackIntent, TransactionInv, ControlInv, firmware, context, state, ghosts, Early
<1>1. hist \in 1 .. Len(writes) /\ Len(writes) \in Nat /\ writes[hist] \in Write
  BY <1>0 DEF TypeOK
<1>2. TypeOK'
  <2>1. good' \in BOOLEAN
    BY <1>0, Zenon DEF TypeOK
  <2>2. hist' \in 0 .. Len(writes)
    BY <1>0, <1>1
  <2> QED BY <1>0, <2>1, <2>2 DEF TypeOK, Labels
<1>3. ControlInv' /\ BoundInv' /\ ValidInv'
  BY <1>0 DEF ControlInv, BoundInv, ValidInv, Early
<1>4. RollbackInv'
  <2>1. CASE pc' = "restore" /\ UNCHANGED hist
    BY <1>0, <2>1 DEF RollbackInv
  <2>2. CASE ~SameRow /\ hist' = hist - 1 /\ pc' = "back"
    <3>1. writes[hist].index \in meddled
      BY <1>0, <1>1, <2>2 DEF SameRow, Record, HistoryInv, Write
    <3>2. SUFFICES ASSUME ~ignored, NEW i \in Index \ meddled,
                          \A k \in 1 .. hist - 1 : writes[k].index # i
                   PROVE  live[i] = journal[i]
      BY <1>0, <2>2 DEF RollbackInv
    <3>3. \A k \in 1 .. hist : writes[k].index # i
      BY <1>1, <3>1, <3>2
    <3> QED BY <1>0, <3>2, <3>3 DEF RollbackInv
  <2> QED BY <1>0, <2>1, <2>2
<1>5. JournalInv'
  BY <1>0, LateParts DEF Early
<1>6. HistoryInv'
  BY <1>0, HistoryFrame DEF Forward
<1> QED BY <1>2, <1>3, <1>4, <1>5, <1>6 DEF TransactionInv

\* Clearing the transaction takes an exact table.
LEMMA RollbackEndStep == ASSUME TransactionInv, RollbackEnd PROVE TransactionInv'
<1>0. /\ TypeOK /\ complete /\ dirty /\ pc = "back" /\ pc' \in {"abort", "halted"} /\ hist = 0
      /\ HistoryInv /\ ControlInv /\ RollbackInv
      /\ UNCHANGED <<live, raw, sel, snapshot, journal, order, copy, planned, expected, complete,
                     phase, at, try, hist, good, meddles, meddled, late, ignored>>
      /\ \/ live = journal /\ dirty' = FALSE /\ applied' = FALSE /\ writes' = <<>>
         \/ UNCHANGED <<dirty, applied, writes>>
  BY DEF RollbackEnd, RollbackExit, TransactionInv, ControlInv, firmware, context, state, loops,
         ghosts, Early
<1>1. TypeOK'
  <2>1. dirty' \in BOOLEAN /\ applied' \in BOOLEAN
    BY <1>0, Zenon DEF TypeOK
  <2>2. writes' \in Seq(Write) /\ Len(writes') <= 2 * Count /\ hist' \in 0 .. Len(writes')
    <3>1. CASE writes' = <<>>
      BY <1>0, <3>1, IndexFacts
    <3>2. CASE UNCHANGED writes
      BY <1>0, <3>2 DEF TypeOK
    <3> QED BY <1>0, <3>1, <3>2
  <2> QED BY <1>0, <2>1, <2>2 DEF TypeOK, Labels, Ended
<1>2. ControlInv' /\ BoundInv' /\ ValidInv'
  BY <1>0 DEF ControlInv, BoundInv, ValidInv, Early
<1>3. RollbackInv'
  BY <1>0 DEF RollbackInv
<1>4. JournalInv' /\ Rows' = Rows
  BY <1>0, LateParts DEF Early
<1>5. HistoryInv'
  <2>1. CASE UNCHANGED <<dirty, applied, writes>>
    BY <1>0, <2>1, HistoryFrame DEF Forward
  <2>2. CASE live = journal /\ writes' = <<>>
    BY <1>0, <2>2 DEF HistoryInv, Forward
  <2> QED BY <1>0, <2>1, <2>2
<1> QED BY <1>1, <1>2, <1>3, <1>4, <1>5 DEF TransactionInv

LEMMA AbortStep == ASSUME TransactionInv, Abort PROVE TransactionInv'
<1>0. /\ TypeOK /\ complete /\ pc = "abort" /\ HistoryInv /\ ControlInv /\ try' = 2
      /\ UNCHANGED <<live, raw, sel, snapshot, journal, order, copy, planned, expected, complete,
                     dirty, applied, writes, phase, at, hist, good, meddles, meddled, late, ignored>>
      /\ pc' = "undo" \/ (pc' = "halted" /\ writes = <<>>)
  BY DEF Abort, TransactionInv, ControlInv, firmware, context, state, ghosts, Early
<1>1. TypeOK'
  BY <1>0 DEF TypeOK, Labels, Ended
<1>2. ControlInv' /\ BoundInv' /\ ValidInv'
  BY <1>0 DEF ControlInv, BoundInv, ValidInv, Early
<1>3. RollbackInv'
  BY <1>0 DEF RollbackInv, HistoryInv, Recorded
<1>4. JournalInv'
  BY <1>0, LateParts DEF Early
<1>5. HistoryInv'
  BY <1>0, HistoryFrame DEF Forward
<1> QED BY <1>1, <1>2, <1>3, <1>4, <1>5 DEF TransactionInv

LEMMA StutterStep == ASSUME TransactionInv, UNCHANGED vars PROVE TransactionInv'
<1>0. UNCHANGED <<pc, live, raw, sel, snapshot, journal, order, copy, planned, expected, complete,
                  dirty, applied, writes, phase, at, try, hist, good, meddles, meddled, late,
                  ignored>>
  BY DEF vars, firmware, context, state, loops, ghosts
<1>1. HistoryInv'
  BY <1>0, HistoryFrame DEF TransactionInv
<1> QED BY <1>0, <1>1
        DEF TransactionInv, TypeOK, ControlInv, BoundInv, Passed, JournalInv, RollbackInv, ValidInv,
            OnlyZero

\* A write that is refused, ignored or made is in each case covered by the
\* history.
LEMMA WritePriorityStep == ASSUME TransactionInv, WritePriority PROVE TransactionInv'
<1>0. /\ TypeOK /\ complete /\ pc = "intent" /\ HistoryInv /\ ControlInv
      /\ Len(writes) <= Passed /\ at < Count
      /\ UNCHANGED <<raw, sel, snapshot, journal, order, copy, planned, complete, applied,
                     phase, at, try, hist, good, meddles, meddled, late, ignored>>
  BY DEF WritePriority, TransactionInv, ControlInv, BoundInv, loops, ghosts, Early
<1>1. CASE pc' = "undo" /\ UNCHANGED <<live, expected, dirty, writes>>
  <2>1. TypeOK'
    BY <1>0, <1>1 DEF TypeOK, Labels
  <2>2. ControlInv' /\ BoundInv' /\ ValidInv' /\ RollbackInv'
    BY <1>0, <1>1 DEF ControlInv, BoundInv, ValidInv, RollbackInv, Early
  <2>3. JournalInv'
    BY <1>0, <1>1, LateParts DEF Early
  <2>4. HistoryInv'
    BY <1>0, <1>1, HistoryFrame DEF Forward
  <2> QED BY <2>1, <2>2, <2>3, <2>4 DEF TransactionInv
<1>2. ASSUME NEW i \in Wanted, AsExpected(i), dirty' = TRUE,
             writes' = Append(writes, [index |-> i, old |-> expected[i], new |-> Requested]),
             \/ /\ live' = [live EXCEPT ![i].pri = Requested]
                /\ expected' = [expected EXCEPT ![i] = Requested] /\ pc' = "verify"
             \/ UNCHANGED <<live, expected>> /\ pc' = "undo"
      PROVE  TransactionInv'
  <2> DEFINE rec == [index |-> i, old |-> expected[i], new |-> Requested]
  <2>1. i \in Rows /\ i \in Index
    BY <1>2, RowsFacts DEF Wanted
  <2>2. Requested \in Priority
    <3>1. Unprioritized \in Priority
      BY DEF Unprioritized, Priority, MaxUint16
    <3>2. at \in Priority
      BY <1>0, IndexFacts, NumberFacts DEF TypeOK, Priority
    <3> QED BY <3>1, <3>2 DEF Requested
  <2>3. rec \in Write /\ rec.index = i /\ rec.old = expected[i] /\ expected[i] \in Priority
    BY <1>0, <2>1, <2>2 DEF TypeOK, Write
  <2> HIDE DEF rec
  <2>4. /\ writes \in Seq(Write) /\ Len(writes) \in Nat
        /\ writes' \in Seq(Write) /\ Len(writes') = Len(writes) + 1
        /\ \A k \in 1 .. Len(writes) : writes'[k] = writes[k]
        /\ writes'[Len(writes) + 1] = rec
    BY <1>0, <1>2, <2>3 DEF TypeOK, rec
  <2>5. /\ live' \in Table /\ expected' \in [Index -> Priority] /\ live'[i].what = live[i].what
        /\ \A j \in Index \ {i} : live'[j] = live[j] /\ expected'[j] = expected[j]
    <3>1. live \in Table /\ expected \in [Index -> Priority]
      BY <1>0 DEF TypeOK
    <3>2. CASE UNCHANGED <<live, expected>>
      BY <3>1, <3>2
    <3>3. CASE /\ live' = [live EXCEPT ![i].pri = Requested]
               /\ expected' = [expected EXCEPT ![i] = Requested]
      <4>1. live[i] \in Row
        BY <2>1, <2>2, <3>1 DEF Table
      <4>2. [pri |-> Requested, what |-> live[i].what] \in Row
        BY <2>1, <2>2, <3>1, <4>1 DEF Row
      <4>3. [live[i] EXCEPT !.pri = Requested] = [pri |-> Requested, what |-> live[i].what]
        BY <4>1 DEF Row
      <4>4. live' = [live EXCEPT ![i] = [pri |-> Requested, what |-> live[i].what]]
        BY <3>3, <4>3
      <4>5. /\ live' \in Table
            /\ live'[i] = [pri |-> Requested, what |-> live[i].what]
            /\ \A j \in Index \ {i} : live'[j] = live[j]
        BY <2>1, <3>1, <4>2, <4>4 DEF Table
      <4>6. live'[i].what = live[i].what
        BY <4>5
      <4>7. /\ expected' \in [Index -> Priority]
            /\ \A j \in Index \ {i} : expected'[j] = expected[j]
        BY <2>1, <2>2, <3>1, <3>3
      <4> QED BY <4>5, <4>6, <4>7
    <3> QED BY <1>2, <3>2, <3>3
  <2>6. Len(writes') <= Passed + 1 /\ Len(writes') <= 2 * Count
    BY <1>0, <2>4, IndexFacts DEF Passed, TypeOK
  <2>7. TypeOK'
    <3>1. dirty' \in BOOLEAN
      BY <1>2, Zenon
    <3>2. hist' \in 0 .. Len(writes')
      BY <1>0, <2>4 DEF TypeOK
    <3>3. pc' \in Labels
      BY <1>2 DEF Labels
    <3> QED BY <1>0, <2>4, <2>5, <2>6, <3>1, <3>2, <3>3 DEF TypeOK
  <2>8. pc' \in {"verify", "undo"} /\ pc' \notin Early
    BY <1>2 DEF Early
  <2>9. ControlInv' /\ ValidInv' /\ RollbackInv'
    BY <1>0, <1>2, <2>8 DEF ControlInv, ValidInv, RollbackInv, Early
  <2>10. BoundInv'
    BY <1>0, <2>6, <2>8 DEF BoundInv, Passed
  <2>11. JournalInv' /\ Rows' = Rows
    BY <1>0, <2>8, LateParts
  <2>12. \A j \in Index : Recorded(j)' <=> (j = i \/ Recorded(j))
    BY <2>3, <2>4 DEF Recorded
  <2>13. \A k \in 1 .. Len(writes') : writes'[k].index \in Rows
    BY <1>0, <2>1, <2>3, <2>4 DEF HistoryInv
  <2>14. \A k \in 1 .. Len(writes') :
           Oldest(k)' => writes'[k].old = journal[writes'[k].index].pri
    <3> SUFFICES ASSUME NEW k \in 1 .. Len(writes'), Oldest(k)'
                 PROVE  writes'[k].old = journal[writes'[k].index].pri
      OBVIOUS
    <3>1. \A l \in 1 .. k - 1 : writes'[l].index # writes'[k].index
      BY DEF Oldest
    <3>2. CASE k \in 1 .. Len(writes)
      <4>1. Oldest(k)
        BY <2>4, <3>1, <3>2 DEF Oldest
      <4> QED BY <1>0, <2>4, <3>2, <4>1 DEF HistoryInv
    <3>3. CASE k = Len(writes) + 1
      <4>1. writes'[k] = rec /\ k - 1 = Len(writes)
        BY <2>4, <3>3
      <4>2. \A l \in 1 .. Len(writes) : writes[l].index # i
        BY <2>3, <2>4, <3>1, <4>1
      <4>3. ~Recorded(i)
        BY <4>2 DEF Recorded
      <4> QED BY <1>0, <2>1, <2>3, <4>1, <4>3 DEF HistoryInv, Forward
    <3> QED BY <2>4, <3>2, <3>3
  <2>15. \A j \in Index : ~Recorded(j)' => expected'[j] = journal[j].pri
    BY <1>0, <2>5, <2>12 DEF HistoryInv, Forward
  <2>16. \A j \in Index \ meddled : live'[j].what = journal[j].what
    BY <1>0, <2>5 DEF HistoryInv
  <2>17. \A j \in Index \ meddled : ~Recorded(j)' => live'[j] = journal[j]
    BY <1>0, <2>5, <2>12 DEF HistoryInv
  <2>18. HistoryInv'
    BY <1>0, <2>11, <2>13, <2>14, <2>15, <2>16, <2>17 DEF HistoryInv
  <2> QED BY <2>7, <2>9, <2>10, <2>11, <2>18 DEF TransactionInv
<1> QED BY <1>1, <1>2 DEF WritePriority

LEMMA RollbackWriteStep == ASSUME TransactionInv, RollbackWrite PROVE TransactionInv'
<1> DEFINE i == writes[hist].index
<1>0. /\ TypeOK /\ complete /\ dirty /\ pc = "restore" /\ hist > 0
      /\ HistoryInv /\ ControlInv /\ RollbackInv
      /\ UNCHANGED <<raw, sel, snapshot, journal, order, copy, planned, complete, dirty, applied,
                     writes, phase, at, try, meddles, meddled, late>>
      /\ hist' = hist - 1 /\ pc' = "back"
      /\ good' \in {FALSE, good /\ Intact(live', expected')} \cup {FALSE}
      /\ \/ /\ SameRow /\ UNCHANGED ignored
            /\ live' = [live EXCEPT ![i].pri = writes[hist].old]
            /\ expected' = [expected EXCEPT ![i] = writes[hist].old]
         \/ ignored' = TRUE /\ UNCHANGED <<live, expected>>
         \/ ~SameRow /\ UNCHANGED <<live, expected, ignored>>
  BY DEF RollbackWrite, Record, TransactionInv, ControlInv, state, Early
<1>1. /\ hist \in 1 .. Len(writes) /\ Len(writes) \in Nat
      /\ i \in Index /\ writes[hist].old \in Priority
  <2>1. writes \in Seq(Write) /\ hist \in 0 .. Len(writes) /\ hist > 0
    BY <1>0 DEF TypeOK
  <2>2. hist \in 1 .. Len(writes) /\ Len(writes) \in Nat
    BY <2>1
  <2>3. writes[hist] \in Write
    BY <2>1, <2>2
  <2> QED BY <2>2, <2>3 DEF Write
<1>2. live \in Table /\ expected \in [Index -> Priority]
  BY <1>0 DEF TypeOK
<1> HIDE DEF i
<1>3. /\ live' \in Table /\ expected' \in [Index -> Priority] /\ live'[i].what = live[i].what
      /\ \A j \in Index \ {i} : live'[j] = live[j]
      /\ SameRow /\ ~ignored' => live'[i] = [pri |-> writes[hist].old, what |-> live[i].what]
  <2>1. CASE UNCHANGED <<live, expected>> /\ (~SameRow \/ ignored')
    BY <1>2, <2>1
  <2>2. CASE /\ live' = [live EXCEPT ![i].pri = writes[hist].old]
             /\ expected' = [expected EXCEPT ![i] = writes[hist].old]
    <3>1. live[i] \in Row
      BY <1>1, <1>2 DEF Table
    <3>2. [pri |-> writes[hist].old, what |-> live[i].what] \in Row
      BY <1>1, <1>2, <3>1 DEF Row
    <3>3. [live[i] EXCEPT !.pri = writes[hist].old] = [pri |-> writes[hist].old, what |-> live[i].what]
      BY <3>1 DEF Row
    <3>4. live' = [live EXCEPT ![i] = [pri |-> writes[hist].old, what |-> live[i].what]]
      BY <2>2, <3>3
    <3>5. /\ live' \in Table
          /\ live'[i] = [pri |-> writes[hist].old, what |-> live[i].what]
          /\ \A j \in Index \ {i} : live'[j] = live[j]
      BY <1>1, <1>2, <3>2, <3>4 DEF Table
    <3>6. live'[i].what = live[i].what
      BY <3>5
    <3>7. expected' \in [Index -> Priority]
      BY <1>1, <1>2, <2>2
    <3> QED BY <3>5, <3>6, <3>7
  <2> QED BY <1>0, <2>1, <2>2
<1>4. TypeOK'
  <2>1. good' \in BOOLEAN /\ ignored' \in BOOLEAN
    BY <1>0, Zenon DEF TypeOK
  <2>2. hist' \in 0 .. Len(writes)
    BY <1>0, <1>1
  <2> QED BY <1>0, <1>3, <2>1, <2>2 DEF TypeOK, Labels
<1>5. ControlInv' /\ BoundInv' /\ ValidInv'
  BY <1>0 DEF ControlInv, BoundInv, ValidInv, Early
<1>6. JournalInv' /\ Rows' = Rows
  BY <1>0, LateParts DEF Early
<1>7. Recorded(i)
  BY <1>1 DEF Recorded, i
<1>8. HistoryInv'
  <2>1. \A j : Recorded(j)' <=> Recorded(j)
    BY <1>0 DEF Recorded
  <2>2. \A k : Oldest(k)' <=> Oldest(k)
    BY <1>0 DEF Oldest
  <2>3. \A j \in Index \ meddled : live'[j].what = journal[j].what
    BY <1>0, <1>3 DEF HistoryInv
  <2>4. \A j \in Index \ meddled : ~Recorded(j) => live'[j] = journal[j]
    BY <1>0, <1>3, <1>7 DEF HistoryInv
  <2> QED BY <1>0, <1>6, <2>1, <2>2, <2>3, <2>4 DEF HistoryInv, Forward
<1>9. RollbackInv'
  <2>1. SUFFICES ASSUME ~ignored', NEW j \in Index \ meddled,
                        \A k \in 1 .. hist - 1 : writes[k].index # j
                 PROVE  live'[j] = journal[j]
    BY <1>0 DEF RollbackInv
  <2>2. ~ignored
    BY <1>0, <2>1
  <2>3. CASE j # i
    <3>1. \A k \in 1 .. hist : writes[k].index # j
      BY <1>1, <2>1, <2>3 DEF i
    <3>2. live[j] = journal[j]
      BY <1>0, <2>1, <2>2, <3>1 DEF RollbackInv
    <3> QED BY <1>3, <2>1, <2>3, <3>2
  <2>4. CASE j = i
    <3>1. Oldest(hist)
      BY <2>1, <2>4 DEF Oldest, i
    <3>2. writes[hist].old = journal[i].pri
      BY <1>0, <1>1, <3>1 DEF HistoryInv, i
    <3>3. live[i].what = journal[i].what
      BY <1>0, <2>1, <2>4 DEF HistoryInv
    <3>4. SameRow
      BY <3>3 DEF SameRow, Record, i
    <3>6. live'[i] = [pri |-> writes[hist].old, what |-> live[i].what]
      BY <1>3, <2>1, <3>4
    <3>7. journal[i] = [pri |-> journal[i].pri, what |-> journal[i].what]
      BY <1>0, <1>1 DEF TypeOK, Table, Row
    <3> QED BY <2>4, <3>2, <3>3, <3>6, <3>7
  <2> QED BY <2>3, <2>4
<1> QED BY <1>4, <1>5, <1>6, <1>8, <1>9 DEF TransactionInv

LEMMA MeddleStep == ASSUME TransactionInv, Meddle PROVE TransactionInv'
<1>0. /\ TypeOK /\ pc \notin Ended /\ ControlInv /\ BoundInv /\ JournalInv /\ HistoryInv
      /\ RollbackInv /\ ValidInv /\ meddles > 0 /\ meddles' = meddles - 1
      /\ UNCHANGED <<pc, sel, snapshot, journal, order, copy, planned, expected, complete, dirty,
                     applied, writes, phase, at, try, hist, good, ignored>>
  BY DEF Meddle, TransactionInv, context, state, loops
<1>1. /\ live' \in Table /\ raw' \in Orders /\ meddled' \subseteq Index /\ late' \subseteq Index
      /\ meddled \subseteq meddled' /\ late \subseteq late'
      /\ \A j \in Index \ meddled' : live'[j] = live[j]
      /\ \A j \in Index \ late' : live'[j] = live[j]
  <2>1. CASE raw' \in Orders /\ UNCHANGED <<live, meddled, late>>
    BY <1>0, <2>1 DEF TypeOK
  <2>2. ASSUME NEW i \in Index, NEW r \in Oddities, live' = [live EXCEPT ![i] = r],
               meddled' = meddled \cup {i}, late' = late \cup {i}, UNCHANGED raw
        PROVE  /\ live' \in Table /\ raw' \in Orders
               /\ meddled' \subseteq Index /\ late' \subseteq Index
               /\ meddled \subseteq meddled' /\ late \subseteq late'
               /\ \A j \in Index \ meddled' : live'[j] = live[j]
               /\ \A j \in Index \ late' : live'[j] = live[j]
    <3>1. r \in Row /\ live \in Table
      BY <1>0, TransactionAssumption DEF TypeOK
    <3>2. live' \in Table /\ \A j \in Index : j # i => live'[j] = live[j]
      BY <2>2, <3>1 DEF Table
    <3> QED BY <1>0, <2>2, <3>2 DEF TypeOK
  <2> QED BY <2>1, <2>2 DEF Meddle
<1>2. TypeOK'
  BY <1>0, <1>1, TransactionAssumption DEF TypeOK
<1>3. ControlInv' /\ BoundInv' /\ JournalInv'
  BY <1>0 DEF ControlInv, BoundInv, Passed, JournalInv
<1>4. HistoryInv'
  <2>1. Rows' = Rows
    BY <1>0, SameRows
  <2> QED BY <1>0, <1>1, <2>1 DEF HistoryInv, Recorded, Oldest
<1>5. RollbackInv'
  BY <1>0, <1>1 DEF RollbackInv, Ended
<1>6. ValidInv'
  BY <1>0, <1>1 DEF ValidInv, OnlyZero
<1> QED BY <1>2, <1>3, <1>4, <1>5, <1>6 DEF TransactionInv

-----------------------------------------------------------------------------

\* The conjunction above is an invariant of discovery, preflight, journal, the
\* priority writes, validation and rollback together.
THEOREM TransactionInvariant == Spec => []TransactionInv
<1>1. TransactionInv /\ [Next]_vars => TransactionInv'
  <2>1. SUFFICES ASSUME TransactionInv, Next \/ UNCHANGED vars PROVE TransactionInv'
    OBVIOUS
  <2> QED BY <2>1, DiscoverStep, PrepareStep, ReleaseStep, JournalBeginStep, JournalEndStep,
             ApplyBeginStep, WriteSkipStep, WriteIntentStep, WritePriorityStep, WriteVerifyStep,
             ApplyEndStep, ValidateAppliedStep, BootArgumentsStep, RollbackBeginStep,
             RollbackIntentStep, RollbackWriteStep, RollbackEndStep, AbortStep, MeddleStep,
             StutterStep
          DEF Next, Terminated
<1> QED BY <1>1, InitStep, PTL DEF Spec

\* The variables have their types; in particular PriorityWrites never has more
\* than LEGACY_BOOT_BOOT_TARGET_MAX_PRIORITY_WRITES (twice the rows) entries, and
\* the rollback's HistoryIndex stays inside it.
THEOREM TransactionTypeCorrect == Spec => []TypeOK
<1>1. TransactionInv => TypeOK
  BY DEF TransactionInv
<1> QED BY <1>1, TransactionInvariant, PTL

\* LegacyBoot is only called with the table that ValidateApplied wants: planned
\* priorities, discovered identities, and the zero at the selected disk alone.
THEOREM BootSafe == Spec => []BootsSelected
<1>1. TransactionInv => BootsSelected
  <2>1. SUFFICES ASSUME TransactionInv, pc \in {"complete", "booting"}, NEW i \in Index \ late
                 PROVE  /\ live[i] = [pri |-> planned[i], what |-> snapshot[i].what]
                        /\ live[i].pri = 0 <=> i = sel
    BY DEF BootsSelected
  <2>2. complete /\ journal = snapshot
    BY <2>1 DEF TransactionInv, ControlInv, JournalInv, Early
  <2>3. live[i] = [pri |-> planned[i], what |-> journal[i].what] /\ (planned[i] = 0 <=> i = sel)
    BY <2>1 DEF TransactionInv, ValidInv, OnlyZero
  <2> QED BY <2>2, <2>3
<1> QED BY <1>1, TransactionInvariant, PTL

\* LegacyBootRollbackInternal reaches every row it has to restore, past rows it
\* must refuse, failed log writes and an earlier rollback that stopped half-way.
THEOREM RollbackSafe == Spec => []RollbackReaches
<1>1. TransactionInv => RollbackReaches
  BY DEF TransactionInv, RollbackInv, RollbackReaches
<1> QED BY <1>1, TransactionInvariant, PTL

\* LegacyBootWritePriority and LegacyBootRollbackInternal change nothing but the
\* priority of eligible rows they still recognise and have recorded.
THEOREM WritesAuthorized == Spec => AuthorizedWrites
<1> DEFINE Authorized ==
      \A i \in Index : live'[i] # live[i] /\ meddles' = meddles =>
        /\ complete /\ i \in Rows
        /\ live[i].what = journal[i].what /\ live'[i].what = live[i].what
        /\ dirty' /\ \E k \in 1 .. Len(writes') : writes'[k].index = i
<1>1. ASSUME TransactionInv, WritePriority PROVE Authorized
  <2>1. SUFFICES ASSUME NEW i \in Index, live'[i] # live[i]
                 PROVE  /\ complete /\ i \in Rows
                        /\ live[i].what = journal[i].what /\ live'[i].what = live[i].what
                        /\ dirty' /\ \E k \in 1 .. Len(writes') : writes'[k].index = i
    OBVIOUS
  <2>2. live \in Table /\ writes \in Seq(Write) /\ complete
    BY <1>1 DEF WritePriority, TransactionInv, TypeOK, ControlInv, Early
  <2>3. PICK r \in Wanted :
          /\ AsExpected(r) /\ dirty'
          /\ writes' = Append(writes, [index |-> r, old |-> expected[r], new |-> Requested])
          /\ live' = [live EXCEPT ![r].pri = Requested]
    BY <1>1, <2>1 DEF WritePriority
  <2>4. r \in Rows /\ r \in Index
    BY RowsFacts DEF Wanted
  <2>5. i = r
    BY <2>1, <2>2, <2>3, <2>4 DEF Table
  <2>6. live[i] \in Row
    BY <2>2 DEF Table
  <2>7. live'[i] = [live[i] EXCEPT !.pri = Requested]
    BY <2>2, <2>3, <2>5 DEF Table
  <2>8. live'[i].what = live[i].what
    BY <2>6, <2>7 DEF Row
  <2>9. live[i].what = journal[i].what
    BY <2>3, <2>5 DEF AsExpected
  <2>10. Len(writes') = Len(writes) + 1 /\ writes'[Len(writes) + 1].index = i
    BY <2>2, <2>3, <2>5
  <2>11. Len(writes) + 1 \in 1 .. Len(writes')
    BY <2>2, <2>10
  <2> QED BY <2>2, <2>3, <2>4, <2>5, <2>8, <2>9, <2>10, <2>11
<1>2. ASSUME TransactionInv, RollbackWrite PROVE Authorized
  <2> DEFINE r == writes[hist].index
  <2>1. SUFFICES ASSUME NEW i \in Index, live'[i] # live[i]
                 PROVE  /\ complete /\ i \in Rows
                        /\ live[i].what = journal[i].what /\ live'[i].what = live[i].what
                        /\ dirty' /\ \E k \in 1 .. Len(writes') : writes'[k].index = i
    OBVIOUS
  <2>2. /\ live \in Table /\ writes \in Seq(Write) /\ complete /\ dirty /\ HistoryInv
        /\ hist \in 0 .. Len(writes) /\ hist > 0
    BY <1>2 DEF RollbackWrite, TransactionInv, TypeOK, ControlInv, Early
  <2>3. /\ live[r].what = journal[r].what /\ live' = [live EXCEPT ![r].pri = writes[hist].old]
        /\ UNCHANGED <<dirty, writes>>
    BY <1>2, <2>1 DEF RollbackWrite, SameRow, Record, state
  <2>4. hist \in 1 .. Len(writes)
    BY <2>2
  <2>5. r \in Rows /\ r \in Index
    BY <2>2, <2>4, RowsFacts DEF HistoryInv
  <2>6. i = r
    BY <2>1, <2>2, <2>3, <2>5 DEF Table
  <2>7. live[i] \in Row
    BY <2>2 DEF Table
  <2>8. live'[i] = [live[i] EXCEPT !.pri = writes[hist].old]
    BY <2>2, <2>3, <2>6 DEF Table
  <2>9. live'[i].what = live[i].what
    BY <2>7, <2>8 DEF Row
  <2> QED BY <2>2, <2>3, <2>4, <2>5, <2>6, <2>9
<1>3. ASSUME TransactionInv, Meddle PROVE Authorized
  <2>1. meddles \in Nat /\ meddles' = meddles - 1
    BY <1>3, TransactionAssumption DEF Meddle, TransactionInv, TypeOK
  <2> QED BY <2>1
<1>4. ASSUME UNCHANGED live PROVE Authorized
  BY <1>4
<1>5. ASSUME Next PROVE WritePriority \/ RollbackWrite \/ Meddle \/ UNCHANGED live
  BY <1>5
  DEF Next, Discover, Prepare, Release, JournalBegin, JournalEnd, ApplyBegin, WriteSkip,
      WriteIntent, WriteVerify, ApplyEnd, ValidateApplied, BootArguments, RollbackBegin,
      RollbackIntent, RollbackEnd, Abort, Terminated, vars, firmware
<1>6. TransactionInv /\ [Next]_vars => [Authorized]_vars
  BY <1>1, <1>2, <1>3, <1>4, <1>5
<1> HIDE DEF Authorized
<1>7. Spec => [][Authorized]_vars
  BY <1>6, TransactionInvariant, PTL DEF Spec
<1> QED BY <1>7 DEF AuthorizedWrites, Authorized

-----------------------------------------------------------------------------
(* The transaction implements ReorderContract.                             *)

\* A row changed since the last validation was changed since the journal.
LEMMA LateIsMeddled == Spec => [](late \subseteq meddled)
<1> DEFINE Within == late \subseteq meddled
<1>1. Init => Within
  BY DEF Init
<1>2. Within /\ [Next]_vars => Within'
  <2> SUFFICES ASSUME late \subseteq meddled, [Next]_vars PROVE late' \subseteq meddled'
    OBVIOUS
  <2>1. CASE Discover \/ Prepare \/ Release \/ JournalBegin
    BY <2>1 DEF Discover, Prepare, Release, JournalBegin, ghosts
  <2>2. CASE JournalEnd \/ ApplyBegin
    BY <2>2 DEF JournalEnd, ApplyBegin, ghosts
  <2>3. CASE WriteSkip \/ WriteIntent \/ WritePriority \/ WriteVerify
    BY <2>3 DEF WriteSkip, WriteIntent, WritePriority, WriteVerify, ghosts
  <2>4. CASE ApplyEnd \/ ValidateApplied \/ BootArguments
    BY <2>4 DEF ApplyEnd, ValidateApplied, BootArguments, ghosts
  <2>5. CASE RollbackBegin \/ RollbackIntent
    BY <2>5 DEF RollbackBegin, RollbackIntent, ghosts
  <2>6. CASE RollbackWrite \/ RollbackEnd \/ Abort
    BY <2>6 DEF RollbackWrite, RollbackEnd, Abort, ghosts
  <2>7. CASE Meddle
    BY <2>7 DEF Meddle, ghosts
  <2>8. CASE UNCHANGED vars
    BY <2>8 DEF vars, ghosts
  <2>9. CASE Terminated
    BY <2>9 DEF Terminated, vars, ghosts
  <2> QED BY <2>1, <2>2, <2>3, <2>4, <2>5, <2>6, <2>7, <2>8, <2>9 DEF Next
<1>3. Spec => []Within
  <2> HIDE DEF Within
  <2> QED BY <1>1, <1>2, PTL DEF Spec
<1> QED BY <1>3

\* A clean transaction, never begun or rolled back, has left no trace.
LEMMA CleanRestored ==
  ASSUME TransactionInv, ~dirty
  PROVE  Contract!Restored
<1>1. CASE complete
  <2>1. Len(writes) = 0
    BY DEF TransactionInv, ControlInv
  <2>2. \A i \in Index : ~Recorded(i)
    BY <2>1 DEF Recorded
  <2> QED BY <1>1, <2>2 DEF TransactionInv, HistoryInv, Contract!Restored, Original, Foreign
<1>2. CASE ~complete
  BY <1>2 DEF Contract!Restored, Original
<1> QED BY <1>1, <1>2

\* What is seen from outside stays as it is.
LEMMA SeenUnchanged ==
  ASSUME UNCHANGED <<live, complete>>, complete => UNCHANGED <<journal, planned, meddled>>
  PROVE  UNCHANGED <<live, complete, Original, Goal, Foreign>>
BY DEF Original, Goal, Foreign

LEMMA QuietStep ==
  ASSUME UNCHANGED <<live, complete, ignored, dirty>>,
         complete => UNCHANGED <<journal, planned, meddled>>,
         pc \notin Ended, pc' \notin Ended
  PROVE  UNCHANGED Contract!vars
<1>1. UNCHANGED <<live, complete, Original, Goal, Foreign>>
  BY SeenUnchanged
<1>2. Stage' = Stage
  BY DEF Stage, Ended
<1> QED BY <1>1, <1>2 DEF Contract!vars

LEMMA HaltStep ==
  ASSUME UNCHANGED <<live, complete, ignored, journal, planned, meddled>>,
         pc \notin Ended, pc' \in {"halted", "stopped"},
         Contract!Restored \/ Contract!Reached \/ ignored
  PROVE  Contract!Halt
<1>1. UNCHANGED <<live, complete, Original, Goal, Foreign>>
  BY SeenUnchanged
<1>2. Stage' = "halt" /\ Stage \in {"clean", "changing"}
  BY DEF Stage, Ended
<1> QED BY <1>1, <1>2 DEF Contract!Halt, Contract!Running

\* Until the journal is complete the program only reads.
LEMMA EarlyContract ==
  ASSUME TransactionInv, Discover \/ Prepare \/ Release \/ JournalBegin
  PROVE  Contract!Halt \/ UNCHANGED Contract!vars
<1>1. ~complete /\ ~dirty /\ pc \notin Ended
  BY DEF Discover, Prepare, Release, JournalBegin, TransactionInv, ControlInv, Early, Ended
<1>2. UNCHANGED <<live, complete, ignored, dirty>>
  <2>1. UNCHANGED <<live, ignored, dirty>>
    BY DEF Discover, Prepare, Release, JournalBegin, firmware, state, ghosts
  <2>2. complete' = complete \/ complete' = FALSE
    BY Zenon DEF Discover, Prepare, Release, JournalBegin
  <2>3. complete = FALSE
    BY <1>1 DEF TransactionInv, TypeOK
  <2> QED BY <2>1, <2>2, <2>3
<1>3. CASE pc' \notin Ended
  BY <1>1, <1>2, <1>3, QuietStep
<1>4. CASE pc' \in Ended
  <2>1. Contract!Restored
    BY <1>1, CleanRestored
  <2>2. UNCHANGED <<live, complete, Original, Goal, Foreign>>
    BY <1>1, <1>2, SeenUnchanged
  <2>3. Stage = "clean" /\ Stage' = "halt"
    BY <1>1, <1>4 DEF Stage, Ended, Discover, Prepare, Release, JournalBegin
  <2> QED BY <1>2, <2>1, <2>2, <2>3 DEF Contract!Halt, Contract!Running
<1> QED BY <1>3, <1>4

LEMMA JournalContract ==
  ASSUME TransactionInv, JournalEnd
  PROVE  Contract!Next
<1>1. ~complete /\ ~dirty /\ ~dirty' /\ pc \notin Ended /\ UNCHANGED <<live, ignored, dirty>>
  BY DEF JournalEnd, TransactionInv, ControlInv, Early, Ended, state, firmware
<1>2. CASE pc' = "journaled"
  <2>1. live = journal /\ complete' /\ meddled' = {} /\ UNCHANGED <<journal, planned>>
    BY <1>2 DEF JournalEnd
  <2>2. Stage = "clean" /\ Stage' = "clean"
    BY <1>1, <1>2 DEF Stage, Ended
  <2>3. Original' = live /\ Foreign = {} /\ Foreign' = {}
    BY <1>1, <2>1 DEF Original, Foreign
  <2>4. \A i \in Index : Goal'[i].what = live[i].what
    BY <2>1 DEF Goal
  <2>5. Contract!Fix
    BY <1>1, <2>1, <2>2, <2>3, <2>4 DEF Contract!Fix
  <2> QED BY <2>5 DEF Contract!Next
<1>3. CASE pc' # "journaled"
  <2>1. pc' = "halted" /\ UNCHANGED <<complete, meddled, journal, planned>>
    BY <1>3 DEF JournalEnd
  <2>2. Contract!Restored
    BY <1>1, CleanRestored
  <2>3. Contract!Halt
    BY <1>1, <2>1, <2>2, HaltStep
  <2> QED BY <2>3 DEF Contract!Next
<1> QED BY <1>2, <1>3

\* The loops and the validations do not touch the table.
LEMMA LoopContract ==
  ASSUME TransactionInv,
         ApplyBegin \/ WriteSkip \/ WriteIntent \/ WriteVerify \/ ApplyEnd \/ ValidateApplied
           \/ RollbackIntent
  PROVE  UNCHANGED Contract!vars
<1>1. UNCHANGED <<live, complete, ignored, dirty, journal, planned, meddled>>
  BY DEF ApplyBegin, WriteSkip, WriteIntent, WriteVerify, ApplyEnd, ValidateApplied,
         RollbackIntent, firmware, context, state, ghosts
<1>2. pc \notin Ended /\ pc' \notin Ended
  BY DEF ApplyBegin, WriteSkip, WriteIntent, WriteVerify, ApplyEnd, ValidateApplied,
         RollbackIntent, Ended
<1> QED BY <1>1, <1>2, QuietStep

\* A write of one row, forward or back; i is the row.
LEMMA ChangeStep ==
  ASSUME TransactionInv, complete, UNCHANGED <<complete, ignored, journal, planned, meddled>>,
         pc \notin Ended, pc' \notin Ended, dirty',
         NEW i \in Index, live[i].what = journal[i].what,
         NEW p, live' = [live EXCEPT ![i].pri = p]
  PROVE  Contract!Change
<1>1. UNCHANGED <<complete, Original, Goal, Foreign>>
  BY DEF Original, Goal, Foreign
<1>2. Stage \in {"clean", "changing"} /\ Stage' = "changing"
  BY DEF Stage, Ended
<1>3. live[i].what = Original[i].what
  BY DEF Original
<1>4. live' = [live EXCEPT ![i].pri = live'[i].pri]
  <2>1. live \in Table
    BY DEF TransactionInv, TypeOK
  <2>2. live'[i].pri = p
    BY <2>1 DEF Table, Row
  <2> QED BY <2>2
<1> QED BY <1>1, <1>2, <1>3, <1>4 DEF Contract!Change, Contract!Running

LEMMA WriteContract ==
  ASSUME TransactionInv, WritePriority
  PROVE  Contract!Change \/ UNCHANGED Contract!vars
<1>1. /\ complete /\ pc \notin Ended /\ pc' \notin Ended
      /\ UNCHANGED <<complete, ignored, journal, planned, meddled>>
  BY DEF WritePriority, TransactionInv, ControlInv, Early, Ended, ghosts
<1>2. PICK i \in Wanted :
        \/ AsExpected(i) /\ dirty' /\ live' = [live EXCEPT ![i].pri = Requested]
        \/ AsExpected(i) /\ dirty' /\ live' = live
        \/ UNCHANGED <<live, dirty>>
  BY DEF WritePriority
<1>3. i \in Index
  BY RowsFacts DEF Wanted
<1>4. CASE AsExpected(i) /\ dirty' /\ live' = [live EXCEPT ![i].pri = Requested]
  <2>1. live[i].what = journal[i].what
    BY <1>4 DEF AsExpected
  <2> QED BY <1>1, <1>3, <1>4, <2>1, ChangeStep
<1>5. CASE AsExpected(i) /\ dirty' /\ live' = live
  <2>1. live[i].what = journal[i].what
    BY <1>5 DEF AsExpected
  <2>2. live' = [live EXCEPT ![i].pri = live[i].pri]
    BY <1>3, <1>5 DEF TransactionInv, TypeOK, Table, Row
  <2> QED BY <1>1, <1>3, <1>5, <2>1, <2>2, ChangeStep
<1>6. CASE UNCHANGED <<live, dirty>>
  BY <1>1, <1>6, QuietStep
<1> QED BY <1>2, <1>4, <1>5, <1>6

LEMMA RefuseStep ==
  ASSUME UNCHANGED <<live, complete, dirty, journal, planned, meddled>>,
         ignored \in BOOLEAN, ignored' \in BOOLEAN, dirty, pc \notin Ended, pc' \notin Ended
  PROVE  Contract!Refuse \/ UNCHANGED Contract!vars
<1>1. UNCHANGED <<live, complete, Original, Goal, Foreign>>
  BY SeenUnchanged
<1>2. Stage = "changing" /\ Stage' = "changing"
  BY DEF Stage, Ended
<1>3. ignored' = ignored \/ ignored' = ~ignored
  BY Zenon
<1> QED BY <1>1, <1>2, <1>3 DEF Contract!Refuse, Contract!vars

LEMMA RollbackWriteContract ==
  ASSUME TransactionInv, RollbackWrite
  PROVE  Contract!Change \/ Contract!Refuse \/ UNCHANGED Contract!vars
<1>1. /\ complete /\ dirty /\ dirty' /\ pc \notin Ended /\ pc' \notin Ended
      /\ UNCHANGED <<complete, dirty, journal, planned, meddled>>
  BY DEF RollbackWrite, TransactionInv, ControlInv, Early, Ended, state
<1>2. Record.index \in Index
  <2>1. writes \in Seq(Write) /\ hist \in 1 .. Len(writes)
    BY DEF RollbackWrite, TransactionInv, ControlInv, TypeOK
  <2>2. Record \in Write
    BY <2>1 DEF Record
  <2> QED BY <2>2 DEF Write
<1>3. \/ SameRow /\ live' = [live EXCEPT ![Record.index].pri = Record.old] /\ UNCHANGED ignored
      \/ UNCHANGED live /\ ignored'
      \/ UNCHANGED <<live, ignored>>
  BY DEF RollbackWrite
<1>4. CASE SameRow /\ live' = [live EXCEPT ![Record.index].pri = Record.old] /\ UNCHANGED ignored
  BY <1>1, <1>2, <1>4, ChangeStep DEF SameRow
<1>5. CASE UNCHANGED live /\ (ignored' \/ UNCHANGED ignored)
  <2>1. ignored \in BOOLEAN /\ ignored' \in BOOLEAN
    BY RollbackWriteStep DEF TransactionInv, TypeOK
  <2> QED BY <1>1, <1>5, <2>1, RefuseStep
<1> QED BY <1>3, <1>4, <1>5

\* A rollback begins with a fresh try, or the memory cannot be written at all.
LEMMA RollbackBeginContract ==
  ASSUME TransactionInv, RollbackBegin
  PROVE  Contract!Halt \/ Contract!Refuse \/ UNCHANGED Contract!vars
<1>1. /\ complete /\ pc \notin Ended
      /\ UNCHANGED <<live, complete, dirty, journal, planned, meddled>>
  BY DEF RollbackBegin, TransactionInv, ControlInv, Early, Ended, firmware, context, state
<1>2. ignored \in BOOLEAN /\ ignored' \in BOOLEAN
  BY RollbackBeginStep DEF TransactionInv, TypeOK
<1>3. CASE ~dirty
  <2>1. UNCHANGED ignored /\ pc' \in {"abort", "halted"}
    BY <1>3 DEF RollbackBegin, RollbackExit, TransactionInv, ControlInv
  <2>2. Contract!Restored
    BY <1>3, CleanRestored
  <2>3. CASE pc' = "abort"
    BY <1>1, <2>1, <2>3, QuietStep DEF Ended
  <2>4. CASE pc' = "halted"
    BY <1>1, <2>1, <2>2, <2>4, HaltStep
  <2> QED BY <2>1, <2>3, <2>4
<1>4. CASE dirty /\ pc' \notin Ended
  BY <1>1, <1>2, <1>4, RefuseStep
<1>5. CASE dirty /\ pc' \in Ended
  <2>1. pc' = "halted" /\ ignored'
    BY <1>5 DEF RollbackBegin, RollbackExit, Ended
  <2>2. UNCHANGED <<live, complete, Original, Goal, Foreign>>
    BY <1>1, SeenUnchanged
  <2>3. Stage = "changing" /\ Stage' = "halt"
    BY <1>1, <1>5, <2>1 DEF Stage, Ended
  <2> QED BY <2>1, <2>2, <2>3 DEF Contract!Halt, Contract!Running
<1> QED BY <1>3, <1>4, <1>5

\* The end of a rollback: it is believed only if the table is the journaled one.
LEMMA RollbackEndContract ==
  ASSUME TransactionInv, RollbackEnd
  PROVE  Contract!Clear \/ Contract!Halt \/ UNCHANGED Contract!vars
<1>1. /\ complete /\ dirty /\ pc \notin Ended /\ pc = "back" /\ hist = 0
      /\ UNCHANGED <<live, complete, ignored, journal, planned, meddled>>
      /\ pc' \in {"abort", "halted"}
  BY DEF RollbackEnd, RollbackExit, TransactionInv, ControlInv, Early, Ended, firmware, context,
         ghosts
<1>2. ignored \/ Contract!Restored
  <2>1. \A i \in Index : \A k \in 1 .. hist : writes[k].index # i
    BY <1>1
  <2> QED BY <1>1, <2>1 DEF TransactionInv, RollbackInv, Contract!Restored, Original, Foreign
<1>3. CASE pc' = "halted"
  BY <1>1, <1>2, <1>3, HaltStep
<1>4. CASE pc' = "abort" /\ dirty'
  BY <1>1, <1>4, QuietStep DEF Ended
<1>5. CASE pc' = "abort" /\ ~dirty'
  <2>1. live = journal
    BY <1>1, <1>5 DEF RollbackEnd, state
  <2>2. Contract!Restored
    BY <1>1, <2>1 DEF Contract!Restored, Original
  <2>3. UNCHANGED <<live, complete, Original, Goal, Foreign>>
    BY <1>1, SeenUnchanged
  <2>4. Stage = "changing" /\ Stage' = "clean"
    BY <1>1, <1>5 DEF Stage, Ended
  <2> QED BY <1>1, <2>2, <2>3, <2>4 DEF Contract!Clear
<1> QED BY <1>1, <1>3, <1>4, <1>5

LEMMA AbortContract ==
  ASSUME TransactionInv, Abort
  PROVE  Contract!Halt \/ UNCHANGED Contract!vars
<1>1. /\ pc \notin Ended
      /\ UNCHANGED <<live, complete, ignored, dirty, journal, planned, meddled>>
  BY DEF Abort, Ended, firmware, context, state, ghosts
<1>2. pc' = "undo" \/ (pc' = "halted" /\ ~dirty)
  BY DEF Abort
<1>3. CASE pc' = "undo"
  BY <1>1, <1>3, QuietStep DEF Ended
<1>4. CASE pc' = "halted" /\ ~dirty
  <2>1. Contract!Restored
    BY <1>4, CleanRestored
  <2> QED BY <1>1, <1>4, <2>1, HaltStep
<1> QED BY <1>2, <1>3, <1>4

\* The table is booted, or left behind by a log that cannot be closed, only as
\* it was planned.
LEMMA BootContract ==
  ASSUME TransactionInv, late \subseteq meddled, BootArguments
  PROVE  Contract!Boot \/ Contract!Halt
<1>1. /\ complete /\ dirty /\ pc = "complete" /\ pc \notin Ended
      /\ UNCHANGED <<live, complete, ignored, dirty, journal, planned, meddled>>
      /\ pc' \in {"booting", "stopped"}
  BY DEF BootArguments, Ended, firmware, context, state, ghosts
<1>2. Contract!Reached
  <2>1. \A i \in Index : Goal[i] = [pri |-> planned[i], what |-> journal[i].what]
    BY <1>1 DEF Goal
  <2>2. \A i \in Index \ Foreign : live[i] = Goal[i]
    BY <1>1, <2>1 DEF TransactionInv, ValidInv, Foreign
  <2>3. sel \in Index /\ \A i \in Index : planned[i] = 0 <=> i = sel
    BY <1>1 DEF TransactionInv, TypeOK, ValidInv, OnlyZero
  <2>4. \A i \in Index : Goal[i].pri = planned[i]
    BY <1>1 DEF Goal
  <2>5. \A i \in Index : Goal[i].pri = 0 <=> i = sel
    BY <2>3, <2>4
  <2> QED BY <2>2, <2>3, <2>5 DEF Contract!Reached
<1>3. CASE pc' = "stopped"
  BY <1>1, <1>2, <1>3, HaltStep
<1>4. CASE pc' = "booting"
  <2>1. UNCHANGED <<live, complete, Original, Goal, Foreign>>
    BY <1>1, SeenUnchanged
  <2>2. Stage = "changing" /\ Stage' = "boot"
    BY <1>1, <1>4 DEF Stage, Ended
  <2> QED BY <1>1, <1>2, <2>1, <2>2 DEF Contract!Boot
<1> QED BY <1>1, <1>3, <1>4

LEMMA MeddleContract ==
  ASSUME TransactionInv, Meddle
  PROVE  Contract!Firmware \/ UNCHANGED Contract!vars
<1>1. /\ pc \notin Ended /\ pc' \notin Ended
      /\ UNCHANGED <<pc, complete, ignored, dirty, journal, planned>>
  BY DEF Meddle, context, state
<1>2. CASE UNCHANGED <<live, meddled>>
  BY <1>1, <1>2, QuietStep
<1>3. ASSUME NEW i \in Index, NEW r \in Oddities,
             live' = [live EXCEPT ![i] = r], meddled' = meddled \cup {i}
      PROVE  Contract!Firmware
  <2>1. \A j \in Index \ {i} : live'[j] = live[j]
    BY <1>3 DEF TransactionInv, TypeOK, Table
  <2>2. Stage' = Stage /\ Stage \in {"clean", "changing"}
    BY <1>1 DEF Stage, Ended
  <2>3. Foreign' = IF complete THEN Foreign \cup {i} ELSE Foreign
    BY <1>1, <1>3 DEF Foreign
  <2>4. IF complete THEN UNCHANGED <<Original, Goal>> ELSE Original' = live' /\ Goal' = live'
    BY <1>1 DEF Original, Goal
  <2> QED BY <1>1, <2>1, <2>2, <2>3, <2>4 DEF Contract!Firmware, Contract!Running
<1> QED BY <1>2, <1>3 DEF Meddle

LEMMA ContractStep ==
  ASSUME TransactionInv, late \subseteq meddled, [Next]_vars
  PROVE  [Contract!Next]_(Contract!vars)
<1>1. CASE UNCHANGED vars
  <2>1. UNCHANGED <<pc, dirty, ignored, live, complete, journal, planned, meddled>>
    BY <1>1 DEF vars, firmware, context, state, ghosts
  <2>2. UNCHANGED <<live, complete, Original, Goal, Foreign>>
    BY <2>1, SeenUnchanged
  <2>3. Stage' = Stage
    BY <2>1 DEF Stage
  <2> QED BY <2>1, <2>2, <2>3 DEF Contract!vars
<1>2. CASE Discover \/ Prepare \/ Release \/ JournalBegin
  BY <1>2, EarlyContract DEF Contract!Next
<1>3. CASE JournalEnd
  BY <1>3, JournalContract
<1>4. CASE ApplyBegin \/ WriteSkip \/ WriteIntent \/ WriteVerify \/ ApplyEnd \/ ValidateApplied
             \/ RollbackIntent
  BY <1>4, LoopContract
<1>5. CASE WritePriority \/ RollbackWrite
  BY <1>5, WriteContract, RollbackWriteContract DEF Contract!Next
<1>6. CASE RollbackBegin \/ RollbackEnd \/ Abort
  BY <1>6, RollbackBeginContract, RollbackEndContract, AbortContract DEF Contract!Next
<1>7. CASE BootArguments
  BY <1>7, BootContract DEF Contract!Next
<1>8. CASE Meddle
  BY <1>8, MeddleContract DEF Contract!Next
<1> QED BY <1>1, <1>2, <1>3, <1>4, <1>5, <1>6, <1>7, <1>8 DEF Next, Terminated

\* The reordering implements ReorderContract, for every table, every order and
\* any number of interferences: all of its changes or none of them, whenever the
\* program stops or calls LegacyBoot.
THEOREM ReorderAtomic == Spec => ReorderIsAtomic
<1>1. Init => Contract!Init
  BY DEF Init, Contract!Init, Stage, Original, Goal, Foreign
<1>2. TransactionInv /\ late \subseteq meddled /\ [Next]_vars => [Contract!Next]_(Contract!vars)
  BY ContractStep
<1> QED BY <1>1, <1>2, TransactionInvariant, LateIsMeddled, PTL
        DEF Spec, ReorderIsAtomic, Contract!Spec

=============================================================================
