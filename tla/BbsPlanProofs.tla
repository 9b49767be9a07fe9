--------------------------- MODULE BbsPlanProofs ---------------------------
(***************************************************************************)
(* Proofs that the ranking loop is right for every table of up to 256 rows *)
(* and every content of LegacyDevOrder.                                    *)
(***************************************************************************)
EXTENDS BbsPlan, FiniteSetTheorems, TLAPS

-----------------------------------------------------------------------------
(* The boot table, LegacyDevOrder and the ranking.                         *)

LEMMA NumberFacts == MaxUint16 \in Nat /\ MaxUint16 > 256
BY DEF MaxUint16

LEMMA PositionFacts ==
  \A n \in Nat : \A k \in 1 .. n : n <= 256 => k - 1 \in 0 .. 255 /\ (k - 1) + 1 = k
OBVIOUS

LEMMA RankFacts == \A k \in 0 .. 255 : k \in 0 .. MaxUint16 /\ k # MaxUint16
BY NumberFacts

LEMMA IndexFacts ==
  /\ Index \subseteq Nat /\ IsFiniteSet(Index) /\ Cardinality(Index) = Count
  /\ Count \in Nat /\ Count >= 1 /\ Count <= 256
<1>1. Count \in Nat /\ Count >= 1 /\ Count <= 256
  BY CountAssumption
<1>2. IsFiniteSet(0 .. Count - 1) /\ Cardinality(0 .. Count - 1) = Count
  BY <1>1, FS_Interval
<1> QED BY <1>1, <1>2 DEF Index

\* A variable that names no row twice has at most as many entries as there are
\* rows.
LEMMA FitsBound ==
  ASSUME NEW r \in Seq(Entry), NEW t, Fits(r, t)
  PROVE  Len(r) <= Count
<1> DEFINE f == [k \in 1 .. Len(r) |-> r[k].index]
<1>1. Len(r) \in Nat
  OBVIOUS
<1>2. f \in [1 .. Len(r) -> Index]
  BY DEF Fits
<1>3. IsFiniteSet(1 .. Len(r)) /\ Cardinality(1 .. Len(r)) = Len(r)
  BY <1>1, FS_Interval
<1>4. \A x, y \in 1 .. Len(r) : f[x] = f[y] => x = y
  BY DEF Fits
<1> HIDE DEF f
<1>5. ~(Cardinality(Index) < Cardinality(1 .. Len(r)))
  <2>1. SUFFICES ASSUME Cardinality(Index) < Cardinality(1 .. Len(r)) PROVE FALSE
    OBVIOUS
  <2>2. \E x, y \in 1 .. Len(r) : x # y /\ f[x] = f[y]
    BY <1>2, <1>3, <2>1, IndexFacts, FS_PigeonHole
  <2> QED BY <2>2, <1>4
<1> QED BY <1>1, <1>3, <1>5, IndexFacts

\* What a captured order is.
LEMMA CapturedFacts ==
  ASSUME NEW r \in Seq(Entry), NEW t \in Table, Fits(r, t)
  PROVE  /\ Captured(r) \in OrderType
         /\ \A i \in Index : BbsPriorityIsValid(t[i].pri) => Captured(r).rank[i] # MaxUint16
         /\ \A i, j \in Index :
              BbsPriorityIsValid(t[i].pri) /\ BbsPriorityIsValid(t[j].pri) /\ i # j
                => Captured(r).rank[i] # Captured(r).rank[j]
<1> DEFINE pos == [i \in Index |-> CHOOSE k \in 1 .. Len(r) : r[k].index = i]
           rank == Captured(r).rank
<1>1. \A i \in Index : Names(r, i) => pos[i] \in 1 .. Len(r) /\ r[pos[i]].index = i
  BY DEF Names
<1>2. Len(r) \in Nat /\ Len(r) <= 256
  BY FitsBound, IndexFacts
<1>3. \A i \in Index : rank[i] = IF Names(r, i) THEN pos[i] - 1 ELSE MaxUint16
  BY DEF Captured
<1>4. rank = [i \in Index |-> rank[i]]
  BY DEF Captured
<1>5. Captured(r).usable \in BOOLEAN /\ Captured(r).off \in [Index -> BOOLEAN]
  BY DEF Captured
<1>6. rank \in [Index -> 0 .. MaxUint16] => Captured(r) \in OrderType
  BY <1>5 DEF Captured, OrderType
<1>7. \A i \in Index : BbsPriorityIsValid(t[i].pri) => Names(r, i)
  BY DEF Fits
<1> HIDE DEF pos, rank
<1>8. ASSUME NEW i \in Index, Names(r, i)
      PROVE  rank[i] \in 0 .. 255 /\ rank[i] + 1 = pos[i] /\ r[pos[i]].index = i
  <2>1. pos[i] \in 1 .. Len(r) /\ r[pos[i]].index = i
    BY <1>1, <1>8
  <2>2. rank[i] = pos[i] - 1
    BY <1>3, <1>8
  <2>3. rank[i] \in 0 .. 255 /\ rank[i] + 1 = pos[i]
    BY <1>2, <2>1, <2>2, PositionFacts, ZenonT(30)
  <2> QED BY <2>1, <2>3
<1>9. ASSUME NEW i \in Index PROVE rank[i] \in 0 .. MaxUint16
  <2>1. CASE Names(r, i)
    BY <1>8, <2>1, RankFacts
  <2>2. CASE ~Names(r, i)
    BY <1>3, <2>2, NumberFacts
  <2> QED BY <2>1, <2>2
<1>10. rank \in [Index -> 0 .. MaxUint16]
  BY <1>4, <1>9
<1>11. ASSUME NEW i \in Index, BbsPriorityIsValid(t[i].pri)
       PROVE  rank[i] # MaxUint16
  BY <1>7, <1>8, <1>11, RankFacts
<1>12. ASSUME NEW i \in Index, NEW j \in Index,
              BbsPriorityIsValid(t[i].pri), BbsPriorityIsValid(t[j].pri), i # j
       PROVE  rank[i] # rank[j]
  BY <1>7, <1>8, <1>12
<1> QED BY <1>6, <1>10, <1>11, <1>12 DEF rank

LEMMA FallbackType == Fallback \in OrderType /\ ~Fallback.usable
BY NumberFacts DEF Fallback, OrderType

-----------------------------------------------------------------------------
(* The inductive invariant of the loop.                                    *)

Before(i, j) == Ahead(table, sel, order, i, j)

\* The rows that have their new priority.
Done == ranked \cap Rows

\* A usable order ranks every row with a valid priority, each differently.
OrderInv ==
  order.usable =>
    /\ \A i \in Index : BbsPriorityIsValid(table[i].pri) => order.rank[i] # MaxUint16
    /\ \A i, j \in Index :
         BbsPriorityIsValid(table[i].pri) /\ BbsPriorityIsValid(table[j].pri) /\ i # j
           => order.rank[i] # order.rank[j]

\* Protected rows are as they were, the selected row is first.
BaseInv ==
  /\ sel \in Rows /\ sel \in ranked /\ planned[sel] = 0
  /\ Index \ Rows \subseteq ranked
  /\ \A i \in Index \ Rows : planned[i] = table[i].pri

\* The finished rows have the priorities below NextPriority.
DenseInv ==
  /\ next = Cardinality(Done) /\ next >= 1
  /\ \A i \in Done : planned[i] < next /\ (planned[i] = 0 => i = sel)
  /\ \A i, j \in Done : planned[i] = planned[j] => i = j
  /\ \A p \in 0 .. next - 1 : \E i \in Done : planned[i] = p

\* The finished rows are a beginning of the intended ranking.
RankInv ==
  /\ \A i \in Done, j \in Rows \ ranked : Before(i, j) /\ ~Before(j, i)
  /\ \A i \in Done : planned[i] = Cardinality({j \in Rows : Before(j, i)})

PassInv ==
  /\ pass = 1 => \A i \in Rows \ ranked : ~table[i].what.hdd
  /\ pc \in {"check", "ready"} => Rows \subseteq ranked
  /\ pc = "ready" => \A i \in Index \ {sel} : planned[i] # 0

PlanInv ==
  /\ TypeOK
  /\ OrderInv
  /\ pc # "compromised"
  /\ pc \in {"rank", "check", "ready"} => BaseInv /\ DenseInv /\ RankInv /\ PassInv

-----------------------------------------------------------------------------

\* The intended order: irreflexive, with the selected disk ahead of the others.
LEMMA BeforeSelf == \A i \in Index : TypeOK => ~Before(i, i)
BY IndexFacts DEF Before, Ahead, TypeOK, OrderType, Table, Row, Priority

LEMMA BeforeSelected == \A i \in Index : i # sel => Before(sel, i) /\ ~Before(i, sel)
BY DEF Before, Ahead

\* The loop prefers the row that the intended order puts ahead.
LEMMA BetterIsBefore ==
  ASSUME TypeOK, OrderInv, sel \in ranked,
         NEW i \in Candidates, NEW j \in Candidates, i # j, Better(i, j)
  PROVE  Before(i, j) /\ ~Before(j, i)
<1>1. /\ i \in Index /\ j \in Index /\ i # sel /\ j # sel
      /\ table[i].what.hdd = (pass = 0) /\ table[j].what.hdd = (pass = 0)
      /\ i \in Rows /\ j \in Rows
  BY DEF Candidates, Rows, Eligible
<1>0. i # sel /\ j # sel
  BY <1>1
<1>2. BbsPriorityIsValid(table[i].pri) /\ BbsPriorityIsValid(table[j].pri)
  BY <1>1 DEF Rows, Eligible, BbsIndexIsTransactionEligible, BbsEntryIsTransactionEligible
<1>3. /\ i \in Int /\ j \in Int
      /\ table[i].pri \in Int /\ table[j].pri \in Int
      /\ order.rank[i] \in Int /\ order.rank[j] \in Int
      /\ table[i].what.hdd = table[j].what.hdd
  BY <1>1, IndexFacts, NumberFacts, SMTT(30) DEF TypeOK, OrderType, Table, Row, Priority
<1>4. CASE order.usable
  <2>1. order.rank[i] # order.rank[j]
    BY <1>1, <1>2, <1>4 DEF OrderInv
  <2>2. order.rank[i] < order.rank[j]
    BY <1>4, <1>3, <2>1 DEF Better
  <2> QED BY <1>1, <1>3, <1>4, <2>2 DEF Before, Ahead
<1>5. CASE ~order.usable /\ pass = 0
  <2>1. i < j
    BY <1>5 DEF Better
  <2>2. table[i].what.hdd /\ table[j].what.hdd
    BY <1>1, <1>5
  <2> QED BY <1>0, <1>3, <1>5, <2>1, <2>2 DEF Before, Ahead
<1>6. CASE ~order.usable /\ pass # 0
  <2>1. table[i].pri < table[j].pri \/ (table[i].pri = table[j].pri /\ i < j)
    BY <1>6 DEF Better
  <2>2. ~table[i].what.hdd /\ ~table[j].what.hdd
    BY <1>1, <1>6
  <2> QED BY <1>0, <1>3, <1>6, <2>1, <2>2 DEF Before, Ahead
<1> QED BY <1>4, <1>5, <1>6

\* Disks are ahead of everything else.
LEMMA DiskIsBefore ==
  ASSUME NEW i \in Index, NEW j \in Index, i # sel, j # sel,
         table[i].what.hdd, ~table[j].what.hdd
  PROVE  Before(i, j) /\ ~Before(j, i)
BY DEF Before, Ahead

-----------------------------------------------------------------------------
(* One lemma per action.                                                   *)

LEMMA RowsFacts ==
  /\ Rows \subseteq Index /\ IsFiniteSet(Rows)
  /\ \A D : D \subseteq Rows =>
       IsFiniteSet(D) /\ Cardinality(D) \in Nat /\ Cardinality(D) <= Count
<1>1. Rows \subseteq Index
  BY DEF Rows, Eligible
<1>2. ASSUME NEW D, D \subseteq Index
      PROVE  IsFiniteSet(D) /\ Cardinality(D) \in Nat /\ Cardinality(D) <= Count
  BY <1>2, IndexFacts, FS_Subset, FS_CardinalityType
<1> QED BY <1>1, <1>2

LEMMA SameRows ==
  ASSUME UNCHANGED <<table, sel, order>>
  PROVE  Rows' = Rows /\ \A i, j : Before(i, j)' <=> Before(i, j)
BY DEF Rows, Before, Ahead, Eligible, BbsIndexIsTransactionEligible

LEMMA InitStep == Init => PlanInv
<1>1. SUFFICES ASSUME Init PROVE PlanInv
  OBVIOUS
<1>2. TypeOK
  <2>1. order \in OrderType
    BY <1>1, FallbackType DEF Init
  <2>2. planned \in [Index -> Priority]
    BY <1>1, NumberFacts DEF Init, Priority
  <2>3. next \in 0 .. Count
    BY <1>1, IndexFacts DEF Init
  <2> QED BY <1>1, <2>1, <2>2, <2>3, PlanAssumption DEF Init, TypeOK
<1>3. OrderInv
  BY <1>1, FallbackType DEF Init, OrderInv
<1> QED BY <1>1, <1>2, <1>3 DEF Init, PlanInv

LEMMA CaptureStep ==
  ASSUME PlanInv, CaptureLegacyDevOrder
  PROVE  PlanInv'
<1>1. order' \in OrderType /\ OrderInv'
  <2>1. CASE UNCHANGED order
    BY <2>1 DEF PlanInv, TypeOK, OrderInv, CaptureLegacyDevOrder, inputs
  <2>2. CASE order' = Fallback
    BY <2>2, FallbackType DEF OrderInv
  <2>3. CASE raw # NoOrder /\ Fits(raw, table) /\ order' = Captured(raw)
    <3>1. raw \in Seq(Entry) /\ table \in Table
      BY <2>3 DEF PlanInv, TypeOK
    <3> QED BY <2>3, <3>1, CapturedFacts DEF OrderInv, CaptureLegacyDevOrder, inputs
  <2> QED BY <2>1, <2>2, <2>3 DEF CaptureLegacyDevOrder, Captures
<1>2. TypeOK'
  BY <1>1 DEF PlanInv, TypeOK, CaptureLegacyDevOrder, inputs
<1> QED BY <1>1, <1>2 DEF PlanInv, CaptureLegacyDevOrder

LEMMA PlanBeginStep ==
  ASSUME PlanInv, PlanBegin
  PROVE  PlanInv'
<1>0. /\ UNCHANGED <<table, sel, raw, order>> /\ sel \in Index
      /\ pc' = IF sel \in Rows THEN "rank" ELSE "failed"
      /\ ranked' = (Index \ Rows) \cup {sel} /\ next' = 1 /\ pass' = 0
      /\ planned' = [i \in Index |-> IF i = sel THEN 0
                                     ELSE IF i \in Rows THEN Unprioritized ELSE table[i].pri]
  BY DEF PlanBegin, inputs, PlanInv, TypeOK
<1>1. Rows' = Rows /\ (\A i, j : Before(i, j)' <=> Before(i, j)) /\ Rows \subseteq Index
  BY <1>0, SameRows, RowsFacts
<1>2. TypeOK'
  <2>1. Unprioritized \in Priority /\ 0 \in Priority
    BY DEF Unprioritized, Priority, MaxUint16
  <2>2. \A i \in Index : table[i].pri \in Priority
    BY DEF PlanInv, TypeOK, Table, Row
  <2>3. planned' \in [Index -> Priority]
    BY <1>0, <2>1, <2>2
  <2>4. next' \in 0 .. Count
    BY <1>0, IndexFacts
  <2> QED BY <1>0, <2>3, <2>4 DEF PlanInv, TypeOK
<1>3. OrderInv'
  BY <1>0 DEF PlanInv, OrderInv
<1>4. ASSUME sel \in Rows PROVE BaseInv' /\ DenseInv' /\ RankInv' /\ PassInv'
  <2>1. Done' = {sel}
    BY <1>0, <1>1, <1>4 DEF Done
  <2>2. planned'[sel] = 0
    BY <1>0
  <2>3. BaseInv'
    BY <1>0, <1>1, <1>4, <2>2 DEF BaseInv
  <2>4. DenseInv'
    <3>1. Cardinality({sel}) = 1
      BY FS_Singleton
    <3> QED BY <1>0, <2>1, <2>2, <3>1 DEF DenseInv
  <2>5. RankInv'
    <3>1. \A j \in Rows \ ranked' : Before(sel, j) /\ ~Before(j, sel)
      BY <1>0, <1>1, BeforeSelected
    <3>2. {j \in Rows : Before(j, sel)} = {}
      BY <1>1, BeforeSelected, BeforeSelf, <1>0 DEF PlanInv
    <3>3. planned'[sel] = Cardinality({j \in Rows : Before(j, sel)})
      BY <2>2, <3>2, FS_EmptySet
    <3> QED BY <1>0, <1>1, <2>1, <3>1, <3>3 DEF RankInv
  <2>6. PassInv'
    BY <1>0, <1>4 DEF PassInv
  <2> QED BY <2>3, <2>4, <2>5, <2>6
<1> QED BY <1>0, <1>2, <1>3, <1>4 DEF PlanInv

\* The row that a round picks goes behind all finished rows and ahead of all
\* remaining ones.
LEMMA RankNextStep ==
  ASSUME PlanInv, RankNext
  PROVE  PlanInv'
<1>0. /\ pc = "rank" /\ TypeOK /\ OrderInv
      /\ BaseInv /\ DenseInv /\ RankInv /\ PassInv
      /\ UNCHANGED <<table, sel, raw, order, pass>>
  BY DEF RankNext, inputs, PlanInv
<1>1. \A i \in Candidates : i \in Rows /\ i \notin ranked /\ i \in Index /\ i # sel
  BY <1>0, RowsFacts DEF Candidates, BaseInv
<1>2. order.usable => \A i \in Candidates : order.rank[i] # MaxUint16
  <2>1. \A i \in Candidates : BbsPriorityIsValid(table[i].pri)
    BY <1>1 DEF Rows, Eligible, BbsIndexIsTransactionEligible, BbsEntryIsTransactionEligible
  <2> QED BY <1>0, <1>1, <2>1 DEF OrderInv
<1>3. PICK best \in Candidates :
        /\ \A i \in Candidates \ {best} : Better(best, i)
        /\ planned' = [planned EXCEPT ![best] = next]
        /\ ranked' = ranked \cup {best} /\ next' = next + 1 /\ pc' = pc
  BY <1>2 DEF RankNext
<1>4. best \in Rows /\ best \notin ranked /\ best \in Index /\ best # sel
  BY <1>1
<1>5. Rows' = Rows /\ (\A i, j : Before(i, j)' <=> Before(i, j)) /\ Rows \subseteq Index
  BY <1>0, SameRows, RowsFacts
<1>6. Done' = Done \cup {best} /\ best \notin Done /\ Done \subseteq Rows
  BY <1>3, <1>4, <1>5 DEF Done
<1>7. next \in Nat /\ next >= 1 /\ next + 1 <= Count /\ next + 1 = Cardinality(Done')
  <2>1. IsFiniteSet(Done) /\ next = Cardinality(Done) /\ next >= 1
    BY <1>0, <1>6, RowsFacts DEF DenseInv
  <2>2. Cardinality(Done \cup {best}) = next + 1
    BY <1>6, <2>1, FS_AddElement
  <2>3. Done \cup {best} \subseteq Rows
    BY <1>4, <1>6
  <2>4. next + 1 <= Count /\ next \in Nat
    BY <1>6, <2>1, <2>2, <2>3, RowsFacts
  <2> QED BY <1>6, <2>1, <2>2, <2>4
<1>8. /\ planned \in [Index -> Priority] /\ planned'[best] = next
      /\ \A i \in Index : i # best => planned'[i] = planned[i]
  BY <1>0, <1>3, <1>4 DEF TypeOK
<1>9. TypeOK'
  <2>1. next \in Priority /\ next + 1 \in 0 .. Count
    BY <1>7, IndexFacts, NumberFacts DEF Priority
  <2>2. planned' \in [Index -> Priority] /\ next' \in 0 .. Count
    BY <1>3, <1>8, <2>1
  <2>3. ranked' \subseteq Index
    BY <1>0, <1>3, <1>4 DEF TypeOK
  <2> QED BY <1>0, <1>3, <2>2, <2>3 DEF TypeOK
<1>10. OrderInv'
  BY <1>0 DEF OrderInv
<1>11. BaseInv'
  BY <1>0, <1>3, <1>4, <1>5, <1>8 DEF BaseInv, TypeOK
<1>12. DenseInv'
  <2>0. Done \subseteq Index /\ \A i \in Done : planned'[i] = planned[i] /\ planned[i] \in Int
    BY <1>5, <1>6, <1>8, NumberFacts DEF Priority
  <2>1. \A i \in Done' : planned'[i] < next' /\ (planned'[i] = 0 => i = sel)
    BY <1>0, <1>3, <1>6, <1>7, <1>8, <2>0 DEF DenseInv
  <2>2. \A i, j \in Done' : planned'[i] = planned'[j] => i = j
    <3>1. \A i \in Done : planned'[i] < next
      BY <1>0, <2>0 DEF DenseInv
    <3>2. \A i, j \in Done : planned'[i] = planned'[j] => i = j
      BY <1>0, <2>0 DEF DenseInv
    <3> QED BY <1>6, <1>7, <1>8, <2>0, <3>1, <3>2
  <2>3. ASSUME NEW p \in 0 .. next' - 1 PROVE \E i \in Done' : planned'[i] = p
    <3>1. CASE p = next
      BY <1>6, <1>8, <3>1
    <3>2. CASE p # next
      <4>1. p \in 0 .. next - 1
        BY <1>3, <1>7, <2>3, <3>2
      <4>2. PICK i \in Done : planned[i] = p
        BY <1>0, <4>1 DEF DenseInv
      <4> QED BY <1>6, <2>0, <4>2
    <3> QED BY <3>1, <3>2
  <2>4. \A p \in 0 .. next' - 1 : \E i \in Done' : planned'[i] = p
    BY <2>3
  <2>5. next' = Cardinality(Done') /\ next' >= 1
    BY <1>3, <1>7
  <2> QED BY <1>0, <2>1, <2>2, <2>4, <2>5 DEF DenseInv
<1>13. \A i \in (Rows \ ranked) \ {best} : Before(best, i) /\ ~Before(i, best)
  <2>1. SUFFICES ASSUME NEW i \in Rows \ ranked, i # best
                 PROVE  Before(best, i) /\ ~Before(i, best)
    OBVIOUS
  <2>2. i \in Index /\ i # sel
    BY <1>0, <2>1, RowsFacts DEF BaseInv
  <2>3. CASE i \in Candidates
    BY <1>0, <1>3, <2>1, <2>3, BetterIsBefore DEF BaseInv
  <2>4. CASE i \notin Candidates
    <3>1. pass = 0 /\ table[best].what.hdd /\ ~table[i].what.hdd
      <4>1. table[i].what.hdd \in BOOLEAN /\ pass \in {0, 1}
        BY <1>0, <2>2 DEF TypeOK, Table, Row, Kind
      <4>2. table[i].what.hdd # (pass = 0) /\ table[best].what.hdd = (pass = 0)
        BY <1>3, <2>1, <2>4 DEF Candidates
      <4>3. pass = 0
        BY <1>0, <2>1, <4>1, <4>2 DEF PassInv
      <4> QED BY <4>1, <4>2, <4>3
    <3> QED BY <1>4, <2>2, <3>1, DiskIsBefore
  <2> QED BY <2>3, <2>4
<1>14. RankInv'
  <2>1. \A i \in Done', j \in Rows \ ranked' : Before(i, j) /\ ~Before(j, i)
    BY <1>0, <1>3, <1>6, <1>13 DEF RankInv
  <2>2. {j \in Rows : Before(j, best)} = Done
    <3>1. ~Before(best, best)
      BY <1>0, <1>4, BeforeSelf
    <3>2. \A j \in Done : Before(j, best)
      BY <1>0, <1>4 DEF RankInv
    <3>3. \A j \in Rows : j \notin Done => ~Before(j, best)
      BY <1>13, <3>1 DEF Done
    <3> QED BY <1>6, <3>2, <3>3
  <2>3. \A i \in Done' : planned'[i] = Cardinality({j \in Rows : Before(j, i)})
    <3>1. planned'[best] = Cardinality({j \in Rows : Before(j, best)})
      BY <1>0, <1>8, <2>2 DEF DenseInv
    <3>2. ASSUME NEW i \in Done PROVE planned'[i] = Cardinality({j \in Rows : Before(j, i)})
      BY <1>0, <1>5, <1>6, <1>8, <3>2 DEF RankInv
    <3> QED BY <1>6, <3>1, <3>2
  <2>4. \A i : {j \in Rows : Before(j, i)}' = {j \in Rows : Before(j, i)}
    BY <1>5
  <2> QED BY <1>5, <2>1, <2>3, <2>4 DEF RankInv
<1>15. PassInv'
  BY <1>0, <1>3, <1>5 DEF PassInv
<1> QED BY <1>0, <1>3, <1>9, <1>10, <1>11, <1>12, <1>14, <1>15 DEF PlanInv

LEMMA PassDoneStep ==
  ASSUME PlanInv, PassDone
  PROVE  PlanInv'
<1>0. /\ pc = "rank" /\ TypeOK /\ OrderInv /\ Candidates = {}
      /\ BaseInv /\ DenseInv /\ RankInv /\ PassInv
      /\ UNCHANGED <<table, sel, raw, order, planned, ranked, next>>
      /\ \/ pass = 0 /\ pass' = 1 /\ pc' = "rank"
         \/ pass = 1 /\ pass' = 1 /\ pc' = "check"
  BY DEF PassDone, inputs, PlanInv, TypeOK
<1>1. Rows' = Rows /\ (\A i, j : Before(i, j)' <=> Before(i, j)) /\ Rows \subseteq Index
  BY <1>0, SameRows, RowsFacts
<1>2. TypeOK' /\ OrderInv'
  BY <1>0 DEF TypeOK, OrderInv
<1>3. Done' = Done
  BY <1>0, <1>1 DEF Done
<1>4. BaseInv' /\ DenseInv'
  BY <1>0, <1>1, <1>3 DEF BaseInv, DenseInv
<1>5. RankInv'
  <2>1. \A i : {j \in Rows : Before(j, i)}' = {j \in Rows : Before(j, i)}
    BY <1>1
  <2> QED BY <1>0, <1>1, <1>3, <2>1 DEF RankInv
<1>6. PassInv'
  <2>1. \A i \in Rows \ ranked : table[i].what.hdd # (pass = 0)
    BY <1>0 DEF Candidates
  <2>2. \A i \in Rows \ ranked : ~table[i].what.hdd
    <3>1. CASE pass = 0
      <4>1. \A i \in Rows : table[i].what.hdd \in BOOLEAN
        BY <1>0, <1>1 DEF TypeOK, Table, Row, Kind
      <4> QED BY <2>1, <3>1, <4>1
    <3>2. CASE pass = 1
      BY <1>0, <3>2 DEF PassInv
    <3> QED BY <1>0, <3>1, <3>2
  <2>3. pass = 1 => Rows \subseteq ranked
    <3>1. SUFFICES ASSUME pass = 1, NEW i \in Rows \ ranked PROVE FALSE
      OBVIOUS
    <3>2. (pass = 0) = FALSE /\ table[i].what.hdd = FALSE
      <4>1. table[i].what.hdd \in BOOLEAN
        BY <1>0, <1>1 DEF TypeOK, Table, Row, Kind
      <4> QED BY <2>2, <3>1, <4>1
    <3> QED BY <2>1, <3>1, <3>2
  <2> QED BY <1>0, <1>1, <2>2, <2>3 DEF PassInv
<1> QED BY <1>0, <1>2, <1>4, <1>5, <1>6 DEF PlanInv

\* A step that changes nothing but the label, after the ranking.
LEMMA PlanCheckStep ==
  ASSUME PlanInv, PlanCheck
  PROVE  PlanInv'
<1>0. /\ pc = "check" /\ TypeOK /\ OrderInv
      /\ BaseInv /\ DenseInv /\ RankInv /\ PassInv
      /\ UNCHANGED <<table, sel, raw, order, planned, ranked, next, pass>>
      /\ \/ pc' = "failed"
         \/ pc' = "ready" /\ \A i \in Index \ {sel} : planned[i] # 0
  BY DEF PlanCheck, inputs, PlanInv
<1>1. Rows' = Rows /\ (\A i, j : Before(i, j)' <=> Before(i, j))
  BY <1>0, SameRows
<1>2. TypeOK' /\ OrderInv'
  BY <1>0 DEF TypeOK, OrderInv
<1>3. Done' = Done
  BY <1>0, <1>1 DEF Done
<1>4. BaseInv' /\ DenseInv'
  BY <1>0, <1>1, <1>3 DEF BaseInv, DenseInv
<1>5. RankInv'
  <2>1. \A i : {j \in Rows : Before(j, i)}' = {j \in Rows : Before(j, i)}
    BY <1>1
  <2> QED BY <1>0, <1>1, <1>3, <2>1 DEF RankInv
<1>6. PassInv'
  BY <1>0, <1>1 DEF PassInv
<1> QED BY <1>0, <1>2, <1>4, <1>5, <1>6 DEF PlanInv

LEMMA StutterStep ==
  ASSUME PlanInv, UNCHANGED vars
  PROVE  PlanInv'
<1>0. UNCHANGED <<pc, table, sel, raw, order, planned, ranked, next, pass>>
  BY DEF vars, inputs
<1>1. Rows' = Rows /\ (\A i, j : Before(i, j)' <=> Before(i, j))
  BY <1>0, SameRows
<1>2. Done' = Done
  BY <1>0, <1>1 DEF Done
<1>3. \A i : {j \in Rows : Before(j, i)}' = {j \in Rows : Before(j, i)}
  BY <1>1
<1>4. RankInv => RankInv'
  BY <1>0, <1>1, <1>2, <1>3 DEF RankInv
<1> QED BY <1>0, <1>1, <1>2, <1>4
        DEF PlanInv, TypeOK, OrderInv, BaseInv, DenseInv, PassInv

-----------------------------------------------------------------------------
(* Theorems.                                                               *)

\* The inductive invariant of LegacyBootBuildPriorityPlan: after every round the
\* finished rows are exactly the first NextPriority rows of the intended ranking.
THEOREM PlanInvariant == Spec => []PlanInv
<1>1. Init => PlanInv
  BY InitStep
<1>2. PlanInv /\ [Next]_vars => PlanInv'
  BY CaptureStep, PlanBeginStep, RankNextStep, PassDoneStep, PlanCheckStep, StutterStep
     DEF Next, Terminated
<1> QED BY <1>1, <1>2, PTL DEF Spec

\* Every state of the ranking loop is well typed; in particular NextPriority
\* never exceeds the number of rows, far below the reserved priorities.
THEOREM PlanTypeCorrect == Spec => []TypeOK
<1>1. PlanInv => TypeOK
  BY DEF PlanInv
<1> QED BY <1>1, PlanInvariant, PTL

\* A LegacyDevOrder that passed the validation of LegacyBootCaptureLegacyDevOrder
\* ranks every row the loop asks about.
THEOREM OrderCovers == Spec => []OrderCoversPlan
<1>1. PlanInv => OrderCoversPlan
  BY DEF PlanInv, OrderCoversPlan
<1> QED BY <1>1, PlanInvariant, PTL

\* A finished plan of LegacyBootBuildPriorityPlan has the selected disk alone at
\* priority zero, is dense on the eligible rows and keeps all others.
THEOREM PlanIsDense == Spec => []PlanDense
<1>1. ASSUME PlanInv, pc = "ready" PROVE PlanDense
  <2>1. BaseInv /\ DenseInv /\ PassInv /\ TypeOK
    BY <1>1 DEF PlanInv
  <2>2. Done = Rows
    BY <1>1, <2>1 DEF PassInv, Done
  <2>3. \A i \in Index : planned[i] = 0 <=> i = sel
    BY <1>1, <2>1 DEF PassInv, BaseInv
  <2> QED BY <2>1, <2>2, <2>3 DEF PlanDense, BaseInv, DenseInv
<1>2. PlanInv => PlanDense
  BY <1>1 DEF PlanDense
<1> QED BY <1>2, PlanInvariant, PTL

\* The selection loop of LegacyBootBuildPriorityPlan computes the intended
\* ranking, for every table and every order variable.
THEOREM LoopComputesRanking == Spec => []PlanIsRanking
<1>1. ASSUME PlanInv, pc = "ready" PROVE planned = Plan(table, sel, order)
  <2>1. BaseInv /\ RankInv /\ PassInv /\ TypeOK
    BY <1>1 DEF PlanInv
  <2>2. Done = Rows
    BY <1>1, <2>1 DEF PassInv, Done
  <2>3. \A i \in Rows : planned[i] = Cardinality({j \in Rows : Before(j, i)})
    BY <2>1, <2>2 DEF RankInv
  <2>4. \A i \in Index \ Rows : planned[i] = table[i].pri
    BY <2>1 DEF BaseInv
  <2>5. planned = [i \in Index |-> planned[i]]
    BY <2>1 DEF TypeOK
  <2>6. Plan(table, sel, order) =
          [i \in Index |-> IF i \in Rows THEN Cardinality({j \in Rows : Before(j, i)})
                                         ELSE table[i].pri]
    BY DEF Plan, Rows, Before
  <2> QED BY <2>3, <2>4, <2>5, <2>6
<1>2. PlanInv => PlanIsRanking
  BY <1>1 DEF PlanIsRanking
<1> QED BY <1>2, PlanInvariant, PTL

=============================================================================
