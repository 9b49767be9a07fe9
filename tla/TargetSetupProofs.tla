-------------------------- MODULE TargetSetupProofs --------------------------
(***************************************************************************)
(* The bridges above a display are found exactly, a conflict is saved only *)
(* with the user's word for it, and a boot finds again what setup saved,   *)
(* for every machine, boot table and retained settings and whatever reads  *)
(* fail on the way.                                                        *)
(***************************************************************************)
EXTENDS TargetSetup, FiniteSetTheorems, TLAPS

-----------------------------------------------------------------------------
(* Sets in their order.                                                    *)

\* The members of a finite set of numbers, each at the place its rank gives it.
LEMMA InOrderFacts ==
  ASSUME NEW S \in SUBSET Nat, IsFiniteSet(S)
  PROVE  /\ InOrder(S) \in [1 .. Cardinality(S) -> S]
         /\ \A i \in S : \E k \in 1 .. Cardinality(S) : InOrder(S)[k] = i
<1> DEFINE n == Cardinality(S)
           rank == [i \in S |-> Cardinality(Below(S, i))]
<1>1. n \in Nat
  BY FS_CardinalityType
<1>2. \A i \in S : IsFiniteSet(Below(S, i)) /\ Cardinality(Below(S, i)) \in 0 .. n - 1
  <2> SUFFICES ASSUME NEW i \in S
               PROVE  IsFiniteSet(Below(S, i)) /\ Cardinality(Below(S, i)) \in 0 .. n - 1
    OBVIOUS
  <2>1. Below(S, i) \in SUBSET S /\ i \notin Below(S, i)
    BY DEF Below
  <2>2. Below(S, i) # S
    BY <2>1
  <2>3. IsFiniteSet(Below(S, i)) /\ Cardinality(Below(S, i)) <= n /\ Cardinality(Below(S, i)) # n
    BY <2>1, <2>2, FS_Subset
  <2>4. Cardinality(Below(S, i)) \in Nat
    BY <2>3, FS_CardinalityType
  <2> QED BY <1>1, <2>3, <2>4
<1>3. \A i, j \in S : i < j => Cardinality(Below(S, i)) < Cardinality(Below(S, j))
  <2> SUFFICES ASSUME NEW i \in S, NEW j \in S, i < j
               PROVE  Cardinality(Below(S, i)) < Cardinality(Below(S, j))
    OBVIOUS
  <2>1. i \in Below(S, j) /\ i \notin Below(S, i)
    BY DEF Below
  <2>5. Below(S, i) \in SUBSET Below(S, j)
    <3> SUFFICES ASSUME NEW x \in Below(S, i) PROVE x \in Below(S, j)
      OBVIOUS
    <3>1. x \in S /\ x < i
      BY DEF Below
    <3>2. x \in Nat /\ i \in Nat /\ j \in Nat
      BY <3>1
    <3>3. x < j
      BY <3>1, <3>2
    <3> QED BY <3>1, <3>3 DEF Below
  <2>2. Cardinality(Below(S, i)) \in Nat /\ Cardinality(Below(S, j)) \in Nat /\ IsFiniteSet(Below(S, j))
    BY <1>1, <1>2
  <2>3. Below(S, i) # Below(S, j)
    BY <2>1
  <2>4. Cardinality(Below(S, i)) <= Cardinality(Below(S, j)) /\ Cardinality(Below(S, i)) # Cardinality(Below(S, j))
    BY <2>2, <2>3, <2>5, FS_Subset
  <2> QED BY <2>2, <2>4
<1>4. \A i, j \in S : rank[i] = rank[j] => i = j
  <2> SUFFICES ASSUME NEW i \in S, NEW j \in S, rank[i] = rank[j], i # j PROVE FALSE
    OBVIOUS
  <2>1. Cardinality(Below(S, i)) = Cardinality(Below(S, j)) /\ Cardinality(Below(S, i)) \in Nat
    BY <1>1, <1>2
  <2>2. i < j \/ j < i
    OBVIOUS
  <2> QED BY <1>3, <2>1, <2>2
<1>5. rank \in Injection(S, 0 .. n - 1)
  BY <1>2, <1>4 DEF Injection, IsInjective
<1>6. IsFiniteSet(0 .. n - 1) /\ Cardinality(0 .. n - 1) = n
  <2>1. 0 \in Int /\ n - 1 \in Int
    BY <1>1
  <2> HIDE DEF n
  <2> QED BY <1>1, <2>1, FS_Interval
<1>7. rank \in Surjection(S, 0 .. n - 1)
  BY <1>5, <1>6, FS_Injection
<1>8. \A k \in 1 .. n : \E i \in S : rank[i] = k - 1
  <2> SUFFICES ASSUME NEW k \in 1 .. n PROVE \E i \in S : rank[i] = k - 1
    OBVIOUS
  <2>1. k - 1 \in 0 .. n - 1
    BY <1>1
  <2> QED BY <1>7, <2>1 DEF Surjection
<1>9. \A k \in 1 .. n : InOrder(S)[k] \in S /\ rank[InOrder(S)[k]] = k - 1
  <2> SUFFICES ASSUME NEW k \in 1 .. n
               PROVE  InOrder(S)[k] \in S /\ rank[InOrder(S)[k]] = k - 1
    OBVIOUS
  <2>1. InOrder(S)[k] = CHOOSE i \in S : Cardinality(Below(S, i)) = k - 1
    BY DEF InOrder
  <2>2. PICK i \in S : Cardinality(Below(S, i)) = k - 1
    BY <1>8
  <2> QED BY <2>1, <2>2
<1>10. InOrder(S) \in [1 .. n -> S]
  <2>1. InOrder(S) = [k \in 1 .. n |-> InOrder(S)[k]]
    BY DEF InOrder
  <2> QED BY <1>9, <2>1
<1>11. ASSUME NEW i \in S PROVE \E k \in 1 .. n : InOrder(S)[k] = i
  <2>1. rank[i] \in 0 .. n - 1
    BY <1>2
  <2> DEFINE k == rank[i] + 1
  <2>2. k \in 1 .. n /\ k - 1 = rank[i]
    BY <1>1, <2>1
  <2> HIDE DEF rank, k
  <2>3. rank[InOrder(S)[k]] = rank[i] /\ InOrder(S)[k] \in S
    BY <1>9, <2>2
  <2> QED BY <1>4, <2>2, <2>3
<1> QED BY <1>10, <1>11

-----------------------------------------------------------------------------
(* Devices and their paths.                                                *)

Handles == 1 .. Len(machine)

\* What a machine says of a device has its type.
LEMMA DeviceFacts ==
  ASSUME machine \in Machines, NEW h \in Handles
  PROVE  /\ machine[h] \in Device /\ machine[h].path \in Seq(Nat)
         /\ machine[h].parent \in Handles \cup {0}
         /\ machine[h].root \in Nat /\ machine[h].slot \in Nat
<1>1. machine \in Seq(Device) /\ machine[h].parent \in 0 .. Len(machine)
  BY MachineAssumption DEF Handles
<1>2. machine[h] \in Device
  BY <1>1 DEF Handles
<1>3. /\ machine[h].path \in Seq(Nat)
      /\ machine[h].root \in Nat /\ machine[h].slot \in Nat
  BY <1>2 DEF Device
<1>4. machine[h].parent \in Handles \cup {0}
  <2>1. Len(machine) \in Nat
    BY <1>1
  <2> QED BY <1>1, <2>1 DEF Handles
<1> QED BY <1>2, <1>3, <1>4

\* Paths are honest, and neither a path nor an address is given out twice.
LEMMA PathIs ==
  ASSUME machine \in Machines, NEW h \in Handles
  PROVE  /\ machine[h].parent = 0 => machine[h].path = <<machine[h].root, machine[h].slot>>
         /\ machine[h].parent # 0 =>
              machine[h].path = Append(machine[machine[h].parent].path, machine[h].slot)
         /\ \A g \in Handles : machine[g].path = machine[h].path => g = h
         /\ \A g \in Handles : Address(g) = Address(h) => g = h
BY MachineAssumption DEF Handles, Address

\* A path has the root bridge and the device itself at least, and no more below
\* the root bridge.
LEMMA PathLength ==
  ASSUME machine \in Machines, NEW h \in Handles
  PROVE  /\ Len(machine[h].path) >= 2
         /\ Len(machine[h].path) = 2 <=> machine[h].parent = 0
<1>1. \A g \in Handles : Len(machine[g].path) >= 1
  <2> SUFFICES ASSUME NEW g \in Handles PROVE Len(machine[g].path) >= 1
    OBVIOUS
  <2>1. CASE machine[g].parent = 0
    <3>1. machine[g].path = <<machine[g].root, machine[g].slot>>
      BY <2>1, PathIs
    <3> QED BY <3>1
  <2>2. CASE machine[g].parent # 0
    <3>1. machine[machine[g].parent].path \in Seq(Nat) /\ machine[g].slot \in Nat
      BY <2>2, DeviceFacts
    <3>2. machine[g].path = Append(machine[machine[g].parent].path, machine[g].slot)
      BY <2>2, PathIs
    <3> QED BY <3>1, <3>2
  <2> QED BY <2>1, <2>2
<1>2. CASE machine[h].parent = 0
  <2>1. machine[h].path = <<machine[h].root, machine[h].slot>>
    BY <1>2, PathIs
  <2> QED BY <1>2, <2>1
<1>3. CASE machine[h].parent # 0
  <2> DEFINE g == machine[h].parent
  <2>1. g \in Handles /\ machine[g].path \in Seq(Nat) /\ machine[h].slot \in Nat
    BY <1>3, DeviceFacts
  <2>2. machine[h].path = Append(machine[g].path, machine[h].slot)
    BY <1>3, PathIs
  <2>3. Len(machine[g].path) >= 1
    BY <1>1, <2>1
  <2>4. Len(machine[h].path) = Len(machine[g].path) + 1
    BY <2>1, <2>2
  <2>5. Len(machine[g].path) \in Nat
    BY <2>1
  <2>6. Len(machine[h].path) >= 2
    BY <2>3, <2>4, <2>5
  <2>7. Len(machine[g].path) # 1
    <3> SUFFICES ASSUME Len(machine[g].path) = 1 PROVE FALSE
      OBVIOUS
    <3>1. CASE machine[g].parent = 0
      <4>1. machine[g].path = <<machine[g].root, machine[g].slot>>
        BY <2>1, <3>1, PathIs
      <4> QED BY <4>1
    <3>2. CASE machine[g].parent # 0
      <4> DEFINE f == machine[g].parent
      <4>1. f \in Handles /\ machine[f].path \in Seq(Nat) /\ machine[g].slot \in Nat
        BY <2>1, <3>2, DeviceFacts
      <4>2. machine[g].path = Append(machine[f].path, machine[g].slot)
        BY <2>1, <3>2, PathIs
      <4>3. Len(machine[f].path) >= 1
        BY <1>1, <4>1
      <4> HIDE DEF f
      <4>4. Len(machine[g].path) = Len(machine[f].path) + 1 /\ Len(machine[f].path) \in Nat
        BY <4>1, <4>2
      <4> DEFINE a == Len(machine[g].path)
                 b == Len(machine[f].path)
      <4>5. a = b + 1 /\ b \in Nat /\ b >= 1 /\ a = 1
        BY <4>3, <4>4
      <4> HIDE DEF a, b
      <4> QED BY <4>5
    <3> QED BY <3>1, <3>2
  <2>8. Len(machine[h].path) # 2
    <3> DEFINE a == Len(machine[h].path)
               b == Len(machine[g].path)
    <3>1. a = b + 1 /\ b \in Nat /\ b # 1
      BY <2>4, <2>5, <2>7
    <3> HIDE DEF a, b
    <3>2. a # 2
      BY <3>1
    <3> QED BY <3>2 DEF a
  <2> QED BY <1>3, <2>6, <2>8
<1> QED BY <1>2, <1>3

\* The device whose path is one node shorter is the parent.
LEMMA ParentIs ==
  ASSUME machine \in Machines, NEW P \in Seq(Nat), NEW h \in Handles, NEW g \in Handles,
         NEW k \in Nat, k >= 2, k + 1 <= Len(P),
         machine[h].path = SubSeq(P, 1, k + 1), machine[g].path = SubSeq(P, 1, k)
  PROVE  machine[h].parent = g
<1> DEFINE f == machine[h].parent
<1>1. Len(machine[h].path) = k + 1 /\ k + 1 # 2
  OBVIOUS
<1>2. f # 0
  BY <1>1, PathLength
<1>3. f \in Handles /\ machine[f].path \in Seq(Nat) /\ machine[h].slot \in Nat
  BY <1>2, DeviceFacts
<1>4. SubSeq(P, 1, k + 1) = Append(machine[f].path, machine[h].slot)
  BY <1>2, PathIs
<1> HIDE DEF f
<1>5. Len(machine[f].path) = k
  <2>1. Len(SubSeq(P, 1, k + 1)) = k + 1
    OBVIOUS
  <2>2. Len(Append(machine[f].path, machine[h].slot)) = Len(machine[f].path) + 1
    BY <1>3
  <2>3. Len(machine[f].path) \in Nat
    BY <1>3
  <2> QED BY <1>4, <2>1, <2>2, <2>3
<1>6. \A n \in 1 .. k : machine[f].path[n] = SubSeq(P, 1, k)[n]
  <2> SUFFICES ASSUME NEW n \in 1 .. k PROVE machine[f].path[n] = SubSeq(P, 1, k)[n]
    OBVIOUS
  <2>1. SubSeq(P, 1, k)[n] = P[n] /\ SubSeq(P, 1, k + 1)[n] = P[n]
    OBVIOUS
  <2>2. Append(machine[f].path, machine[h].slot)[n] = machine[f].path[n]
    BY <1>3, <1>5
  <2> QED BY <1>4, <2>1, <2>2
<1>7. machine[f].path = SubSeq(P, 1, k)
  <2>1. SubSeq(P, 1, k) \in Seq(Nat) /\ Len(SubSeq(P, 1, k)) = k
    OBVIOUS
  <2> QED BY <1>3, <1>5, <1>6, <2>1
<1>8. machine[f].path = machine[g].path
  BY <1>7
<1>9. f = g
  BY <1>3, <1>8, PathIs
<1> QED BY <1>9 DEF f

-----------------------------------------------------------------------------
(* The path of bridges that is derived from an inventory.                  *)

\* An inventory lists devices of the machine in the order of their handles.
InventoryInv ==
  /\ machine \in Machines /\ inventory \in Seq(Record)
  /\ \A i \in DOMAIN inventory : inventory[i].h \in Handles
  /\ \A i, j \in DOMAIN inventory : i < j => inventory[i].h < inventory[j].h

\* A record stands for a device, and for another than every other record.
LEMMA RecordFacts ==
  ASSUME InventoryInv, NEW i \in DOMAIN inventory
  PROVE  /\ inventory[i].h \in Handles
         /\ Of(i) \in Device /\ Of(i).path \in Seq(Nat)
         /\ Len(Of(i).path) \in Nat /\ Len(Of(i).path) >= 2
         /\ \A j \in DOMAIN inventory : Of(j).path = Of(i).path => j = i
         /\ \A j \in DOMAIN inventory : inventory[j].h = inventory[i].h => j = i
<1>1. inventory[i].h \in Handles /\ machine \in Machines
  BY DEF InventoryInv
<1>2. /\ Of(i) \in Device /\ Of(i).path \in Seq(Nat)
      /\ Len(Of(i).path) \in Nat /\ Len(Of(i).path) >= 2
  BY <1>1, DeviceFacts, PathLength DEF Of
<1>3. ASSUME NEW j \in DOMAIN inventory, inventory[j].h = inventory[i].h PROVE j = i
  <2>1. inventory \in Seq(Record) /\ inventory[i].h \in Int /\ inventory[j].h \in Int
    BY <1>1 DEF InventoryInv, Handles
  <2>2. i \in Int /\ j \in Int
    BY <2>1
  <2>3. ~(i < j) /\ ~(j < i)
    BY <1>3, <2>1 DEF InventoryInv
  <2> QED BY <2>2, <2>3
<1>4. ASSUME NEW j \in DOMAIN inventory, Of(j).path = Of(i).path PROVE j = i
  <2>1. inventory[j].h \in Handles
    BY DEF InventoryInv
  <2>2. inventory[j].h = inventory[i].h
    BY <1>1, <1>4, <2>1, PathIs DEF Of
  <2> QED BY <1>3, <2>2
<1> QED BY <1>1, <1>2, <1>3, <1>4

\* An ancestor has a beginning of the display's path, and no two the same.
LEMMA AncestorFacts ==
  ASSUME InventoryInv, NEW i \in DOMAIN inventory, NEW j \in Ancestors(i)
  PROVE  /\ j \in DOMAIN inventory
         /\ Len(Of(j).path) \in 2 .. Len(Of(i).path) - 1
         /\ Of(j).path = SubSeq(Of(i).path, 1, Len(Of(j).path))
<1> DEFINE a == Of(j).path
           b == Of(i).path
<1>1. j \in DOMAIN inventory /\ IsStrictPrefix(a, b)
  BY DEF Ancestors, IsStrictDevicePathPrefix
<1>2. a \in Seq(Nat) /\ b \in Seq(Nat) /\ Len(a) \in Nat /\ Len(b) \in Nat /\ Len(a) >= 2
  BY <1>1, RecordFacts
<1> HIDE DEF a, b
<1>3. Len(a) <= Len(b) /\ SubSeq(a, 1, Len(a)) = SubSeq(b, 1, Len(a)) /\ a # b
  BY <1>1 DEF IsStrictPrefix, IsPrefix
<1>4. SubSeq(a, 1, Len(a)) = a /\ SubSeq(b, 1, Len(b)) = b
  BY <1>2
<1>5. Len(a) # Len(b)
  BY <1>3, <1>4
<1>6. a = SubSeq(b, 1, Len(a))
  BY <1>3, <1>4
<1>7. Len(a) \in 2 .. Len(b) - 1
  <2> DEFINE u == Len(a)
             v == Len(b)
  <2>1. u \in Nat /\ v \in Nat /\ u >= 2 /\ u <= v /\ u # v
    BY <1>2, <1>3, <1>5
  <2> HIDE DEF u, v
  <2>2. u \in 2 .. v - 1
    BY <2>1
  <2> QED BY <2>2 DEF u, v
<1> QED BY <1>1, <1>6, <1>7 DEF a, b

\* There are no more ancestors than records.
LEMMA AncestorsFinite ==
  ASSUME InventoryInv, NEW i \in DOMAIN inventory
  PROVE  /\ Ancestors(i) \subseteq DOMAIN inventory
         /\ IsFiniteSet(Ancestors(i)) /\ Cardinality(Ancestors(i)) \in Nat
<1>1. Ancestors(i) \subseteq DOMAIN inventory
  BY DEF Ancestors
<1>2. DOMAIN inventory = 1 .. Len(inventory) /\ Len(inventory) \in Nat
  BY DEF InventoryInv
<1>3. IsFiniteSet(DOMAIN inventory)
  BY <1>2, FS_Interval
<1>4. IsFiniteSet(Ancestors(i))
  BY <1>1, <1>3, FS_Subset
<1> QED BY <1>1, <1>4, FS_CardinalityType

\* One bridge for every node between the root bridge and the display, shortest
\* path first: as many beginnings as there are, so each of them once.
LEMMA PathShape ==
  ASSUME InventoryInv, NEW i \in DOMAIN inventory, NEW p \in BuildDevicePathBridgePath(i)
  PROVE  /\ p \in Seq(DOMAIN inventory) /\ Len(p) + 2 = Len(Of(i).path)
         /\ Cardinality(Ancestors(i)) = Len(p)
         /\ \A k \in 1 .. Len(p) :
              p[k] \in Ancestors(i) /\ Of(p[k]).path = SubSeq(Of(i).path, 1, k + 1)
<1> DEFINE S == Ancestors(i)
           L == Len(Of(i).path)
           n == Cardinality(S)
           size == [j \in S |-> Len(Of(j).path)]
<1>1. L \in Nat /\ L >= 2
  BY RecordFacts
<1>2. n \in Nat /\ IsFiniteSet(S) /\ S \subseteq DOMAIN inventory
  BY AncestorsFinite
<1>3. \A j \in S : size[j] = Len(Of(j).path) /\ size[j] \in 2 .. L - 1
                   /\ Of(j).path = SubSeq(Of(i).path, 1, size[j])
  <2> SUFFICES ASSUME NEW j \in S
               PROVE  /\ Len(Of(j).path) \in 2 .. L - 1
                      /\ Of(j).path = SubSeq(Of(i).path, 1, Len(Of(j).path))
    OBVIOUS
  <2> QED BY AncestorFacts
<1>4. \A j, l \in S : size[j] = size[l] => j = l
  <2> SUFFICES ASSUME NEW j \in S, NEW l \in S, size[j] = size[l] PROVE j = l
    OBVIOUS
  <2>1. Of(j).path = Of(l).path
    BY <1>3
  <2> QED BY <1>2, <2>1, RecordFacts
<1>5. p = SortPathByDevicePathSize(S) /\ Len(p) + 1 = L - 1
  BY DEF BuildDevicePathBridgePath
<1>6. Len(p) = n /\ DOMAIN p = 1 .. n
  BY <1>2, <1>5 DEF SortPathByDevicePathSize
<1> HIDE DEF S, L, n
<1>7. n = L - 2
  BY <1>1, <1>2, <1>5, <1>6
<1>8. size \in Injection(S, 2 .. L - 1)
  BY <1>3, <1>4 DEF Injection, IsInjective
<1>9. IsFiniteSet(2 .. L - 1) /\ Cardinality(2 .. L - 1) = n
  <2>1. 2 \in Int /\ L - 1 \in Int
    BY <1>1
  <2>2. /\ IsFiniteSet(2 .. L - 1)
        /\ Cardinality(2 .. L - 1) = IF 2 > L - 1 THEN 0 ELSE L - 1 - 2 + 1
    BY <2>1, FS_Interval
  <2> QED BY <1>1, <1>7, <2>2
<1>10. size \in Surjection(S, 2 .. L - 1)
  BY <1>8, <1>9, FS_Injection DEF n
<1>11. \A t \in 2 .. L - 1 : \E j \in S : size[j] = t
  BY <1>10 DEF Surjection
<1> HIDE DEF size
<1>12. \A j \in S : Cardinality(Ahead(S, j)) = size[j] - 2
  <2> SUFFICES ASSUME NEW j \in S PROVE Cardinality(Ahead(S, j)) = size[j] - 2
    OBVIOUS
  <2> DEFINE A == Ahead(S, j)
             T == 2 .. size[j] - 1
             f == [l \in A |-> size[l]]
  <2>1. size[j] \in Nat /\ size[j] >= 2 /\ size[j] <= L - 1
    BY <1>1, <1>3
  <2>2. \A l : l \in A <=> l \in S /\ size[l] < size[j]
    <3> SUFFICES ASSUME NEW l \in S PROVE Shorter(l, j) <=> size[l] < size[j]
      BY DEF Ahead
    <3>1. size[l] \in Int /\ size[j] \in Int
      BY <1>1, <1>3
    <3>2. l \in Int /\ j \in Int
      BY <1>2 DEF InventoryInv
    <3>3. size[l] = size[j] => l = j
      BY <1>4
    <3>4. Shorter(l, j) <=> size[l] < size[j] \/ (size[l] = size[j] /\ l < j)
      BY <1>3 DEF Shorter
    <3> QED BY <3>1, <3>2, <3>3, <3>4
  <2>3. A \subseteq S
    BY <2>2
  <2> HIDE DEF A
  <2>4. \A l \in A : size[l] \in T
    <3> SUFFICES ASSUME NEW l \in A PROVE size[l] \in T
      OBVIOUS
    <3>1. size[l] \in 2 .. L - 1 /\ size[l] < size[j]
      BY <1>3, <2>2
    <3> QED BY <1>1, <2>1, <3>1
  <2>5. \A t \in T : \E l \in A : size[l] = t
    <3> SUFFICES ASSUME NEW t \in T PROVE \E l \in A : size[l] = t
      OBVIOUS
    <3>1. t \in 2 .. L - 1 /\ t < size[j]
      BY <1>1, <2>1
    <3>2. PICK l \in S : size[l] = t
      BY <1>11, <3>1
    <3> QED BY <2>2, <3>1, <3>2
  <2>6. IsFiniteSet(A)
    BY <1>2, <2>3, FS_Subset
  <2>7. f \in Surjection(A, T)
    BY <2>4, <2>5 DEF Surjection
  <2>8. f \in Injection(A, T)
    BY <1>4, <2>3, <2>4 DEF Injection, IsInjective
  <2>9. Cardinality(T) = Cardinality(A)
    <3> HIDE DEF f, T
    <3> QED BY <2>6, <2>7, <2>8, FS_Surjection
  <2>10. Cardinality(T) = size[j] - 2
    <3>1. 2 \in Int /\ size[j] - 1 \in Int
      BY <2>1
    <3>2. Cardinality(T) = IF 2 > size[j] - 1 THEN 0 ELSE size[j] - 1 - 2 + 1
      BY <3>1, FS_Interval
    <3> QED BY <2>1, <3>2
  <2> QED BY <2>9, <2>10 DEF A
<1>13. \A k \in 1 .. n : p[k] \in S /\ size[p[k]] = k + 1
  <2> SUFFICES ASSUME NEW k \in 1 .. n PROVE p[k] \in S /\ size[p[k]] = k + 1
    OBVIOUS
  <2>1. k + 1 \in 2 .. L - 1 /\ k \in Int
    BY <1>1, <1>2, <1>7
  <2>2. PICK j \in S : size[j] = k + 1
    BY <1>11, <2>1
  <2>3. Cardinality(Ahead(S, j)) = k - 1
    <3>1. Cardinality(Ahead(S, j)) = k + 1 - 2
      BY <1>12, <2>2
    <3> QED BY <2>1, <3>1
  <2>4. p[k] = CHOOSE l \in S : Cardinality(Ahead(S, l)) = k - 1
    BY <1>5 DEF SortPathByDevicePathSize, n
  <2>5. p[k] \in S /\ Cardinality(Ahead(S, p[k])) = k - 1
    BY <2>3, <2>4
  <2>6. size[p[k]] - 2 = k - 1 /\ size[p[k]] \in Int
    BY <1>1, <1>3, <1>12, <2>5
  <2> QED BY <2>1, <2>5, <2>6
<1>14. \A k \in 1 .. n : Of(p[k]).path = SubSeq(Of(i).path, 1, k + 1)
  BY <1>3, <1>13
<1>15. p \in Seq(DOMAIN inventory)
  <2>1. p = [k \in 1 .. n |-> p[k]]
    BY <1>5 DEF SortPathByDevicePathSize, n
  <2>2. \A k \in 1 .. n : p[k] \in DOMAIN inventory
    BY <1>2, <1>13
  <2> QED BY <1>2, <2>1, <2>2
<1>16. Len(p) + 2 = L
  BY <1>1, <1>6, <1>7
<1> QED BY <1>6, <1>13, <1>14, <1>15, <1>16 DEF S, L, n

\* A path of the right length is the chain of parents.
LEMMA PathIsUpstream ==
  ASSUME InventoryInv, NEW i \in DOMAIN inventory, NEW p \in BuildDevicePathBridgePath(i)
  PROVE  Upstream([k \in DOMAIN p |-> inventory[p[k]].h], inventory[i].h)
<1> DEFINE q == [k \in DOMAIN p |-> inventory[p[k]].h]
           P == Of(i).path
           n == Len(p)
           d(k) == IF k <= n THEN q[k] ELSE inventory[i].h
<1>1. /\ p \in Seq(DOMAIN inventory) /\ n + 2 = Len(P) /\ n \in Nat
      /\ DOMAIN p = 1 .. n
      /\ \A k \in 1 .. n : p[k] \in DOMAIN inventory /\ Of(p[k]).path = SubSeq(P, 1, k + 1)
  BY PathShape
<1>2. machine \in Machines /\ P \in Seq(Nat)
  BY RecordFacts DEF InventoryInv
<1>3. Len(q) = n /\ \A k \in 1 .. n : q[k] = inventory[p[k]].h
  BY <1>1
<1>4. \A k \in 1 .. n + 1 : d(k) \in Handles /\ machine[d(k)].path = SubSeq(P, 1, k + 1)
  <2> SUFFICES ASSUME NEW k \in 1 .. n + 1
               PROVE  d(k) \in Handles /\ machine[d(k)].path = SubSeq(P, 1, k + 1)
    OBVIOUS
  <2>1. CASE k <= n
    <3>1. k \in 1 .. n
      BY <1>1, <2>1
    <3>2. d(k) = inventory[p[k]].h
      BY <1>3, <2>1, <3>1
    <3> QED BY <1>1, <3>1, <3>2, RecordFacts DEF Of
  <2>2. CASE ~(k <= n)
    <3>1. k + 1 = n + 2
      BY <1>1, <2>2
    <3>2. SubSeq(P, 1, k + 1) = P
      BY <1>1, <1>2, <3>1
    <3> QED BY <2>2, <3>2, RecordFacts DEF Of
  <2> QED BY <2>1, <2>2
<1> HIDE DEF q, P, n
<1>5. \A k \in 1 .. n + 1 : machine[d(k)].parent = IF k = 1 THEN 0 ELSE q[k - 1]
  <2> SUFFICES ASSUME NEW k \in 1 .. n + 1
               PROVE  machine[d(k)].parent = IF k = 1 THEN 0 ELSE q[k - 1]
    OBVIOUS
  <2>1. k \in Nat /\ k >= 1 /\ k + 1 <= Len(P)
    BY <1>1
  <2>2. CASE k = 1
    <3> DEFINE f == d(k)
    <3>1. f \in Handles /\ machine[f].path = SubSeq(P, 1, k + 1)
      BY <1>4
    <3> HIDE DEF f
    <3>2. k + 1 = 2 /\ 2 <= Len(P)
      BY <2>1, <2>2
    <3>3. Len(SubSeq(P, 1, 2)) = 2
      BY <1>2, <3>2
    <3>4. machine[f].path = SubSeq(P, 1, 2)
      BY <3>1, <3>2
    <3>5. machine[f].parent = 0
      BY <1>2, <3>1, <3>3, <3>4, PathLength
    <3> QED BY <2>2, <3>5 DEF f
  <2>3. CASE k # 1
    <3> DEFINE j == k - 1
    <3>1. j \in 1 .. n + 1 /\ j <= n /\ j + 1 = k /\ k >= 2
      BY <1>1, <2>1, <2>3
    <3>2. d(j) \in Handles /\ machine[d(j)].path = SubSeq(P, 1, k) /\ d(j) = q[j]
      BY <1>4, <3>1
    <3>3. d(k) \in Handles /\ machine[d(k)].path = SubSeq(P, 1, k + 1)
      BY <1>4
    <3> DEFINE f == d(k)
               g == d(j)
    <3>4. f \in Handles /\ g \in Handles /\ machine[f].path = SubSeq(P, 1, k + 1)
          /\ machine[g].path = SubSeq(P, 1, k)
      BY <3>2, <3>3
    <3> HIDE DEF d, f, g
    <3>5. machine[f].parent = g
      BY <1>2, <2>1, <3>1, <3>4, ParentIs
    <3> QED BY <2>3, <3>2, <3>5 DEF f, g
  <2> QED BY <2>2, <2>3
<1> QED BY <1>3, <1>5 DEF Upstream, q

\* The bridges above device h, one for every node of its path, whose bus
\* registers agree.
Routes(q, h) ==
  /\ Len(q) + 2 = Len(machine[h].path)
  /\ \A k \in 1 .. Len(q) :
       /\ machine[q[k]].class = "bridge" /\ machine[q[k]].seg = machine[h].seg
       /\ machine[q[k]].path = SubSeq(machine[h].path, 1, k + 1)
       /\ machine[q[k]].pri = machine[q[k]].bus
       /\ machine[q[k]].sec = machine[IF k < Len(q) THEN q[k + 1] ELSE h].bus
       /\ machine[IF k < Len(q) THEN q[k + 1] ELSE h].bus <= machine[q[k]].sub

Routable(h) == \E q \in Seq(Handles) : Routes(q, h)

\* Which depends on the machine alone.
LEMMA RoutableKept ==
  ASSUME machine' = machine, NEW h, Routable(h)
  PROVE  Routable(h)'
<1>1. PICK q \in Seq(Handles) : Routes(q, h)
  BY DEF Routable
<1>2. Handles' = Handles
  BY DEF Handles
<1>3. Routes(q, h)'
  BY <1>1 DEF Routes
<1> QED BY <1>1, <1>2, <1>3 DEF Routable

\* What setup found a validated path for can be routed.
LEMMA ProbedIsRoutable ==
  ASSUME InventoryInv, NEW i \in DOMAIN inventory, PciProbeDevicePathBridgePathStatus(i)
  PROVE  Routable(inventory[i].h)
<1>1. PICK p \in BuildDevicePathBridgePath(i) : CrossCheckBridgePath(i, p)
  BY DEF PciProbeDevicePathBridgePathStatus
<1> DEFINE q == [k \in 1 .. Len(p) |-> inventory[p[k]].h]
           h == inventory[i].h
<1>2. /\ p \in Seq(DOMAIN inventory) /\ Len(p) \in Nat /\ DOMAIN p = 1 .. Len(p)
      /\ Len(p) + 2 = Len(machine[h].path)
      /\ \A k \in 1 .. Len(p) : p[k] \in DOMAIN inventory /\ p[k] \in Ancestors(i)
                                /\ Of(p[k]).path = SubSeq(machine[h].path, 1, k + 1)
  BY <1>1, PathShape DEF Of
<1>3. q \in Seq(Handles) /\ Len(q) = Len(p)
  BY <1>2 DEF InventoryInv
<1>4. \A k \in 1 .. Len(p) : machine[q[k]] = Of(p[k])
  BY DEF Of
<1>5. \A k \in 1 .. Len(p) :
        machine[IF k < Len(p) THEN q[k + 1] ELSE h].bus =
          IF k < Len(p) THEN Of(p[k + 1]).bus ELSE Of(i).bus
  <2> SUFFICES ASSUME NEW k \in 1 .. Len(p)
               PROVE  machine[IF k < Len(p) THEN q[k + 1] ELSE h].bus =
                        IF k < Len(p) THEN Of(p[k + 1]).bus ELSE Of(i).bus
    OBVIOUS
  <2>1. CASE k < Len(p)
    <3>1. k + 1 \in 1 .. Len(p)
      BY <1>2, <2>1
    <3> QED BY <1>4, <2>1, <3>1
  <2>2. CASE ~(k < Len(p))
    BY <2>2 DEF Of
  <2> QED BY <2>1, <2>2
<1> HIDE DEF q, h
<1>6. \A k \in 1 .. Len(p) :
        /\ Of(p[k]).pri = Of(p[k]).bus
        /\ Of(p[k]).sec = machine[IF k < Len(p) THEN q[k + 1] ELSE h].bus
        /\ machine[IF k < Len(p) THEN q[k + 1] ELSE h].bus <= Of(p[k]).sub
  <2> SUFFICES ASSUME NEW k \in 1 .. Len(p)
               PROVE  LET c == IF k < Len(p) THEN Of(p[k + 1]).bus ELSE Of(i).bus
                      IN  Of(p[k]).pri = Of(p[k]).bus /\ Of(p[k]).sec = c /\ c <= Of(p[k]).sub
    BY <1>5
  <2> QED BY <1>1, <1>2 DEF CrossCheckBridgePath
<1>7. \A k \in 1 .. Len(p) : Of(p[k]).class = "bridge" /\ Of(p[k]).seg = machine[h].seg
  BY <1>2 DEF Ancestors, RecordIsP2pBridge, Of, h
<1>8. Routes(q, h)
  BY <1>2, <1>3, <1>4, <1>6, <1>7 DEF Routes
<1> QED BY <1>3, <1>8 DEF Routable, h

\* Every device was read, and every part of it.
Complete ==
  /\ Len(inventory) = Len(machine)
  /\ \A h \in Handles : inventory[h] = Captured(h, {})

\* With no fault every handle has its record, which has all there is to read.
LEMMA CompleteFacts ==
  ASSUME InventoryInv, Complete
  PROVE  /\ DOMAIN inventory = Handles
         /\ \A h \in Handles :
              /\ inventory[h].h = h /\ Of(h) = machine[h]
              /\ {"loc", "cfg", "attrs", "path"} \subseteq inventory[h].got
              /\ machine[h].class = "display" /\ machine[h].rootSeg = machine[h].seg =>
                   "root" \in inventory[h].got
<1>1. DOMAIN inventory = Handles
  BY DEF InventoryInv, Complete, Handles
<1>2. ASSUME NEW h \in Handles
      PROVE  /\ inventory[h].h = h /\ Of(h) = machine[h]
             /\ {"loc", "cfg", "attrs", "path"} \subseteq inventory[h].got
             /\ machine[h].class = "display" /\ machine[h].rootSeg = machine[h].seg =>
                  "root" \in inventory[h].got
  <2>1. inventory[h] = Captured(h, {})
    BY DEF Complete
  <2> QED BY <2>1 DEF Captured, Of, Parts, RecordIsDisplay
<1> QED BY <1>1, <1>2

\* What can be routed, a complete inventory finds.
LEMMA RoutableIsBuilt ==
  ASSUME InventoryInv, Complete, NEW h \in Handles, Routable(h)
  PROVE  \E p \in BuildDevicePathBridgePath(h) : CrossCheckBridgePath(h, p)
<1>1. PICK q \in Seq(Handles) : Routes(q, h)
  BY DEF Routable
<1> DEFINE S == Ancestors(h)
           P == machine[h].path
           L == Len(P)
           n == Len(q)
           p == SortPathByDevicePathSize(S)
<1>2. /\ machine \in Machines /\ P \in Seq(Nat) /\ L \in Nat /\ n \in Nat /\ n + 2 = L
      /\ h \in DOMAIN inventory /\ Of(h) = machine[h]
  BY <1>1, CompleteFacts, DeviceFacts DEF Routes, InventoryInv
<1>3. \A k \in 1 .. n : /\ q[k] \in Handles /\ q[k] \in DOMAIN inventory
                        /\ Of(q[k]) = machine[q[k]] /\ inventory[q[k]].h = q[k]
  <2>1. \A k \in 1 .. n : q[k] \in Handles
    BY <1>1
  <2> QED BY <2>1, CompleteFacts
<1>4. \A k \in 1 .. n : machine[q[k]].path = SubSeq(P, 1, k + 1)
  BY <1>1 DEF Routes
<1>5. \A k \in 1 .. n : Len(machine[q[k]].path) = k + 1
  <2> SUFFICES ASSUME NEW k \in 1 .. n PROVE Len(SubSeq(P, 1, k + 1)) = k + 1
    BY <1>4
  <2> HIDE DEF P, n
  <2>1. k + 1 \in Nat /\ k + 1 <= Len(P)
    BY <1>2 DEF L
  <2> QED BY <1>2, <2>1
<1>6. \A k \in 1 .. n : q[k] \in S
  <2> SUFFICES ASSUME NEW k \in 1 .. n PROVE q[k] \in S
    OBVIOUS
  <2> DEFINE a == machine[q[k]].path
  <2>1. /\ RecordLocationIsValid(inventory[q[k]]) /\ "path" \in inventory[q[k]].got
        /\ "path" \in inventory[h].got /\ "cfg" \in inventory[q[k]].got
    BY <1>3, CompleteFacts DEF RecordLocationIsValid
  <2>2. machine[q[k]].class = "bridge" /\ machine[q[k]].seg = machine[h].seg
    BY <1>1 DEF Routes
  <2>3. Len(a) = k + 1 /\ a = SubSeq(P, 1, k + 1) /\ a \in Seq(Nat)
    BY <1>2, <1>3, <1>4, <1>5, DeviceFacts
  <2>4. k + 1 < L /\ k + 1 \in Nat
    <3> HIDE DEF L, n
    <3> QED BY <1>2
  <2> HIDE DEF a
  <2>5. IsStrictPrefix(a, P)
    <3>1. SubSeq(a, 1, Len(a)) = a
      BY <2>3
    <3>2. Len(a) <= Len(P) /\ Len(a) # Len(P)
      BY <1>2, <2>3, <2>4
    <3> QED BY <2>3, <3>1, <3>2 DEF IsStrictPrefix, IsPrefix
  <2> QED BY <1>2, <1>3, <2>1, <2>2, <2>5 DEF Ancestors, RecordIsP2pBridge, IsStrictDevicePathPrefix, a
<1>7. \A j \in S : \E k \in 1 .. n : q[k] = j
  <2> SUFFICES ASSUME NEW j \in S PROVE \E k \in 1 .. n : q[k] = j
    OBVIOUS
  <2> DEFINE u == Len(Of(j).path)
             k == u - 1
  <2>1. j \in DOMAIN inventory /\ u \in 2 .. L - 1 /\ Of(j).path = SubSeq(P, 1, u)
    BY <1>2, AncestorFacts
  <2>2. j \in Handles /\ Of(j) = machine[j]
    BY <2>1, CompleteFacts
  <2> HIDE DEF u, L, n
  <2>3. k \in 1 .. n /\ k + 1 = u
    BY <1>2, <2>1
  <2>4. machine[q[k]].path = machine[j].path
    BY <1>4, <2>1, <2>2, <2>3
  <2>5. q[k] = j
    BY <1>2, <1>3, <2>2, <2>3, <2>4, PathIs
  <2> QED BY <2>3, <2>5
<1>8. Cardinality(S) = n
  <2> DEFINE f == [k \in 1 .. n |-> q[k]]
             T == 1 .. n
  <2>1. \A k, l \in 1 .. n : q[k] = q[l] => k = l
    <3> SUFFICES ASSUME NEW k \in 1 .. n, NEW l \in 1 .. n, q[k] = q[l] PROVE k = l
      OBVIOUS
    <3>1. k + 1 = l + 1 /\ k \in Int /\ l \in Int
      BY <1>5
    <3> QED BY <3>1
  <2>2. f \in Injection(T, S)
    BY <1>6, <2>1 DEF Injection, IsInjective
  <2>3. f \in Surjection(T, S)
    BY <1>6, <1>7 DEF Surjection
  <2>4. IsFiniteSet(T) /\ Cardinality(T) = n
    <3>1. 1 \in Int /\ n \in Int
      BY <1>2
    <3>2. IsFiniteSet(T) /\ Cardinality(T) = IF 1 > n THEN 0 ELSE n - 1 + 1
      BY <3>1, FS_Interval
    <3> HIDE DEF n
    <3> QED BY <1>2, <3>2
  <2> HIDE DEF f, T
  <2>5. Cardinality(S) = Cardinality(T)
    BY <2>2, <2>3, <2>4, FS_Surjection
  <2> QED BY <2>4, <2>5
<1>9. p \in BuildDevicePathBridgePath(h)
  <2>1. Len(p) = n
    <3>1. p = [k \in 1 .. n |-> CHOOSE j \in S : Cardinality(Ahead(S, j)) = k - 1]
      BY <1>8 DEF SortPathByDevicePathSize
    <3> HIDE DEF p, n
    <3> QED BY <1>2, <3>1
  <2>2. "path" \in inventory[h].got
    BY CompleteFacts
  <2>3. Len(p) + 1 = L - 1
    <3> HIDE DEF n, L, p
    <3> QED BY <1>2, <2>1
  <2> HIDE DEF p
  <2> QED BY <1>2, <2>2, <2>3 DEF BuildDevicePathBridgePath, p
<1> HIDE DEF p
<1>10. Len(p) = n /\ DOMAIN p = 1 .. n /\ \A k \in 1 .. n : p[k] = q[k]
  <2>1. /\ p \in Seq(DOMAIN inventory) /\ Cardinality(S) = Len(p)
        /\ \A k \in 1 .. Len(p) : p[k] \in Ancestors(h) /\ Of(p[k]).path = SubSeq(P, 1, k + 1)
    BY <1>2, <1>9, PathShape
  <2>2. Len(p) = n /\ DOMAIN p = 1 .. n
    BY <1>8, <2>1
  <2>3. ASSUME NEW k \in 1 .. n PROVE p[k] = q[k]
    <3> DEFINE a == p[k]
               b == q[k]
    <3>1. a \in DOMAIN inventory /\ Of(a).path = SubSeq(P, 1, k + 1)
      BY <2>1, <2>2
    <3>2. b \in DOMAIN inventory /\ Of(b).path = SubSeq(P, 1, k + 1)
      BY <1>3, <1>4
    <3>3. Of(a).path = Of(b).path
      BY <3>1, <3>2
    <3> HIDE DEF a, b
    <3>4. a = b
      BY <3>1, <3>2, <3>3, RecordFacts
    <3> QED BY <3>4 DEF a, b
  <2> QED BY <2>2, <2>3
<1>11. CrossCheckBridgePath(h, p)
  <2> SUFFICES ASSUME NEW k \in 1 .. n
               PROVE  LET child == IF k < n THEN Of(p[k + 1]).bus ELSE Of(h).bus
                      IN  /\ Of(p[k]).pri = Of(p[k]).bus /\ Of(p[k]).sec = child
                          /\ child <= Of(p[k]).sub
    <3> HIDE DEF n
    <3> QED BY <1>10 DEF CrossCheckBridgePath
  <2>1. Of(p[k]) = machine[q[k]]
    BY <1>3, <1>10
  <2>2. (IF k < n THEN Of(p[k + 1]).bus ELSE Of(h).bus) = machine[IF k < n THEN q[k + 1] ELSE h].bus
    <3>1. CASE k < n
      <4>1. k + 1 \in 1 .. n
        BY <1>2, <3>1
      <4> QED BY <1>3, <1>10, <3>1, <4>1
    <3>2. CASE ~(k < n)
      BY <1>2, <3>2
    <3> QED BY <3>1, <3>2
  <2>3. /\ machine[q[k]].pri = machine[q[k]].bus
        /\ machine[q[k]].sec = machine[IF k < n THEN q[k + 1] ELSE h].bus
        /\ machine[IF k < n THEN q[k + 1] ELSE h].bus <= machine[q[k]].sub
    BY <1>1 DEF Routes
  <2> QED BY <2>1, <2>2, <2>3
<1> QED BY <1>9, <1>11

-----------------------------------------------------------------------------
(* The inductive invariant.                                                *)

\* Where the inventory comes from: the handles before next, and with no fault
\* all of them.  A root bridge is associated only within a known segment.
SnapshotInv ==
  /\ InventoryInv /\ faults \in Nat
  /\ \A i \in DOMAIN inventory :
       {"loc", "root"} \subseteq inventory[i].got =>
         machine[inventory[i].h].rootSeg = machine[inventory[i].h].seg
  /\ pc = "read" =>
       /\ next \in 1 .. Len(machine) + 1
       /\ \A i \in DOMAIN inventory : inventory[i].h < next
       /\ faults = 0 => /\ Len(inventory) = next - 1
                        /\ \A h \in 1 .. next - 1 : inventory[h] = Captured(h, {})
  /\ pc \in {"built", "decided"} /\ faults = 0 => Complete

\* The candidates belong to the inventory and the table, and no acknowledgement
\* is older than the choice it is about.
ChoiceInv ==
  /\ table \in Tables /\ stage \in {"setup", "boot"}
  /\ pc = "decided" => stage = "boot"
  /\ stage = "setup" /\ pc \in {"displays", "ranking", "screen"} =>
       \A k \in DOMAIN gpus : gpus[k].i \in DOMAIN inventory
  /\ stage = "setup" /\ pc = "ranking" => disks \in {FirstOf(HardDisks, MaxDisks), << >>}
  /\ stage = "setup" /\ pc = "screen" => disks \in {HardDisks, << >>}
  /\ stage = "setup" /\ pc \in {"locate", "read", "built", "displays", "ranking"} => ~review
  /\ confirmed => review /\ <<gpu, disk>> \in acked

\* What the save promises of its display and of its row of the boot table.
DisplayPromised(h) ==
  /\ Address(h) = saved.gpu /\ machine[h].class = "display" /\ machine[h].rom # "none"
  /\ machine[h].rootSeg = machine[h].seg /\ Routable(h)
  /\ machine[h].vga => ~gpus[gpu].known
  /\ saved.expects # 0 /\ machine[h].id # saved.expects => acked # {}

RowPromised(k) == IdentityMatches = {k}

PromiseInv ==
  stage = "boot" \/ pc = "saved" =>
    /\ \E h \in Handles : DisplayPromised(h)
    /\ \E k \in DOMAIN table : RowPromised(k)

\* How the search can end when nothing fails.
VerdictInv ==
  pc = "decided" /\ faults = 0 =>
    /\ verdict \notin {"noTarget", "noRom", "noDisk", "ambiguousDisk"}
    /\ verdict = "identity" => acked # {}
    /\ verdict = "alreadyActive" => ~gpus[gpu].known
    /\ verdict = "targetPath" =>
         \E h \in Handles : Address(h) = saved.gpu /\ Len(machine[h].path) > MaxBridges + 2

SetupInv ==
  SnapshotInv /\ ChoiceInv /\ PromiseInv /\ VerdictInv /\ ConflictAcknowledged

\* A root bridge is recorded only for a display of its own segment.
LEMMA CapturedFacts ==
  ASSUME NEW h, NEW lost
  PROVE  /\ Captured(h, lost).h = h /\ Captured(h, lost).got \in SUBSET Parts
         /\ {"loc", "root"} \subseteq Captured(h, lost).got => machine[h].rootSeg = machine[h].seg
BY DEF Captured, Parts

\* A record depends on the machine alone.
LEMMA CapturedKept ==
  ASSUME machine' = machine, NEW h, NEW lost
  PROVE  Captured(h, lost)' = Captured(h, lost)
BY DEF Captured, RecordIsDisplay

\* Steps that leave the inventory alone.
LEMMA SnapshotKept ==
  ASSUME SnapshotInv, UNCHANGED <<machine, inventory>>, faults' \in Nat,
         \/ pc' \notin {"read", "built", "decided"}
         \/ faults' = faults /\ pc' = pc /\ next' = next
         \/ faults' = faults /\ pc \in {"built", "decided"} /\ pc' \in {"built", "decided"}
  PROVE  SnapshotInv'
<1>1. InventoryInv'
  BY DEF SnapshotInv, InventoryInv, Handles
<1>2. (\A i \in DOMAIN inventory :
         {"loc", "root"} \subseteq inventory[i].got =>
           machine[inventory[i].h].rootSeg = machine[inventory[i].h].seg)'
  BY DEF SnapshotInv
<1>3. \A h : Captured(h, {})' = Captured(h, {})
  BY CapturedKept
<1>4. ASSUME pc' = "read"
      PROVE  /\ next' \in 1 .. Len(machine') + 1
             /\ \A i \in DOMAIN inventory' : inventory'[i].h < next'
             /\ faults' = 0 => /\ Len(inventory') = next' - 1
                               /\ \A h \in 1 .. next' - 1 : inventory'[h] = Captured(h, {})'
  <2>1. pc = "read" /\ next' = next /\ faults' = faults
    BY <1>4
  <2> QED BY <1>3, <2>1 DEF SnapshotInv
<1>5. ASSUME pc' \in {"built", "decided"}, faults' = 0
      PROVE  Complete'
  <2>1. pc \in {"built", "decided"} /\ faults = 0
    BY <1>5
  <2>2. Complete
    BY <2>1 DEF SnapshotInv
  <2> QED BY <1>3, <2>2 DEF Complete, Handles
<1> QED BY <1>1, <1>2, <1>4, <1>5 DEF SnapshotInv

\* A new inventory is empty.
LEMMA LocateSnapshot ==
  ASSUME SnapshotInv, LocateHandles
  PROVE  SnapshotInv'
<1>1. /\ machine' = machine /\ faults' = faults /\ inventory' = << >> /\ next' = 1
      /\ pc' \in {"read", "failed"}
  BY DEF LocateHandles
<1>2. machine \in Machines /\ faults \in Nat /\ Len(machine) \in Nat
  BY MachineAssumption DEF SnapshotInv, InventoryInv
<1>3. InventoryInv'
  BY <1>1, <1>2 DEF InventoryInv
<1> QED BY <1>1, <1>2, <1>3 DEF SnapshotInv

\* One more record at the end.
LEMMA AppendSnapshot ==
  ASSUME SnapshotInv, pc = "read", next <= Len(machine), NEW lost,
         inventory' = Append(inventory, Captured(next, lost)),
         UNCHANGED <<machine, pc>>, next' = next + 1, faults' \in Nat,
         faults' = 0 => faults = 0 /\ lost = {}
  PROVE  SnapshotInv'
<1> DEFINE r == Captured(next, lost)
           n == Len(inventory)
<1>1. /\ machine \in Machines /\ Len(machine) \in Nat /\ inventory \in Seq(Record) /\ n \in Nat
      /\ next \in Nat /\ next \in Handles /\ next' \in 1 .. Len(machine) + 1
      /\ \A i \in 1 .. n : inventory[i].h \in Handles /\ inventory[i].h < next
      /\ \A i, j \in 1 .. n : i < j => inventory[i].h < inventory[j].h
      /\ DOMAIN inventory = 1 .. n
  <2>1. machine \in Machines /\ inventory \in Seq(Record)
    BY DEF SnapshotInv, InventoryInv
  <2>2. Len(machine) \in Nat /\ n \in Nat /\ DOMAIN inventory = 1 .. n
    BY <2>1, MachineAssumption
  <2>3. next \in 1 .. Len(machine) + 1 /\ \A i \in 1 .. n : inventory[i].h < next
    BY <2>2 DEF SnapshotInv
  <2>4. next \in Nat /\ next \in Handles /\ next' \in 1 .. Len(machine) + 1
    BY <2>2, <2>3 DEF Handles
  <2> QED BY <2>1, <2>2, <2>3, <2>4 DEF SnapshotInv, InventoryInv
<1>2. r.h = next /\ r \in Record
  BY <1>1, CapturedFacts DEF Captured, Record, Parts
<1> HIDE DEF r
<1>3. /\ inventory' \in Seq(Record) /\ DOMAIN inventory' = 1 .. n + 1 /\ Len(inventory') = n + 1
      /\ inventory'[n + 1] = r /\ \A i \in 1 .. n : inventory'[i] = inventory[i]
  BY <1>1, <1>2 DEF r
<1> HIDE DEF n
<1>4. \A i \in 1 .. n + 1 : (i \in 1 .. n \/ i = n + 1) /\ i \in Int
  BY <1>1
<1>5. \A i \in 1 .. n + 1 : inventory'[i].h \in Handles /\ inventory'[i].h < next'
  <2> SUFFICES ASSUME NEW i \in 1 .. n + 1
               PROVE  inventory'[i].h \in Handles /\ inventory'[i].h < next'
    OBVIOUS
  <2>1. CASE i \in 1 .. n
    <3>1. inventory'[i].h \in Handles /\ inventory'[i].h < next
      BY <1>1, <1>3, <2>1
    <3> QED BY <1>1, <3>1 DEF Handles
  <2>2. CASE i = n + 1
    BY <1>1, <1>2, <1>3, <2>2
  <2> QED BY <1>4, <2>1, <2>2
<1>6. \A i, j \in 1 .. n + 1 : i < j => inventory'[i].h < inventory'[j].h
  <2> SUFFICES ASSUME NEW i \in 1 .. n + 1, NEW j \in 1 .. n + 1, i < j
               PROVE  inventory'[i].h < inventory'[j].h
    OBVIOUS
  <2>1. i \in 1 .. n
    BY <1>1, <1>4
  <2>2. CASE j \in 1 .. n
    BY <1>1, <1>3, <2>1, <2>2
  <2>3. CASE j = n + 1
    BY <1>1, <1>2, <1>3, <2>1, <2>3
  <2> QED BY <1>4, <2>2, <2>3
<1>7. InventoryInv'
  BY <1>1, <1>3, <1>5, <1>6 DEF InventoryInv, Handles
<1>8. \A i \in 1 .. n + 1 :
        {"loc", "root"} \subseteq inventory'[i].got =>
          machine[inventory'[i].h].rootSeg = machine[inventory'[i].h].seg
  <2> SUFFICES ASSUME NEW i \in 1 .. n + 1, {"loc", "root"} \subseteq inventory'[i].got
               PROVE  machine[inventory'[i].h].rootSeg = machine[inventory'[i].h].seg
    OBVIOUS
  <2>1. CASE i \in 1 .. n
    BY <1>1, <1>3, <2>1 DEF SnapshotInv
  <2>2. CASE i = n + 1
    <3>1. inventory'[i] = r
      BY <1>3, <2>2
    <3>2. {"loc", "root"} \subseteq r.got => machine[next].rootSeg = machine[next].seg
      BY CapturedFacts DEF r
    <3> QED BY <1>2, <3>1, <3>2
  <2> QED BY <1>4, <2>1, <2>2
<1>9. ASSUME faults' = 0
      PROVE  Len(inventory') = next' - 1 /\ \A h \in 1 .. next' - 1 : inventory'[h] = Captured(h, {})'
  <2>1. /\ faults = 0 /\ lost = {} /\ n = next - 1
        /\ \A h \in 1 .. next - 1 : inventory[h] = Captured(h, {})
    BY <1>9 DEF SnapshotInv, n
  <2>2. next' - 1 = n + 1 /\ next = n + 1
    BY <1>1, <2>1
  <2>3. \A h : Captured(h, {})' = Captured(h, {})
    BY CapturedKept
  <2>4. ASSUME NEW h \in 1 .. n + 1 PROVE inventory'[h] = Captured(h, {})
    <3>1. CASE h \in 1 .. n
      BY <1>3, <2>1, <3>1
    <3>2. CASE h = n + 1
      BY <1>3, <2>1, <2>2, <3>2 DEF r
    <3> QED BY <1>4, <3>1, <3>2
  <2> QED BY <1>3, <2>2, <2>3, <2>4
<1> QED BY <1>1, <1>3, <1>5, <1>7, <1>8, <1>9 DEF SnapshotInv

\* Every step of PciInventoryBuild.
LEMMA BuildSnapshot ==
  ASSUME SnapshotInv, PciInventoryBuild
  PROVE  SnapshotInv'
<1>1. CASE LocateHandles
  BY <1>1, LocateSnapshot
<1>2. CASE ReadHandle
  <2>1. /\ pc = "read" /\ next <= Len(machine) /\ next' = next + 1 /\ machine' = machine /\ pc' = pc
        /\ faults \in Nat
    BY <1>2 DEF ReadHandle, SnapshotInv
  <2>2. CASE inventory' = Append(inventory, Captured(next, {})) /\ faults' = faults
    BY <2>1, <2>2, AppendSnapshot
  <2>3. CASE faults' = faults + 1 /\ \E part \in Parts : inventory' = Append(inventory, Captured(next, {part}))
    <3>1. PICK part \in Parts : inventory' = Append(inventory, Captured(next, {part}))
      BY <2>3
    <3>2. faults' \in Nat /\ faults' # 0
      BY <2>1, <2>3
    <3> QED BY <2>1, <3>1, <3>2, AppendSnapshot
  <2>4. CASE faults' = faults + 1 /\ inventory' = inventory
    <3>1. faults' \in Nat /\ faults' # 0
      BY <2>1, <2>4
    <3>2. InventoryInv'
      BY <2>1, <2>4 DEF SnapshotInv, InventoryInv, Handles
    <3>3. /\ next' \in 1 .. Len(machine') + 1
          /\ \A i \in DOMAIN inventory' : inventory'[i].h < next'
      <4>1. Len(machine) \in Nat
        BY MachineAssumption DEF SnapshotInv, InventoryInv
      <4>2. next \in 1 .. Len(machine) + 1 /\ next \in Nat
        BY <2>1 DEF SnapshotInv
      <4>3. next' \in 1 .. Len(machine') + 1
        BY <2>1, <4>1, <4>2
      <4>4. ASSUME NEW i \in DOMAIN inventory PROVE inventory[i].h < next + 1
        <5>1. inventory[i].h < next /\ inventory[i].h \in Int
          BY <2>1 DEF SnapshotInv, InventoryInv, Handles
        <5> QED BY <4>2, <5>1
      <4> QED BY <2>1, <2>4, <4>3, <4>4
    <3> QED BY <2>1, <2>4, <3>1, <3>2, <3>3 DEF SnapshotInv
  <2> QED BY <1>2, <2>2, <2>3, <2>4 DEF ReadHandle
<1>3. CASE FreeHandles
  <2>1. /\ pc = "read" /\ next > Len(machine) /\ machine' = machine /\ faults' = faults /\ faults \in Nat
        /\ machine \in Machines
    BY <1>3 DEF FreeHandles, SnapshotInv, InventoryInv
  <2>2. CASE pc' = "built" /\ inventory' = inventory
    <3>1. InventoryInv'
      BY <2>1, <2>2 DEF SnapshotInv, InventoryInv, Handles
    <3>2. ASSUME faults' = 0 PROVE Complete'
      <4>1. Len(machine) \in Nat
        BY <2>1, MachineAssumption
      <4>2. next = Len(machine) + 1
        BY <2>1, <4>1 DEF SnapshotInv
      <4>3. /\ Len(inventory) = next - 1
            /\ \A h \in 1 .. next - 1 : inventory[h] = Captured(h, {})
        BY <2>1, <3>2 DEF SnapshotInv
      <4>4. next - 1 = Len(machine)
        BY <4>1, <4>2
      <4>5. \A h : Captured(h, {})' = Captured(h, {})
        BY <2>1, CapturedKept
      <4> QED BY <2>1, <2>2, <4>3, <4>4, <4>5 DEF Complete, Handles
    <3> QED BY <2>1, <2>2, <3>1, <3>2 DEF SnapshotInv
  <2>3. CASE pc' = "failed" /\ inventory' = << >>
    <3>1. InventoryInv'
      BY <2>1, <2>3 DEF InventoryInv
    <3> QED BY <2>1, <2>3, <3>1 DEF SnapshotInv
  <2> QED BY <1>3, <2>2, <2>3 DEF FreeHandles
<1> QED BY <1>1, <1>2, <1>3 DEF PciInventoryBuild

-----------------------------------------------------------------------------
(* The candidates and the choice among them.                               *)

\* Every hard-disk row of the table, and nothing else.
LEMMA HardDisksFacts ==
  ASSUME table \in Tables
  PROVE  /\ HardDisks \in Seq(DOMAIN table)
         /\ \A k \in DOMAIN HardDisks : table[HardDisks[k]].hdd
         /\ \A e \in DOMAIN table : table[e].hdd => e \in Range(HardDisks)
         /\ Len(HardDisks) <= MaxDisks => FirstOf(HardDisks, MaxDisks) = HardDisks
<1> DEFINE S == {k \in DOMAIN table : table[k].hdd}
           n == Cardinality(S)
<1>1. DOMAIN table = 1 .. Len(table) /\ Len(table) \in Nat
  BY SetupAssumption
<1>2. S \in SUBSET Nat /\ IsFiniteSet(S)
  <2>1. IsFiniteSet(1 .. Len(table))
    BY <1>1, FS_Interval
  <2>2. S \in SUBSET (1 .. Len(table)) /\ S \in SUBSET Nat
    BY <1>1
  <2> QED BY <2>1, <2>2, FS_Subset
<1>3. n \in Nat
  BY <1>2, FS_CardinalityType
<1>4. HardDisks = InOrder(S)
  BY DEF HardDisks
<1>5. /\ HardDisks \in [1 .. n -> S]
      /\ \A i \in S : \E k \in 1 .. n : HardDisks[k] = i
  BY <1>2, <1>4, InOrderFacts
<1>6. HardDisks \in Seq(DOMAIN table) /\ DOMAIN HardDisks = 1 .. n /\ Len(HardDisks) = n
  <2>1. S \subseteq DOMAIN table
    OBVIOUS
  <2> HIDE DEF S
  <2> QED BY <1>3, <1>5, <2>1
<1>7. \A k \in DOMAIN HardDisks : table[HardDisks[k]].hdd
  <2> SUFFICES ASSUME NEW k \in 1 .. n PROVE table[HardDisks[k]].hdd
    BY <1>6
  <2>1. HardDisks[k] \in S
    BY <1>5
  <2> QED BY <2>1
<1>8. \A e \in DOMAIN table : table[e].hdd => e \in Range(HardDisks)
  <2> SUFFICES ASSUME NEW e \in S PROVE e \in Range(HardDisks)
    OBVIOUS
  <2>1. PICK k \in 1 .. n : HardDisks[k] = e
    BY <1>5
  <2> QED BY <1>6, <2>1 DEF Range
<1>9. ASSUME Len(HardDisks) <= MaxDisks PROVE FirstOf(HardDisks, MaxDisks) = HardDisks
  <2> DEFINE s == HardDisks
             l == IF Len(s) < MaxDisks THEN Len(s) ELSE MaxDisks
  <2>1. s \in Seq(DOMAIN table) /\ Len(s) \in Nat /\ MaxDisks \in Nat /\ Len(s) <= MaxDisks
    BY <1>3, <1>6, <1>9, SetupAssumption
  <2> HIDE DEF s
  <2>2. l = Len(s)
    BY <2>1
  <2>3. SubSeq(s, 1, Len(s)) = s
    BY <2>1
  <2> QED BY <2>2, <2>3 DEF FirstOf, s
<1> QED BY <1>6, <1>7, <1>8, <1>9

\* A candidate is a display of the inventory.
LEMMA CandidatesFacts ==
  ASSUME InventoryInv, NEW g \in ReportGopOwnership(ReportRomCandidates)
  PROVE  \A k \in DOMAIN g : g[k].i \in DOMAIN inventory
<1> DEFINE kept == ReportRomCandidates
           s == InOrder(Displays)
           n == Cardinality(Displays)
<1>1. Displays \in SUBSET Nat /\ IsFiniteSet(Displays) /\ Displays \subseteq DOMAIN inventory
  <2>1. DOMAIN inventory = 1 .. Len(inventory) /\ Len(inventory) \in Nat
    BY DEF InventoryInv
  <2>2. IsFiniteSet(1 .. Len(inventory))
    BY <2>1, FS_Interval
  <2>3. Displays \in SUBSET (1 .. Len(inventory)) /\ Displays \in SUBSET Nat
    BY <2>1 DEF Displays
  <2> QED BY <2>1, <2>2, <2>3, FS_Subset
<1>2. s \in [1 .. n -> Displays] /\ n \in Nat
  BY <1>1, InOrderFacts, FS_CardinalityType
<1>3. kept \in Seq(Displays)
  <2> HIDE DEF s, n
  <2>1. s \in Seq(Displays) /\ Len(s) = n
    BY <1>2
  <2> DEFINE l == IF Len(s) < MaxDisplays THEN Len(s) ELSE MaxDisplays
  <2>2. l \in Nat /\ l <= Len(s)
    BY <1>2, <2>1, SetupAssumption
  <2> HIDE DEF l
  <2>3. SubSeq(s, 1, l) \in Seq(Displays)
    BY <2>1, <2>2
  <2> QED BY <2>3 DEF ReportRomCandidates, FirstOf, l, s
<1> HIDE DEF kept
<1>4. DOMAIN g = DOMAIN kept /\ \A k \in DOMAIN kept : g[k].i = kept[k]
  BY DEF ReportGopOwnership, kept
<1>5. \A k \in DOMAIN kept : kept[k] \in Displays
  BY <1>3
<1> QED BY <1>1, <1>4, <1>5

\* A step that keeps the candidates and the acknowledgement, and does not reach
\* a screen or a decision, keeps the choice.
LEMMA ChoiceKept ==
  ASSUME ChoiceInv, UNCHANGED <<table, stage, review, confirmed, acked, gpu, disk>>,
         pc' \notin {"displays", "ranking", "screen", "decided"},
         pc' \in {"locate", "read", "built"} => pc \in {"locate", "read", "built"}
  PROVE  ChoiceInv'
BY Zenon DEF ChoiceInv

\* Discovery and ranking.
LEMMA CandidatesStep ==
  ASSUME SetupInv, CollectDisplays \/ CollectDisks \/ ChooseDefaults
  PROVE  ChoiceInv'
<1>1. table \in Tables /\ InventoryInv /\ stage = "setup" /\ ~review /\ ~confirmed
  BY DEF SetupInv, ChoiceInv, SnapshotInv, CollectDisplays, CollectDisks, ChooseDefaults
<1>2. UNCHANGED <<table, stage, inventory, review, confirmed>>
  BY DEF CollectDisplays, CollectDisks, ChooseDefaults
<1>3. HardDisks' = HardDisks
  BY <1>2 DEF HardDisks
<1>4. /\ table' \in Tables /\ stage' \in {"setup", "boot"}
      /\ ~review' /\ ~confirmed'
  BY <1>1, <1>2
<1>5. CASE CollectDisplays
  <2>1. pc' = "displays" /\ gpus' \in ReportGopOwnership(ReportRomCandidates)
    BY <1>5 DEF CollectDisplays
  <2>2. \A k \in DOMAIN gpus' : gpus'[k].i \in DOMAIN inventory'
    BY <1>1, <1>2, <2>1, CandidatesFacts
  <2> QED BY <1>4, <2>1, <2>2 DEF ChoiceInv
<1>6. CASE CollectDisks
  <2>1. /\ pc = "displays" /\ pc' = "ranking" /\ gpus' = gpus
        /\ disks' \in {FirstOf(HardDisks, MaxDisks), << >>}
    BY <1>6 DEF CollectDisks
  <2>2. \A k \in DOMAIN gpus' : gpus'[k].i \in DOMAIN inventory'
    BY <1>1, <1>2, <2>1 DEF SetupInv, ChoiceInv
  <2>3. disks' \in {FirstOf(HardDisks', MaxDisks), << >>}
    BY <1>3, <2>1
  <2> QED BY <1>4, <2>1, <2>2, <2>3 DEF ChoiceInv
<1>7. CASE ChooseDefaults
  <2>1. /\ pc = "ranking" /\ gpus' = gpus /\ disks' = disks
        /\ pc' \in {"refused", "screen", "incomplete"} /\ (pc' = "screen" => ~Overflow)
    BY <1>7 DEF ChooseDefaults
  <2>2. \A k \in DOMAIN gpus' : gpus'[k].i \in DOMAIN inventory'
    BY <1>1, <1>2, <2>1 DEF SetupInv, ChoiceInv
  <2>3. ASSUME pc' = "screen" PROVE disks' \in {HardDisks', << >>}
    <3>1. disks \in {FirstOf(HardDisks, MaxDisks), << >>}
      BY <1>1, <2>1 DEF SetupInv, ChoiceInv
    <3>2. disks = << >> \/ ~(Len(HardDisks) > MaxDisks)
      BY <2>1, <2>3 DEF Overflow
    <3>3. Len(HardDisks) \in Nat /\ MaxDisks \in Nat
      BY <1>1, HardDisksFacts, SetupAssumption
    <3>4. disks # << >> => Len(HardDisks) <= MaxDisks
      BY <3>2, <3>3
    <3> QED BY <1>1, <1>3, <2>1, <3>1, <3>4, HardDisksFacts
  <2> QED BY <1>4, <2>1, <2>2, <2>3 DEF ChoiceInv
<1> QED BY <1>5, <1>6, <1>7

\* The keys of the selection screen.
LEMMA ScreenStep ==
  ASSUME SetupInv, ChangeTarget \/ ReviewTargets \/ Acknowledge \/ BackToChoices
  PROVE  ChoiceInv'
<1>1. stage = "setup" /\ pc = "screen" /\ pc' = pc
  BY DEF ChangeTarget, ReviewTargets, Acknowledge, BackToChoices, OnScreen
<1>2. UNCHANGED <<table, stage, inventory, gpus, disks>>
  BY DEF ChangeTarget, ReviewTargets, Acknowledge, BackToChoices, screenRest
<1>3. HardDisks' = HardDisks
  BY <1>2 DEF HardDisks
<1>4. /\ table' \in Tables /\ stage' \in {"setup", "boot"}
      /\ \A k \in DOMAIN gpus' : gpus'[k].i \in DOMAIN inventory'
      /\ disks' \in {HardDisks', << >>}
  BY <1>1, <1>2, <1>3 DEF SetupInv, ChoiceInv
<1>5. confirmed => review /\ <<gpu, disk>> \in acked
  BY DEF SetupInv, ChoiceInv
<1>6. confirmed' => review' /\ <<gpu, disk>>' \in acked'
  <2>1. CASE ChangeTarget
    BY <1>5, <2>1 DEF ChangeTarget
  <2>2. CASE ReviewTargets
    BY <1>5, <2>2 DEF ReviewTargets
  <2>3. CASE Acknowledge
    BY <1>5, <2>3 DEF Acknowledge
  <2>4. CASE BackToChoices
    BY <2>4, Zenon DEF BackToChoices
  <2> QED BY <2>1, <2>2, <2>3, <2>4
<1> QED BY <1>1, <1>4, <1>6 DEF ChoiceInv

\* Every step keeps the choice in order.
LEMMA ChoiceStep ==
  ASSUME SetupInv, [Next]_vars
  PROVE  ChoiceInv'
<1>1. CASE BuildInventory
  <2>1. UNCHANGED <<table, stage, review, confirmed, acked, gpu, disk>>
    BY <1>1 DEF BuildInventory, setupVars
  <2>2. pc \in {"locate", "read"} /\ pc' \in {"read", "failed", "built"}
    BY <1>1 DEF BuildInventory, PciInventoryBuild, LocateHandles, ReadHandle, FreeHandles
  <2> QED BY <2>1, <2>2, ChoiceKept DEF SetupInv
<1>2. CASE CollectDisplays \/ CollectDisks \/ ChooseDefaults
  BY <1>2, CandidatesStep
<1>3. CASE ChangeTarget \/ ReviewTargets \/ Acknowledge \/ BackToChoices
  BY <1>3, ScreenStep
<1>4. CASE LeaveScreen \/ SaveTargets
  <2>1. UNCHANGED <<table, stage, review, confirmed, acked, gpu, disk>>
    BY <1>4 DEF LeaveScreen, SaveTargets, screenRest
  <2>2. pc' \in {"cancelled", "saved", "notSaved"}
    BY <1>4 DEF LeaveScreen, SaveTargets
  <2> QED BY <2>1, <2>2, ChoiceKept DEF SetupInv
<1>5. CASE StartBoot
  BY <1>5 DEF StartBoot, setupVars, SetupInv, ChoiceInv
<1>6. CASE FindTargets
  BY <1>6 DEF FindTargets, setupVars, SetupInv, ChoiceInv
<1>7. CASE UNCHANGED vars
  <2>1. HardDisks' = HardDisks
    BY <1>7 DEF HardDisks, vars, setupVars
  <2> QED BY <1>7, <2>1 DEF vars, setupVars, SetupInv, ChoiceInv
<1> QED BY <1>1, <1>2, <1>3, <1>4, <1>5, <1>6, <1>7 DEF Next, Finished

\* Every step keeps the inventory in order.
LEMMA SnapshotStep ==
  ASSUME SetupInv, [Next]_vars
  PROVE  SnapshotInv'
<1>1. SnapshotInv /\ faults \in Nat
  BY DEF SetupInv, SnapshotInv
<1>2. CASE BuildInventory
  BY <1>1, <1>2, BuildSnapshot DEF BuildInventory
<1>3. CASE CollectDisplays \/ CollectDisks \/ ChooseDefaults
  <2>1. UNCHANGED <<machine, inventory, faults>> /\ pc' \notin {"read", "built", "decided"}
    BY <1>3 DEF CollectDisplays, CollectDisks, ChooseDefaults
  <2> QED BY <1>1, <2>1, SnapshotKept
<1>4. CASE ChangeTarget \/ ReviewTargets \/ Acknowledge \/ BackToChoices \/ LeaveScreen
  <2>1. UNCHANGED <<machine, inventory, faults>> /\ pc' \notin {"read", "built", "decided"}
    BY <1>4 DEF ChangeTarget, ReviewTargets, Acknowledge, BackToChoices, LeaveScreen, OnScreen, screenRest
  <2> QED BY <1>1, <2>1, SnapshotKept
<1>5. CASE SaveTargets
  <2>1. UNCHANGED <<machine, inventory, faults>> /\ pc' \notin {"read", "built", "decided"}
    BY <1>5 DEF SaveTargets
  <2> QED BY <1>1, <2>1, SnapshotKept
<1>6. CASE StartBoot
  <2>1. UNCHANGED <<machine, inventory>> /\ faults' \in Nat /\ pc' \notin {"read", "built", "decided"}
    BY <1>6 DEF StartBoot
  <2> QED BY <1>1, <2>1, SnapshotKept
<1>7. CASE FindTargets
  <2>1. UNCHANGED <<machine, inventory, faults>> /\ pc = "built" /\ pc' = "decided"
    BY <1>7 DEF FindTargets
  <2> QED BY <1>1, <2>1, SnapshotKept
<1>8. CASE UNCHANGED vars
  <2>1. UNCHANGED <<machine, inventory, faults, pc, next>>
    BY <1>8 DEF vars
  <2> QED BY <1>1, <2>1, SnapshotKept
<1> QED BY <1>2, <1>3, <1>4, <1>5, <1>6, <1>7, <1>8 DEF Next, Finished

-----------------------------------------------------------------------------
(* What the save promises, and what the boot makes of it.                  *)

\* An unambiguous name is a name no other row answers to.
LEMMA EligibleRowIsUnique ==
  ASSUME table \in Tables, disks \in {HardDisks, << >>}, NEW d \in DOMAIN disks,
         StorageEligible(disks[d])
  PROVE  /\ disks[d] \in DOMAIN table
         /\ \A k \in DOMAIN table :
              (/\ table[k].hdd
               /\ table[k].bus = table[disks[d]].bus /\ table[k].slot = table[disks[d]].slot
               /\ Fold(table[k].text) = Fold(table[disks[d]].text)) <=> k = disks[d]
<1>1. disks = HardDisks
  OBVIOUS
<1> DEFINE r == disks[d]
<1>2. r \in DOMAIN table /\ table[r].hdd
  BY <1>1, HardDisksFacts
<1>3. AddressValid(table[r]) /\ ~IdentityAmbiguous(r)
  BY DEF StorageEligible
<1> HIDE DEF r
<1>4. ASSUME NEW k \in DOMAIN table, table[k].hdd, k # r,
             table[k].bus = table[r].bus, table[k].slot = table[r].slot,
             Fold(table[k].text) = Fold(table[r].text)
      PROVE  FALSE
  <2>1. k \in Range(disks) \ {r}
    BY <1>1, <1>4, HardDisksFacts
  <2>2. AddressValid(table[k])
    BY <1>3, <1>4 DEF AddressValid
  <2> QED BY <1>3, <1>4, <2>1, <2>2 DEF IdentityAmbiguous
<1>5. \A k \in DOMAIN table :
        (/\ table[k].hdd /\ table[k].bus = table[r].bus /\ table[k].slot = table[r].slot
         /\ Fold(table[k].text) = Fold(table[r].text)) <=> k = r
  BY <1>2, <1>4
<1> QED BY <1>2, <1>5 DEF r

\* What the screen has checked of an eligible display, about the device itself.
LEMMA EligibleDisplayFacts ==
  ASSUME SnapshotInv, NEW g, g.i \in DOMAIN inventory, DisplayEligible(g)
  PROVE  LET h == inventory[g.i].h
         IN  /\ h \in Handles /\ machine[h].class = "display" /\ machine[h].rom # "none"
             /\ machine[h].rootSeg = machine[h].seg /\ Routable(h)
             /\ machine[h].vga => ~g.known
<1> DEFINE i == g.i
           h == inventory[i].h
<1>1. i \in DOMAIN inventory /\ InventoryInv /\ h \in Handles
  BY RecordFacts DEF SnapshotInv
<1>2. PciProbeDevicePathBridgePathStatus(i)
  BY DEF DisplayEligible
<1>3. Routable(h)
  BY <1>1, <1>2, ProbedIsRoutable
<1>4. /\ RecordLocationIsValid(inventory[i]) /\ RecordIsDisplay(inventory[i])
      /\ "root" \in inventory[i].got
  BY <1>2 DEF PciProbeDevicePathBridgePathStatus, PathCanBeAsked
<1>5. {"loc", "root"} \subseteq inventory[i].got
  BY <1>4 DEF RecordLocationIsValid
<1>6. machine[h].rootSeg = machine[h].seg
  BY <1>1, <1>5 DEF SnapshotInv
<1>7. machine[h].class = "display"
  BY <1>4 DEF RecordIsDisplay
<1>8. machine[h].rom # "none" /\ (machine[h].vga => ~g.known)
  BY DEF DisplayEligible, Of
<1> QED BY <1>1, <1>3, <1>6, <1>7, <1>8

\* The save writes down a pair that the screen has checked.
LEMMA SavePromises ==
  ASSUME SetupInv, SaveTargets
  PROVE  PromiseInv'
<1>1. CASE pc' = "saved"
  <2>1. /\ stage = "setup" /\ pc = "screen" /\ gpu \in DOMAIN gpus /\ disk \in DOMAIN disks
        /\ DisplayEligible(gpus[gpu]) /\ StorageEligible(disks[disk])
        /\ Conflict(gpu, disk) => confirmed
    BY DEF SaveTargets, OnScreen, Ready
  <2>2. /\ saved'.gpu = Address(inventory[gpus[gpu].i].h)
        /\ saved'.ctrl = DiskController(disks[disk])
        /\ saved'.text = table[disks[disk]].text
        /\ saved'.expects = IF retained = NoSettings THEN 0 ELSE retained.expects
    BY <1>1 DEF SaveTargets
  <2>3. UNCHANGED <<machine, table, gpus, gpu, acked>>
    BY DEF SaveTargets
  <2>4. /\ SnapshotInv /\ gpus[gpu].i \in DOMAIN inventory /\ table \in Tables
        /\ disks \in {HardDisks, << >>} /\ (confirmed => acked # {})
    BY <2>1 DEF SetupInv, ChoiceInv
  <2>5. PICK h \in Handles :
          /\ h = inventory[gpus[gpu].i].h
          /\ machine[h].class = "display" /\ machine[h].rom # "none"
          /\ machine[h].rootSeg = machine[h].seg /\ Routable(h)
          /\ machine[h].vga => ~gpus[gpu].known
    BY <2>1, <2>4, EligibleDisplayFacts
  <2>6. saved'.expects # 0 /\ machine[h].id # saved'.expects => acked # {}
    <3> SUFFICES ASSUME saved'.expects # 0, machine[h].id # saved'.expects PROVE acked # {}
      OBVIOUS
    <3>1. retained # NoSettings /\ saved'.expects = retained.expects
      BY <2>2
    <3>2. Conflict(gpu, disk)
      BY <2>5, <3>1 DEF Conflict, Of
    <3> QED BY <2>1, <2>4, <3>2
  <2>7. h \in Handles' /\ DisplayPromised(h)'
    <3>1. Routable(h)'
      BY <2>3, <2>5, RoutableKept
    <3>2. Address(h)' = saved'.gpu
      BY <2>2, <2>3, <2>5 DEF Address
    <3> QED BY <2>3, <2>5, <2>6, <3>1, <3>2 DEF DisplayPromised, Handles
  <2>8. PICK r \in DOMAIN table :
          /\ r = disks[disk]
          /\ \A k \in DOMAIN table :
               (/\ table[k].hdd /\ table[k].bus = table[r].bus /\ table[k].slot = table[r].slot
                /\ Fold(table[k].text) = Fold(table[r].text)) <=> k = r
    BY <2>1, <2>4, EligibleRowIsUnique
  <2>9. Tail(saved'.ctrl) = <<table[r].bus, table[r].slot>> /\ saved'.text = table[r].text
    BY <2>2, <2>8 DEF DiskController
  <2>10. r \in DOMAIN table' /\ RowPromised(r)'
    <3>1. \A k \in DOMAIN table :
            <<table[k].bus, table[k].slot>> = Tail(saved'.ctrl)
              <=> table[k].bus = table[r].bus /\ table[k].slot = table[r].slot
      BY <2>9
    <3> DEFINE M == {k \in DOMAIN table :
                       /\ table[k].hdd /\ <<table[k].bus, table[k].slot>> = Tail(saved'.ctrl)
                       /\ Fold(table[k].text) = Fold(saved'.text)}
    <3>2. \A k : k \in M <=> k = r
      BY <2>8, <2>9, <3>1
    <3>3. M = {r}
      <4> HIDE DEF M
      <4> QED BY <3>2
    <3> QED BY <2>3, <2>8, <3>3 DEF RowPromised, IdentityMatches
  <2> QED BY <2>7, <2>10 DEF PromiseInv
<1>2. CASE pc' # "saved"
  <2>1. stage' # "boot"
    BY DEF SaveTargets, OnScreen
  <2> QED BY <1>2, <2>1 DEF PromiseInv
<1> QED BY <1>1, <1>2

\* The promise does not depend on the inventory.
LEMMA PromiseKept ==
  ASSUME PromiseInv, UNCHANGED <<machine, table, gpus, gpu, acked, saved>>,
         stage' = "boot" \/ pc' = "saved" => stage = "boot" \/ pc = "saved"
  PROVE  PromiseInv'
<1> SUFFICES ASSUME stage' = "boot" \/ pc' = "saved"
             PROVE  /\ (\E h \in Handles : DisplayPromised(h))'
                    /\ (\E k \in DOMAIN table : RowPromised(k))'
  BY DEF PromiseInv
<1>1. PICK h \in Handles : DisplayPromised(h)
  BY DEF PromiseInv
<1>2. PICK k \in DOMAIN table : RowPromised(k)
  BY DEF PromiseInv
<1>3. Routable(h)'
  BY <1>1, RoutableKept DEF DisplayPromised
<1>4. h \in Handles' /\ DisplayPromised(h)'
  BY <1>1, <1>3 DEF DisplayPromised, Address, Handles
<1>5. k \in DOMAIN table' /\ RowPromised(k)'
  BY <1>2 DEF RowPromised, IdentityMatches
<1> QED BY <1>4, <1>5

\* Every step keeps the promise.
LEMMA PromiseStep ==
  ASSUME SetupInv, [Next]_vars
  PROVE  PromiseInv'
<1>1. PromiseInv
  BY DEF SetupInv
<1>2. CASE BuildInventory
  <2>1. UNCHANGED <<machine, table, gpus, gpu, acked, saved, stage>> /\ pc' # "saved"
    BY <1>2 DEF BuildInventory, PciInventoryBuild, LocateHandles, ReadHandle, FreeHandles, setupVars
  <2> QED BY <1>1, <2>1, PromiseKept
<1>3. CASE CollectDisplays \/ CollectDisks \/ ChooseDefaults
  <2>1. stage' = "setup" /\ pc' # "saved"
    BY <1>3 DEF CollectDisplays, CollectDisks, ChooseDefaults
  <2> QED BY <2>1 DEF PromiseInv
<1>4. CASE ChangeTarget \/ ReviewTargets \/ Acknowledge \/ BackToChoices \/ LeaveScreen
  <2>1. stage' = "setup" /\ pc' # "saved"
    BY <1>4 DEF ChangeTarget, ReviewTargets, Acknowledge, BackToChoices, LeaveScreen, OnScreen, screenRest
  <2> QED BY <2>1 DEF PromiseInv
<1>5. CASE SaveTargets
  BY <1>5, SavePromises
<1>6. CASE StartBoot
  <2>1. UNCHANGED <<machine, table, gpus, gpu, acked, saved>> /\ pc = "saved"
    BY <1>6 DEF StartBoot, setupVars
  <2> QED BY <1>1, <2>1, PromiseKept
<1>7. CASE FindTargets
  <2>1. UNCHANGED <<machine, table, gpus, gpu, acked, saved, stage>> /\ pc' # "saved"
    BY <1>7 DEF FindTargets, setupVars
  <2> QED BY <1>1, <2>1, PromiseKept
<1>8. CASE UNCHANGED vars
  <2>1. UNCHANGED <<machine, table, gpus, gpu, acked, saved, stage, pc>>
    BY <1>8 DEF vars, setupVars
  <2> QED BY <1>1, <2>1, PromiseKept
<1> QED BY <1>2, <1>3, <1>4, <1>5, <1>6, <1>7, <1>8 DEF Next, Finished

\* A complete inventory has the promised display, once, and asks it for a path.
LEMMA CompleteFindsTarget ==
  ASSUME InventoryInv, Complete, NEW h \in Handles, DisplayPromised(h)
  PROVE  /\ TargetMatches = {h} /\ Of(h) = machine[h]
         /\ \E p \in BuildDevicePathBridgePath(h) :
              /\ Len(p) + 2 = Len(machine[h].path) /\ Len(p) \in Nat
              /\ Len(p) <= MaxBridges => PciBuildValidatedDevicePathBridgePath(h) # {}
<1>1. machine \in Machines /\ Address(h) = saved.gpu /\ machine[h].class = "display"
  BY DEF InventoryInv, DisplayPromised
<1>2. /\ h \in DOMAIN inventory /\ Of(h) = machine[h] /\ inventory[h].h = h
      /\ "loc" \in inventory[h].got /\ "cfg" \in inventory[h].got /\ "root" \in inventory[h].got
  BY CompleteFacts DEF DisplayPromised
<1>3. PathCanBeAsked(h)
  BY <1>1, <1>2 DEF PathCanBeAsked, RecordLocationIsValid, RecordIsDisplay
<1>4. \A i : i \in TargetMatches <=> i = h
  <2>1. h \in TargetMatches
    BY <1>1, <1>2, <1>3 DEF TargetMatches, Displays, PathCanBeAsked
  <2>2. ASSUME NEW i \in TargetMatches PROVE i = h
    <3>1. i \in DOMAIN inventory /\ Address(inventory[i].h) = saved.gpu
      BY DEF TargetMatches, Displays
    <3>2. i \in Handles /\ inventory[i].h = i
      BY <3>1, CompleteFacts
    <3> QED BY <1>1, <3>1, <3>2, PathIs
  <2> QED BY <2>1, <2>2
<1>5. TargetMatches = {h}
  BY <1>4
<1>6. PICK p \in BuildDevicePathBridgePath(h) : CrossCheckBridgePath(h, p)
  BY RoutableIsBuilt DEF DisplayPromised
<1>7. Len(p) + 2 = Len(machine[h].path) /\ Len(p) \in Nat
  BY <1>2, PathShape
<1>8. Len(p) <= MaxBridges => p \in PciBuildValidatedDevicePathBridgePath(h)
  BY <1>3, <1>6 DEF PciBuildValidatedDevicePathBridgePath
<1> QED BY <1>2, <1>5, <1>7, <1>8

\* The search at boot, in an inventory without a fault.
LEMMA FindVerdict ==
  ASSUME SetupInv, FindTargets
  PROVE  VerdictInv'
<1> SUFFICES ASSUME faults' = 0
             PROVE  /\ verdict' \notin {"noTarget", "noRom", "noDisk", "ambiguousDisk"}
                    /\ verdict' = "identity" => acked' # {}
                    /\ verdict' = "alreadyActive" => ~gpus'[gpu'].known
                    /\ verdict' = "targetPath" =>
                         \E h \in Handles' : Address(h)' = saved'.gpu /\ Len(machine'[h].path) > MaxBridges + 2
  BY DEF VerdictInv
<1>1. UNCHANGED <<machine, inventory, faults, table, gpus, gpu, acked, saved>>
  BY DEF FindTargets, setupVars
<1>2. InventoryInv /\ Complete /\ stage = "boot"
  BY <1>1 DEF FindTargets, SetupInv, SnapshotInv
<1>3. PICK h \in Handles : DisplayPromised(h)
  BY <1>2 DEF SetupInv, PromiseInv
<1>4. PICK k \in DOMAIN table : RowPromised(k)
  BY <1>2 DEF SetupInv, PromiseInv
<1>5. TargetMatches = {h} /\ Of(h) = machine[h]
  BY <1>2, <1>3, CompleteFindsTarget
<1>6. Cardinality(TargetMatches) = 1 /\ (CHOOSE i \in TargetMatches : TRUE) = h
  BY <1>5, FS_Singleton
<1>7. Cardinality(IdentityMatches) = 1 /\ IdentityMatches # {}
  BY <1>4, FS_Singleton DEF RowPromised
<1>8. LegacyBootLogAndCorrelateLiveBbs \in {"diskIneligible", "ready"}
  BY <1>7 DEF LegacyBootLogAndCorrelateLiveBbs
<1> DEFINE v == FindVideoEndpoints
<1>9. /\ v \notin {"noTarget", "noRom", "noDisk", "ambiguousDisk"}
      /\ v = "identity" => saved.expects # 0 /\ machine[h].id # saved.expects
      /\ v = "alreadyActive" => h \in ActiveOwners
      /\ v = "targetPath" => PciBuildValidatedDevicePathBridgePath(h) = {}
  <2> DEFINE a == CHOOSE i \in ActiveOwners : TRUE
  <2>1. Cardinality(ActiveOwners) = 1 => a \in ActiveOwners
    <3>1. Cardinality(ActiveOwners) = 1 => ActiveOwners # {}
      BY FS_EmptySet
    <3> QED BY <3>1
  <2>2. Of(h).rom # "none"
    BY <1>3, <1>5 DEF DisplayPromised
  <2> HIDE DEF a
  <2>3. v = IF Cardinality(ActiveOwners) # 1 THEN "noActive"
            ELSE IF h = a THEN "alreadyActive"
            ELSE IF ~RecordLocationIsValid(inventory[a]) THEN "noEndpoint"
            ELSE IF Of(h).seg # 0 THEN "segment"
            ELSE IF saved.expects # 0 /\ Of(h).id # saved.expects THEN "identity"
            ELSE IF ~("root" \in inventory[h].got /\ "root" \in inventory[a].got
                      /\ Of(h).root = Of(a).root) THEN "otherRoot"
            ELSE IF PciBuildValidatedDevicePathBridgePath(a) = {} THEN "activePath"
            ELSE IF PciBuildValidatedDevicePathBridgePath(h) = {} THEN "targetPath"
            ELSE IF Of(h).rom = "none" THEN "noRom"
            ELSE IF Of(h).rom = "many" THEN "romUnsuited"
            ELSE "found"
    BY <1>6 DEF FindVideoEndpoints, a
  <2> HIDE DEF v
  <2> QED BY <1>5, <2>1, <2>2, <2>3
<1>10. (verdict' = v /\ v # "found") \/ verdict' \in {"noController", "diskIneligible", "ready"}
  BY <1>8 DEF FindTargets
<1> HIDE DEF v
<1>11. verdict' \notin {"noTarget", "noRom", "noDisk", "ambiguousDisk"}
  BY <1>9, <1>10
<1>12. verdict' = "identity" => acked' # {}
  BY <1>1, <1>3, <1>9, <1>10 DEF DisplayPromised
<1>13. verdict' = "alreadyActive" => ~gpus'[gpu'].known
  <2> SUFFICES ASSUME verdict' = "alreadyActive" PROVE ~gpus[gpu].known
    BY <1>1
  <2>1. h \in ActiveOwners
    BY <1>9, <1>10
  <2>2. machine[h].vga
    BY <1>5, <2>1 DEF ActiveOwners
  <2> QED BY <1>3, <2>2 DEF DisplayPromised
<1>14. ASSUME verdict' = "targetPath"
       PROVE  h \in Handles' /\ Address(h)' = saved'.gpu /\ Len(machine'[h].path) > MaxBridges + 2
  <2>1. PICK p \in BuildDevicePathBridgePath(h) :
          /\ Len(p) + 2 = Len(machine[h].path) /\ Len(p) \in Nat
          /\ Len(p) <= MaxBridges => PciBuildValidatedDevicePathBridgePath(h) # {}
    BY <1>2, <1>3, CompleteFindsTarget
  <2> DEFINE n == Len(p)
             l == Len(machine[h].path)
  <2>2. n \in Nat /\ n + 2 = l /\ ~(n <= MaxBridges) /\ MaxBridges \in Nat
    BY <1>9, <1>10, <1>14, <2>1, MachineAssumption
  <2> HIDE DEF n, l
  <2>3. l > MaxBridges + 2
    BY <2>2
  <2>4. Address(h) = saved.gpu
    BY <1>3 DEF DisplayPromised
  <2> QED BY <1>1, <1>3, <2>3, <2>4 DEF l, Address, Handles
<1> QED BY <1>11, <1>12, <1>13, <1>14

\* Every step keeps the verdict explained.
LEMMA VerdictStep ==
  ASSUME SetupInv, [Next]_vars
  PROVE  VerdictInv'
<1>1. CASE FindTargets
  BY <1>1, FindVerdict
<1>2. CASE UNCHANGED vars
  BY <1>2 DEF vars, setupVars, SetupInv, VerdictInv, Handles, Address
<1>3. CASE BuildInventory
  <2>1. pc' # "decided"
    BY <1>3 DEF BuildInventory, PciInventoryBuild, LocateHandles, ReadHandle, FreeHandles
  <2> QED BY <2>1 DEF VerdictInv
<1>4. CASE CollectDisplays \/ CollectDisks \/ ChooseDefaults \/ SaveTargets \/ StartBoot
  <2>1. pc' # "decided"
    BY <1>4 DEF CollectDisplays, CollectDisks, ChooseDefaults, SaveTargets, StartBoot
  <2> QED BY <2>1 DEF VerdictInv
<1>5. CASE ChangeTarget \/ ReviewTargets \/ Acknowledge \/ BackToChoices \/ LeaveScreen
  <2>1. pc' # "decided"
    BY <1>5 DEF ChangeTarget, ReviewTargets, Acknowledge, BackToChoices, LeaveScreen, OnScreen
  <2> QED BY <2>1 DEF VerdictInv
<1> QED BY <1>1, <1>2, <1>3, <1>4, <1>5 DEF Next, Finished

\* Only an acknowledged pair passes the save; nothing touches it afterwards.
LEMMA ConflictStep ==
  ASSUME SetupInv, [Next]_vars
  PROVE  ConflictAcknowledged'
<1>1. CASE SaveTargets
  <2>1. UNCHANGED <<machine, inventory, table, retained, gpus, disks, gpu, disk, acked>>
    BY <1>1 DEF SaveTargets
  <2>2. (Conflict(gpu, disk) => confirmed) /\ (confirmed => <<gpu, disk>> \in acked)
    BY <1>1 DEF SaveTargets, SetupInv, ChoiceInv
  <2>3. Conflict(gpu, disk)' => Conflict(gpu, disk)
    BY <2>1 DEF Conflict, Of, DiskController
  <2> QED BY <2>1, <2>2, <2>3 DEF ConflictAcknowledged
<1>2. CASE UNCHANGED vars
  <2>1. Conflict(gpu, disk)' => Conflict(gpu, disk)
    BY <1>2 DEF Conflict, Of, DiskController, vars, setupVars
  <2> QED BY <1>2, <2>1 DEF SetupInv, ConflictAcknowledged, vars, setupVars
<1>3. CASE BuildInventory
  <2>1. pc' \notin {"saved", "notSaved"}
    BY <1>3 DEF BuildInventory, PciInventoryBuild, LocateHandles, ReadHandle, FreeHandles
  <2> QED BY <2>1 DEF ConflictAcknowledged
<1>4. CASE CollectDisplays \/ CollectDisks \/ ChooseDefaults \/ StartBoot \/ FindTargets
  <2>1. pc' \notin {"saved", "notSaved"}
    BY <1>4 DEF CollectDisplays, CollectDisks, ChooseDefaults, StartBoot, FindTargets
  <2> QED BY <2>1 DEF ConflictAcknowledged
<1>5. CASE ChangeTarget \/ ReviewTargets \/ Acknowledge \/ BackToChoices \/ LeaveScreen
  <2>1. pc' \notin {"saved", "notSaved"}
    BY <1>5 DEF ChangeTarget, ReviewTargets, Acknowledge, BackToChoices, LeaveScreen, OnScreen
  <2> QED BY <2>1 DEF ConflictAcknowledged
<1> QED BY <1>1, <1>2, <1>3, <1>4, <1>5 DEF Next, Finished

-----------------------------------------------------------------------------
(* The theorems.                                                           *)

\* The invariant holds at the start.
LEMMA SetupInit ==
  ASSUME Init
  PROVE  SetupInv
<1>1. SnapshotInv
  BY DEF Init, SnapshotInv, InventoryInv
<1>2. ChoiceInv
  BY DEF Init, ChoiceInv
<1> QED BY <1>1, <1>2 DEF Init, SetupInv, PromiseInv, VerdictInv, ConflictAcknowledged

\* Whatever the machine, the boot table and the settings being edited, and
\* whatever reads fail: an inventory is what was read of the machine, a saved
\* pair keeps what the screen showed of it, and a verdict says why.
THEOREM SetupInvariant == Spec => []SetupInv
<1>1. Init => SetupInv
  BY SetupInit
<1>2. SetupInv /\ [Next]_vars => SetupInv'
  BY SnapshotStep, ChoiceStep, PromiseStep, VerdictStep, ConflictStep DEF SetupInv
<1> QED BY <1>1, <1>2, PTL DEF Spec

\* The bridges a boot routes are exactly the ones above its display, for every
\* machine whose device paths are what the standard makes them.
THEOREM PathSafe == Spec => []OperatingPathExact
<1>1. SetupInv => OperatingPathExact
  <2> SUFFICES ASSUME SetupInv, NEW i \in DOMAIN inventory,
                      NEW p \in PciBuildValidatedDevicePathBridgePath(i)
               PROVE  Upstream([k \in DOMAIN p |-> inventory[p[k]].h], inventory[i].h)
    BY DEF OperatingPathExact
  <2>1. InventoryInv /\ p \in BuildDevicePathBridgePath(i)
    BY DEF SetupInv, SnapshotInv, PciBuildValidatedDevicePathBridgePath
  <2> QED BY <2>1, PathIsUpstream
<1> QED BY <1>1, SetupInvariant, PTL

\* A conflict with retained settings is never saved without the user's word for
\* that very pair.
THEOREM ConsentSafe == Spec => []ConflictAcknowledged
<1>1. SetupInv => ConflictAcknowledged
  BY DEF SetupInv
<1> QED BY <1>1, SetupInvariant, PTL

\* What setup saves, a boot whose reads all succeed finds again, or it names one
\* of the announced reasons.
THEOREM TargetSafe == Spec => []SavedTargetResolves
<1>1. SetupInv => SavedTargetResolves
  <2> SUFFICES ASSUME SetupInv, pc = "decided", faults = 0
               PROVE  /\ verdict \notin {"noTarget", "noRom", "noDisk", "ambiguousDisk"}
                      /\ verdict = "identity" => acked # {}
                      /\ verdict = "alreadyActive" => ~gpus[gpu].known
                      /\ verdict = "targetPath" =>
                           \E t \in TargetMatches : \E p \in BuildDevicePathBridgePath(t) : Len(p) > MaxBridges
    BY DEF SavedTargetResolves
  <2>1. InventoryInv /\ Complete /\ machine \in Machines /\ stage = "boot"
    BY DEF SetupInv, SnapshotInv, ChoiceInv, InventoryInv
  <2>2. PICK h \in Handles : DisplayPromised(h)
    BY <2>1 DEF SetupInv, PromiseInv
  <2>3. PICK p \in BuildDevicePathBridgePath(h) :
          Len(p) + 2 = Len(machine[h].path) /\ Len(p) \in Nat
    BY <2>1, <2>2, CompleteFindsTarget
  <2>4. TargetMatches = {h}
    BY <2>1, <2>2, CompleteFindsTarget
  <2>5. ASSUME verdict = "targetPath" PROVE Len(p) > MaxBridges
    <3>1. PICK g \in Handles : Address(g) = saved.gpu /\ Len(machine[g].path) > MaxBridges + 2
      BY <2>5 DEF SetupInv, VerdictInv
    <3>2. g = h
      BY <2>1, <2>2, <3>1, PathIs DEF DisplayPromised
    <3> DEFINE n == Len(p)
               l == Len(machine[h].path)
    <3>3. n \in Nat /\ n + 2 = l /\ l > MaxBridges + 2 /\ MaxBridges \in Nat
      BY <2>3, <3>1, <3>2, MachineAssumption
    <3> HIDE DEF n, l
    <3>4. n > MaxBridges
      BY <3>3
    <3> QED BY <3>4 DEF n
  <2> QED BY <2>3, <2>4, <2>5 DEF SetupInv, VerdictInv
<1> QED BY <1>1, SetupInvariant, PTL

=============================================================================
