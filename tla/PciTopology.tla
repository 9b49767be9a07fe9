---------------------------- MODULE PciTopology ----------------------------
(***************************************************************************)
(* PciEnumerate.c: the snapshot of the PCI devices the firmware exposes,   *)
(* and the chain of bridges from the root bridge down to a display that    *)
(* the program derives from it.                                            *)
(*                                                                         *)
(* A machine is the sequence of its PCI devices in handle order, each with *)
(* its real parent (0 under the root bridge) and with whatever its bus     *)
(* registers say.  Device paths are what the firmware's standard makes     *)
(* them: the path of the parent with one more node, and no two handles     *)
(* have the same.  Any read of a device may fail.                          *)
(***************************************************************************)
EXTENDS Integers, Sequences, FiniteSets, SequencesExt

CONSTANTS
  Machines,     \* the machines under test
  MaxFaults,    \* how many reads fail while an inventory is built
  MaxBridges    \* NATIVE_CSM_VGA_BOOT_MAX_BRIDGES

Class == {"display", "bridge", "storage", "usb", "other"}

\* path: the device path without its end node, that is the root bridge and a node
\* per device; seg, bus, slot: the location; pri, sec, sub: the bus registers of a bridge;
\* root, rootSeg: its root bridge and that one's SegmentNumber; vga: it owns
\* legacy VGA cycles; rom: its option ROM holds no legacy image for it, exactly
\* one that can be copied, or an image too large or more than one (OptionRom);
\* id: vendor, device and subsystem.
Device ==
  [class : Class, parent : Nat, path : Seq(Nat), seg : Nat, bus : Nat, slot : Nat,
   pri : Nat, sec : Nat, sub : Nat, root : Nat, rootSeg : Nat,
   vga : BOOLEAN, rom : {"none", "one", "many"}, id : Nat]

ASSUME MachineAssumption ==
  /\ Machines \subseteq Seq(Device) /\ MaxFaults \in Nat /\ MaxBridges \in Nat
  /\ \A m \in Machines : \A h \in 1 .. Len(m) :
       /\ m[h].parent \in 0 .. Len(m)
       /\ m[h].path = IF m[h].parent = 0 THEN <<m[h].root, m[h].slot>>
                      ELSE Append(m[m[h].parent].path, m[h].slot)
       /\ \A g \in 1 .. Len(m) \ {h} :
            /\ m[g].path # m[h].path
            /\ <<m[g].seg, m[g].bus, m[g].slot>> # <<m[h].seg, m[h].bus, m[h].slot>>

VARIABLES
  machine,
  pc,
  next,       \* HandleIndex
  inventory,  \* Inventory->Devices: the device, and the parts that could be read
  faults      \* how many reads have failed

\* What PciInventoryBuild reads of a device; what it could not read keeps an
\* error status.  Any of the calls that lead to the root bridge counts as
\* "root", and so does the memory for a path.
Parts  == {"loc", "cfg", "attrs", "path", "root"}
Record == [h : Nat, got : SUBSET Parts]

Address(h) == <<machine[h].seg, machine[h].bus, machine[h].slot>>

-----------------------------------------------------------------------------
(* The inventory.                                                          *)

RecordLocationIsValid(r) == "loc" \in r.got
RecordIsDisplay(r)       == "cfg" \in r.got /\ machine[r.h].class = "display"
RecordIsP2pBridge(r)     == "cfg" \in r.got /\ machine[r.h].class = "bridge"

\* The record of device h when the parts in lost could not be read.  Only a
\* display is associated with its root bridge, through its device path, and
\* only with one of its own segment (0 when the location is unknown).
Captured(h, lost) ==
  LET got  == Parts \ lost
      seg  == IF "loc" \in got THEN machine[h].seg ELSE 0
      seek == /\ RecordIsDisplay([h |-> h, got |-> got]) /\ "path" \in got
              /\ machine[h].rootSeg = seg
  IN [h |-> h, got |-> IF seek THEN got ELSE got \ {"root"}]

LocateHandles ==
  /\ pc = "locate"
  /\ pc' \in {"read", "failed"}
  /\ next' = 1 /\ inventory' = << >>
  /\ UNCHANGED <<machine, faults>>

\* A handle that does not give its protocol is left out.
ReadHandle ==
  /\ pc = "read" /\ next <= Len(machine)
  /\ next' = next + 1
  /\ \/ inventory' = Append(inventory, Captured(next, {})) /\ UNCHANGED faults
     \/ /\ faults < MaxFaults /\ faults' = faults + 1
        /\ \/ \E part \in Parts : inventory' = Append(inventory, Captured(next, {part}))
           \/ UNCHANGED inventory
  /\ UNCHANGED <<machine, pc>>

\* An error at the end, too, releases the whole inventory.
FreeHandles ==
  /\ pc = "read" /\ next > Len(machine)
  /\ \/ pc' = "built" /\ UNCHANGED inventory
     \/ pc' = "failed" /\ inventory' = << >>
  /\ UNCHANGED <<machine, next, faults>>

PciInventoryBuild == LocateHandles \/ ReadHandle \/ FreeHandles

-----------------------------------------------------------------------------
(* The bridges above the display at index i of the inventory.              *)

Of(i) == machine[inventory[i].h]

IsStrictDevicePathPrefix(i, j) ==
  /\ "path" \in inventory[i].got /\ "path" \in inventory[j].got
  /\ IsStrictPrefix(Of(i).path, Of(j).path)

Ancestors(i) ==
  {j \in DOMAIN inventory :
     /\ RecordLocationIsValid(inventory[j]) /\ RecordIsP2pBridge(inventory[j])
     /\ Of(j).seg = Of(i).seg
     /\ IsStrictDevicePathPrefix(j, i)}

Shorter(j, k) ==
  Len(Of(j).path) < Len(Of(k).path) \/ (Len(Of(j).path) = Len(Of(k).path) /\ j < k)

Ahead(S, j) == {l \in S : Shorter(l, j)}

\* Shorter paths first, and bridges with equal paths in the order of the inventory.
SortPathByDevicePathSize(S) ==
  [k \in 1 .. Cardinality(S) |-> CHOOSE j \in S : Cardinality(Ahead(S, j)) = k - 1]

\* Mutant: nobody counts the nodes of the device path.
AnyAncestryPath(i) ==
  {p \in {SortPathByDevicePathSize(Ancestors(i))} : "path" \in inventory[i].got}

\* The one path, or none: every PCI node but the last must have its bridge.
BuildDevicePathBridgePath(i) ==
  {p \in {SortPathByDevicePathSize(Ancestors(i))} :
     /\ "path" \in inventory[i].got
     /\ Len(p) + 1 = Len(Of(i).path) - 1}

\* The bus registers tell the same story.
CrossCheckBridgePath(i, p) ==
  \A k \in DOMAIN p :
    LET bridge == Of(p[k])
        child  == IF k < Len(p) THEN Of(p[k + 1]).bus ELSE Of(i).bus
    IN bridge.pri = bridge.bus /\ bridge.sec = child /\ child <= bridge.sub

PathCanBeAsked(i) ==
  /\ RecordLocationIsValid(inventory[i]) /\ RecordIsDisplay(inventory[i])
  /\ "root" \in inventory[i].got

\* PathValidated; PathDiscovered is the same without the cross-check.
PciProbeDevicePathBridgePathStatus(i) ==
  PathCanBeAsked(i) /\ \E p \in BuildDevicePathBridgePath(i) : CrossCheckBridgePath(i, p)

\* The bridges the boot will route: at most one path.
PciBuildValidatedDevicePathBridgePath(i) ==
  {p \in BuildDevicePathBridgePath(i) :
     PathCanBeAsked(i) /\ CrossCheckBridgePath(i, p) /\ Len(p) <= MaxBridges}

-----------------------------------------------------------------------------
(* Properties.                                                             *)

\* The devices of q are the ones above device h, root bridge first.
Upstream(q, h) ==
  \A k \in 1 .. Len(q) + 1 :
    machine[IF k <= Len(q) THEN q[k] ELSE h].parent = IF k = 1 THEN 0 ELSE q[k - 1]

\* A path the program will route is exactly the chain of bridges above the
\* display, root bridge first, whatever reads of bridges failed and in whatever
\* order the firmware lists its handles.
OperatingPathExact ==
  pc = "built" =>
    \A i \in DOMAIN inventory : \A p \in PciBuildValidatedDevicePathBridgePath(i) :
      Upstream([k \in DOMAIN p |-> inventory[p[k]].h], inventory[i].h)

=============================================================================
