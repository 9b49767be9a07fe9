---------------------------- MODULE TargetSetup ----------------------------
(***************************************************************************)
(* From the machine to a saved pair of targets, and from the saved pair    *)
(* back to the machine: discovery and ranking (NativeCsmVgaProbe.c,        *)
(* CandidateIni.c, Bbs.c), the selection screen (TargetSelection.c), and   *)
(* the search for both targets at the start of a boot (RuntimePlan.c,      *)
(* LegacyBootTarget.c).  Setup and boot each take their own inventory, and *)
(* reads may fail differently in each.                                     *)
(***************************************************************************)
EXTENDS PciTopology

CONSTANTS
  Tables,       \* the boot tables under test
  Retained,     \* settings that setup may be asked to edit
  NoSettings,   \* a first run has none
  MaxDisplays,  \* NCV_MAX_DISPLAY_CANDIDATES
  MaxDisks      \* NCV_MAX_STORAGE_CANDIDATES

\* A row of the boot table: hard disk or not, the address of its controller, its
\* description, whole (readable and representable), ok (attemptable).
BbsRow ==
  [hdd : BOOLEAN, bus : Nat, slot : Nat, usb : BOOLEAN, text : STRING \X STRING,
   whole : BOOLEAN, ok : BOOLEAN]

ASSUME SetupAssumption ==
  Tables \subseteq Seq(BbsRow) /\ MaxDisplays \in Nat /\ MaxDisks \in Nat

VARIABLES
  stage,      \* "setup" or "boot"
  table,      \* BbsTable
  retained,   \* the settings being edited: gpu, ctrl, text, expects, marker
  gpus,       \* Video.Displays: index, is its VGA ownership known, what is known of its GOP
  disks,      \* Bbs.Storage: indices of table
  gpu, disk,  \* SelectedDisplay, SelectedStorage; 0 is NCV_NO_SELECTION
  review, confirmed,
  acked,      \* history: the pairs acknowledged since they were last left
  saved,      \* the targets in Config.ini
  verdict     \* how the search at boot ended

setupVars == <<table, retained, gpus, disks, gpu, disk, review, confirmed, acked, saved>>
vars == <<machine, pc, next, inventory, faults, stage, verdict, setupVars>>

\* A text is a word and its spelling; upper and lower case are spellings.
Fold(text) == text[1]

Init ==
  /\ machine \in Machines /\ table \in Tables /\ retained \in Retained \cup {NoSettings}
  /\ pc = "locate" /\ next = 1 /\ inventory = << >> /\ faults = 0
  /\ stage = "setup" /\ verdict = "none"
  /\ gpus = << >> /\ disks = << >> /\ gpu = 0 /\ disk = 0
  /\ review = FALSE /\ confirmed = FALSE /\ acked = {} /\ saved = NoSettings

BuildInventory == PciInventoryBuild /\ UNCHANGED <<stage, verdict, setupVars>>

-----------------------------------------------------------------------------
(* Discovery and ranking.                                                  *)

Displays == {i \in DOMAIN inventory : RecordIsDisplay(inventory[i])}
OwnerKnown(i) == "attrs" \in inventory[i].got

DisplayEligible(g) ==
  /\ RecordLocationIsValid(inventory[g.i]) /\ ~(g.known /\ Of(g.i).vga)
  /\ Of(g.i).rom # "none" /\ PciProbeDevicePathBridgePathStatus(g.i)

ActiveVgaRank(g) == IF g.known /\ ~Of(g.i).vga THEN 0 ELSE 1
GopRank(g)       == IF g.gopKnown /\ ~g.gop THEN 0 ELSE 1

LexLess(a, b) ==
  \E n \in DOMAIN a : a[n] < b[n] /\ \A k \in 1 .. n - 1 : a[k] = b[k]

\* The first candidate whose key is least, of those that have a key; 0 when none has.
FirstLeast(key) ==
  LET L == {k \in DOMAIN key : \A o \in DOMAIN key : ~LexLess(key[o], key[k])}
  IN IF L = {} THEN 0 ELSE CHOOSE k \in L : \A o \in L : k <= o

EligibleDisplays == {k \in DOMAIN gpus : DisplayEligible(gpus[k])}

NcvRankDisplays ==
  FirstLeast([k \in EligibleDisplays |->
                <<ActiveVgaRank(gpus[k]), GopRank(gpus[k])>> \o Address(inventory[gpus[k].i].h)])

AddressValid(row) == row.bus <= 255

\* Mutant: two spellings of a name count as two names.
AmbiguousSpelling(d) ==
  \E e \in Range(disks) \ {d} :
    /\ AddressValid(table[e]) /\ AddressValid(table[d])
    /\ <<table[e].bus, table[e].slot>> = <<table[d].bus, table[d].slot>>
    /\ table[e].text = table[d].text

IdentityAmbiguous(d) ==
  \E e \in Range(disks) \ {d} :
    /\ AddressValid(table[e]) /\ AddressValid(table[d])
    /\ <<table[e].bus, table[e].slot>> = <<table[d].bus, table[d].slot>>
    /\ Fold(table[e].text) = Fold(table[d].text)

StorageEligible(d) ==
  AddressValid(table[d]) /\ table[d].whole /\ ~IdentityAmbiguous(d)

EligibleDisks == {k \in DOMAIN disks : StorageEligible(disks[k])}

NcvRankStorage ==
  FirstLeast([k \in EligibleDisks |-> <<IF table[disks[k]].usb THEN 1 ELSE 0, disks[k]>>])

\* The numbers of a set in their order, of which an array of limited size takes
\* the first.
Below(S, i) == {j \in S : j < i}
InOrder(S) ==
  [k \in 1 .. Cardinality(S) |-> CHOOSE i \in S : Cardinality(Below(S, i)) = k - 1]
FirstOf(seq, limit) == SubSeq(seq, 1, IF Len(seq) < limit THEN Len(seq) ELSE limit)

\* The displays that become candidates, in the order of the inventory.
ReportRomCandidates == FirstOf(InOrder(Displays), MaxDisplays)

\* Some displays are associated with a GOP; after a complete scan the others
\* are known to have none.
ReportGopOwnership(kept) ==
  {[k \in DOMAIN kept |->
      [i |-> kept[k], known |-> OwnerKnown(kept[k]), gop |-> kept[k] \in gop,
       gopKnown |-> complete \/ kept[k] \in gop]] :
     gop \in SUBSET {i \in Range(kept) : RecordLocationIsValid(inventory[i])},
     complete \in BOOLEAN}

CollectDisplays ==
  /\ stage = "setup" /\ pc = "built" /\ pc' = "displays"
  /\ gpus' \in ReportGopOwnership(ReportRomCandidates)
  /\ UNCHANGED <<machine, next, inventory, faults, stage, verdict, table, retained,
                 disks, gpu, disk, review, confirmed, acked, saved>>

HardDisks == InOrder({k \in DOMAIN table : table[k].hdd})

\* BbsProbeAndPrintEx: every hard-disk row, or none when a check of the tables
\* fails.
CollectDisks ==
  /\ stage = "setup" /\ pc = "displays" /\ pc' = "ranking"
  /\ disks' \in {FirstOf(HardDisks, MaxDisks), << >>}
  /\ UNCHANGED <<machine, next, inventory, faults, stage, verdict, table, retained,
                 gpus, gpu, disk, review, confirmed, acked, saved>>

Overflow ==
  \/ Cardinality(Displays) > MaxDisplays
  \/ disks # << >> /\ Len(HardDisks) > MaxDisks

\* When settings are edited their targets are found again among the eligible
\* candidates: the last that matches, the description compared to the letter.
SavedDisplay ==
  LET M == {k \in EligibleDisplays : Address(inventory[gpus[k].i].h) = retained.gpu}
  IN IF M = {} THEN NcvRankDisplays ELSE CHOOSE k \in M : \A o \in M : o <= k

DiskController(d) == <<0, table[d].bus, table[d].slot>>

SavedStorage ==
  LET M == {k \in EligibleDisks : /\ DiskController(disks[k]) = retained.ctrl
                                  /\ table[disks[k]].text = retained.text}
  IN IF M = {} THEN NcvRankStorage ELSE CHOOSE k \in M : \A o \in M : o <= k

\* Without both targets there is no screen: an incomplete report, or nothing.
ChooseDefaults ==
  /\ stage = "setup" /\ pc = "ranking"
  /\ gpu'  = (IF retained = NoSettings THEN NcvRankDisplays ELSE SavedDisplay)
  /\ disk' = (IF retained = NoSettings THEN NcvRankStorage ELSE SavedStorage)
  /\ pc' = (IF Overflow THEN "refused" ELSE IF gpu' # 0 /\ disk' # 0 THEN "screen" ELSE "incomplete")
  /\ UNCHANGED <<machine, next, inventory, faults, stage, verdict, table, retained,
                 gpus, disks, review, confirmed, acked, saved>>

-----------------------------------------------------------------------------
(* The selection screen.                                                   *)

OnScreen == stage = "setup" /\ pc = "screen"

\* The next eligible of n candidates in a direction, round the ends.
NextOf(n, eligible, current, step) ==
  LET at(k) == ((current - 1 + step * k) % n) + 1
      E == {k \in 1 .. n : at(k) \in eligible}
  IN IF E = {} THEN 0 ELSE at(CHOOSE k \in E : \A o \in E : k <= o)

screenRest == <<machine, next, inventory, faults, stage, verdict, table, retained, gpus, disks, saved>>

ChangeTarget ==
  /\ OnScreen /\ ~review
  /\ \E step \in {-1, 1} :
       \/ gpu' = NextOf(Len(gpus), EligibleDisplays, gpu, step) /\ UNCHANGED disk
       \/ disk' = NextOf(Len(disks), EligibleDisks, disk, step) /\ UNCHANGED gpu
  /\ UNCHANGED <<pc, review, confirmed, acked, screenRest>>

\* ShowRetainedSettings.
Conflict(g, d) ==
  /\ retained # NoSettings
  /\ \/ retained.expects # 0 /\ Of(gpus[g].i).id # retained.expects
     \/ /\ retained.marker
        /\ \/ DiskController(disks[d]) # retained.ctrl
           \/ table[disks[d]].text # retained.text

Ready ==
  /\ gpu \in DOMAIN gpus /\ disk \in DOMAIN disks
  /\ DisplayEligible(gpus[gpu]) /\ StorageEligible(disks[disk])

ReviewTargets ==
  /\ OnScreen /\ ~review /\ Ready /\ review' = TRUE
  /\ UNCHANGED <<pc, gpu, disk, confirmed, acked, screenRest>>

Acknowledge ==
  /\ OnScreen /\ review
  /\ confirmed' = TRUE /\ acked' = acked \cup {<<gpu, disk>>}
  /\ UNCHANGED <<pc, gpu, disk, review, screenRest>>

\* Mutant: the acknowledgement survives the return to the choices.
BackKeepsConsent ==
  /\ OnScreen /\ review /\ review' = FALSE
  /\ acked' = {} /\ UNCHANGED <<confirmed, pc, gpu, disk, screenRest>>

BackToChoices ==
  /\ OnScreen /\ review /\ review' = FALSE /\ confirmed' = FALSE
  /\ acked' = {} /\ UNCHANGED <<pc, gpu, disk, screenRest>>

\* Esc among the choices, or a console that fails.
LeaveScreen ==
  /\ OnScreen /\ pc' = "cancelled"
  /\ UNCHANGED <<gpu, disk, review, confirmed, acked, screenRest>>

\* Enter under review, then the save.  A first save binds no identity.
SaveTargets ==
  /\ OnScreen /\ review /\ Ready /\ (Conflict(gpu, disk) => confirmed)
  /\ \/ /\ pc' = "saved"
        /\ saved' = [gpu     |-> Address(inventory[gpus[gpu].i].h),
                     ctrl    |-> DiskController(disks[disk]),
                     text    |-> table[disks[disk]].text,
                     expects |-> IF retained = NoSettings THEN 0 ELSE retained.expects]
     \/ pc' = "notSaved" /\ UNCHANGED saved
  /\ UNCHANGED <<machine, next, inventory, faults, stage, verdict, table, retained,
                 gpus, disks, gpu, disk, review, confirmed, acked>>

-----------------------------------------------------------------------------
(* The boot: a fresh inventory of the same machine, and both targets again.*)

StartBoot ==
  /\ stage = "setup" /\ pc = "saved"
  /\ stage' = "boot" /\ pc' = "locate" /\ faults' = 0
  /\ UNCHANGED <<machine, next, inventory, verdict, setupVars>>

TargetMatches ==
  {i \in Displays : RecordLocationIsValid(inventory[i]) /\ Address(inventory[i].h) = saved.gpu}
ActiveOwners == {i \in Displays : OwnerKnown(i) /\ Of(i).vga}

FindVideoEndpoints ==
  LET t == CHOOSE i \in TargetMatches : TRUE
      a == CHOOSE i \in ActiveOwners : TRUE
  IN IF Cardinality(TargetMatches) # 1 THEN "noTarget"
     ELSE IF Cardinality(ActiveOwners) # 1 THEN "noActive"
     ELSE IF t = a THEN "alreadyActive"
     ELSE IF ~RecordLocationIsValid(inventory[a]) THEN "noEndpoint"
     ELSE IF Of(t).seg # 0 THEN "segment"
     ELSE IF saved.expects # 0 /\ Of(t).id # saved.expects THEN "identity"
     ELSE IF ~("root" \in inventory[t].got /\ "root" \in inventory[a].got
               /\ Of(t).root = Of(a).root) THEN "otherRoot"
     ELSE IF PciBuildValidatedDevicePathBridgePath(a) = {} THEN "activePath"
     ELSE IF PciBuildValidatedDevicePathBridgePath(t) = {} THEN "targetPath"
     ELSE IF Of(t).rom = "none" THEN "noRom"
     ELSE IF Of(t).rom = "many" THEN "romUnsuited"
     ELSE "found"

BootControllers ==
  {i \in DOMAIN inventory : /\ "cfg" \in inventory[i].got /\ RecordLocationIsValid(inventory[i])
                            /\ Of(i).class \in {"storage", "usb"}}

\* The boot table has no segments: the controller must be the only one at its
\* bus, device and function, and in the saved segment.
FindStorageController ==
  LET M == {i \in BootControllers : Tail(Address(inventory[i].h)) = Tail(saved.ctrl)}
  IN Cardinality(M) = 1 /\ \A i \in M : Address(inventory[i].h) = saved.ctrl

IdentityMatches ==
  {k \in DOMAIN table :
     /\ table[k].hdd /\ <<table[k].bus, table[k].slot>> = Tail(saved.ctrl)
     /\ Fold(table[k].text) = Fold(saved.text)}

LegacyBootLogAndCorrelateLiveBbs ==
  IF Cardinality(IdentityMatches) > 1 THEN "ambiguousDisk"
  ELSE IF IdentityMatches = {} THEN "noDisk"
  ELSE IF \E k \in IdentityMatches : ~table[k].ok THEN "diskIneligible"
  ELSE "ready"

FindTargets ==
  /\ stage = "boot" /\ pc = "built" /\ pc' = "decided"
  /\ verdict' = (IF FindVideoEndpoints # "found" THEN FindVideoEndpoints
                 ELSE IF ~FindStorageController THEN "noController"
                 ELSE LegacyBootLogAndCorrelateLiveBbs)
  /\ UNCHANGED <<machine, next, inventory, faults, stage, setupVars>>

Finished ==
  /\ \/ pc \in {"failed", "refused", "incomplete", "cancelled", "notSaved"}
     \/ pc = "decided"
  /\ UNCHANGED vars

Next ==
  \/ BuildInventory \/ CollectDisplays \/ CollectDisks \/ ChooseDefaults
  \/ ChangeTarget \/ ReviewTargets \/ Acknowledge \/ BackToChoices \/ LeaveScreen
  \/ SaveTargets \/ StartBoot \/ FindTargets \/ Finished

Spec == Init /\ [][Next]_vars

-----------------------------------------------------------------------------
(* Properties.                                                             *)

\* Settings that conflict with what setup retained (an expected identity, a
\* menu marker on another disk) are saved only after the user acknowledged
\* that very pair of targets, and had not gone back to the choices since.
ConflictAcknowledged ==
  pc \in {"saved", "notSaved"} /\ stage = "setup" /\ Conflict(gpu, disk) => <<gpu, disk>> \in acked

\* What setup saved, a boot of the same machine whose reads all succeed finds
\* again: one display, with a path it can route and a ROM, and one row of the
\* boot table.  What is left to refuse is what the screen announced (an
\* acknowledged identity conflict, a row the firmware does not let be
\* attempted) or what setup does not promise: other segments and roots, a path
\* longer than the plan can hold, a ROM with a second matching image or too large
\* a one, and the owner of VGA when setup could not read who that is.
SavedTargetResolves ==
  pc = "decided" /\ faults = 0 =>
    /\ verdict \notin {"noTarget", "noRom", "noDisk", "ambiguousDisk"}
    /\ verdict = "identity" => acked # {}
    /\ verdict = "alreadyActive" => ~gpus[gpu].known
    /\ verdict = "targetPath" =>
         \E t \in TargetMatches : \E p \in BuildDevicePathBridgePath(t) : Len(p) > MaxBridges

=============================================================================
