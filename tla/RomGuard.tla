------------------------------ MODULE RomGuard ------------------------------
(***************************************************************************)
(* LegacyRomGuard.c, RomPlacement.c, the record of RomRecovery.c and the   *)
(* snapshot of LegacyStorageRom.c: whether the selected image may be       *)
(* copied over what is resident at 0xC0000, checked before and again after *)
(* GetBbsInfo, and whether the resident storage ROMs survived the dispatch *)
(* of the image.                                                           *)
(*                                                                         *)
(* The shadow memory is a function on its 512-byte blocks; a block begins  *)
(* with a ROM header or holds anything else.                               *)
(***************************************************************************)
EXTENDS OptionRom

CONSTANTS
  Blocks,      \* NCV_ROM_BLOCK_COUNT
  Ids,         \* PCI vendor and device numbers
  Active,      \* those of the active display
  Storage,     \* those of the storage controllers in the inventory
  NoId,        \* no PCIR of a PCAT image, or no vendor in it
  Plain,       \* a block that does not begin with 0x55AA
  Copied,      \* a block of the selected image, as it is copied
  Shadows,     \* the contents the shadow may have when planning begins
  Intrusions,  \* what the firmware may put into a block meanwhile
  Unreadables, \* the sets of blocks that the memory map may protect
  Handlers,    \* the blocks INT13 may point into; Blocks: somewhere else
  NoSnapshot,
  MaxIntrusions

Block == 0 .. Blocks - 1

\* pcir: the block the PCIR is in, counted from the header.
Header(c) == c \notin {Plain, Copied}

Cell == [size : Nat, pcir : Nat, id : Ids \cup {NoId}] \cup {Plain}

ASSUME GuardAssumption ==
  /\ Blocks \in Nat \ {0} /\ MaxIntrusions \in Nat
  /\ Storage \subseteq Ids /\ Active \in Ids \ Storage
  /\ \A s \in Shadows : s \in [Block -> Cell]
  /\ Intrusions \subseteq Cell
  /\ Unreadables \subseteq SUBSET Block
  /\ Handlers \subseteq 0 .. Blocks

VARIABLES
  shadow,      \* what is resident now
  hidden,      \* blocks that MemoryMapRangeIsReadable refuses
  handler,     \* the block the INT13 vector points into
  snapshot,    \* mState of LegacyStorageRom.c: Snapshot and Valid
  preflight,   \* mPreflightPlan # NULL
  recovery,    \* Recovery of RomRecovery.c
  intruded,    \* blocks that others have changed since GetBbsInfo returned
  intrusions,  \* how often they did, also before
  prior        \* what was resident just before the dispatch

guardVars == <<shadow, hidden, handler, snapshot, preflight, recovery, intruded, intrusions,
               prior>>

vars == <<pc, romVars, guardVars>>

NoRecovery == [pending |-> FALSE, limit |-> 0, valid |-> FALSE, result |-> "InvalidRom"]

Init ==
  /\ RomInit
  /\ shadow = [b \in Block |-> Plain] /\ hidden = {} /\ handler = Blocks
  /\ snapshot = NoSnapshot /\ preflight = FALSE /\ recovery = NoRecovery
  /\ intruded = {} /\ intrusions = 0 /\ prior = shadow

\* SelectedRomSize, in blocks.
CopyBlocks == rom[first].len

-----------------------------------------------------------------------------
(* LegacyRomGuardInspect.                                                  *)

\* Readable is asked about whole blocks.
Readable(b, blocks) == blocks # 0 /\ b + blocks <= Blocks /\ hidden \cap (b .. b + blocks - 1) = {}

Extent(b) ==
  /\ Readable(b, 1) /\ Header(shadow[b])
  /\ shadow[b].size # 0 /\ shadow[b].size <= Blocks - b

Identity(b) ==
  IF shadow[b].pcir < shadow[b].size /\ Readable(b + shadow[b].pcir, 1)
  THEN shadow[b].id ELSE NoId

ActiveBlocks == shadow[0].size

\* Inside the active ROM a header may be part of its code, unless another
\* device's identity corroborates it.  Behind it every header counts.
Embedded(b) == b < ActiveBlocks /\ (~Extent(b) \/ Identity(b) \in {NoId, Active})

\* The headers of the planned copy that stop it.
Overwrites == {b \in 1 .. CopyBlocks - 1 : Header(shadow[b]) /\ ~Embedded(b)}

Lowest(S) == CHOOSE b \in S : \A c \in S : b <= c

\* The reason, and where: the first header decides.
LegacyRomGuardInspect ==
  LET verdict(reason, where) == [reason |-> reason, block |-> where]
  IN IF CopyBlocks > Blocks THEN verdict("UnknownLayout", 0)
     ELSE IF ~Readable(0, CopyBlocks) THEN verdict("Unreadable", 0)
     ELSE IF ~Extent(0) \/ Identity(0) # Active THEN verdict("UnknownLayout", 0)
     ELSE IF Overwrites # {}
     THEN verdict(IF Extent(Lowest(Overwrites)) THEN "Overlap" ELSE "UnknownLayout",
                  Lowest(Overwrites))
     ELSE IF handler < CopyBlocks THEN verdict("DiskHandlerOverlap", handler)
     ELSE verdict("Clear", 0)

-----------------------------------------------------------------------------
(* RomPlacement.c reads the selected image a second time, on its own.      *)

FactsAreValid(img, bytes) ==
  /\ bytes <= MaxCopy /\ img.size512 # 0 /\ img.size512 <= bytes
  /\ img.pcir >= 1 /\ img.pcir + 1 <= Bytes(img.size512)
  /\ img.code = "pcat" /\ img.len = bytes
  /\ img.plen >= 1 /\ img.pcir + img.plen <= Bytes(img.size512)
  /\ img.rev3 => img.plen >= 2
  /\ img.sum /\ img.legacysum
  /\ img.rev3 => /\ img.maxrun <= img.size512
                 /\ img.maxrun # 0 => Bytes(img.maxrun) >= img.pcir + img.plen

NcvRomPlacementAssess(img, valid, limit) ==
  CASE ~valid \/ limit = 0 -> "InvalidRom"
    [] valid /\ limit # 0 /\ ~img.rev3 -> "InPlaceRom"
    [] valid /\ limit # 0 /\ img.rev3 /\ img.maxrun = 0 -> "UnknownRuntime"
    [] valid /\ limit # 0 /\ img.rev3 /\ img.maxrun > img.len -> "InvalidRom"
    [] valid /\ limit # 0 /\ img.rev3 /\ img.maxrun > limit -> "RuntimeOverlap"
    [] OTHER -> "NeedsFirmwareAndBackend"

Smaller(a, b) == IF a < b THEN a ELSE b

\* RomRecoveryRecord; no register has been written yet.
RomRecoveryRecord(where) ==
  LET limit == Smaller(ActiveBlocks, where)
      valid == FactsAreValid(rom[first], CopyBlocks)
  IN [pending |-> TRUE, limit |-> limit, valid |-> valid,
      result |-> NcvRomPlacementAssess(rom[first], valid, limit)]

-----------------------------------------------------------------------------
(* LegacyRomGuardCheck, twice.                                             *)

\* What every check does first, and all that a release does.
LegacyRomGuardReset == preflight' = FALSE /\ snapshot' = NoSnapshot

GuardFails(status) ==
  /\ LegacyRomGuardReset
  /\ recovery' = NoRecovery
  /\ pc' = status

\* The shadow is copied block by block, as far as the memory map lets it, and
\* inspected; if clear, the copy becomes the storage snapshot.  Any allocation,
\* the memory map or the INT13 vector may be unavailable.
LegacyRomGuardCheck(cleared) ==
  /\ \/ GuardFails("Unavailable")
     \/ LET seen == LegacyRomGuardInspect
        IN CASE seen.reason = "Clear" ->
                  /\ preflight' = TRUE /\ recovery' = NoRecovery
                  /\ snapshot' = [live |-> shadow, valid |-> Block \ hidden]
                  /\ pc' = cleared
             [] seen.reason \in {"Overlap", "DiskHandlerOverlap"} ->
                  /\ LegacyRomGuardReset
                  /\ recovery' = RomRecoveryRecord(seen.block)
                  /\ pc' = "Overlap"
             [] OTHER -> GuardFails("Layout")
  /\ UNCHANGED <<romVars, shadow, hidden, handler, intruded, intrusions, prior>>

\* Nothing has looked at the memory before this.
FindMemory ==
  /\ pc = "selected"
  /\ shadow' \in Shadows /\ hidden' \in Unreadables /\ handler' \in Handlers
  /\ pc' = "inspect"
  /\ UNCHANGED <<romVars, snapshot, preflight, recovery, intruded, intrusions, prior>>

FirstCheck == pc = "inspect" /\ LegacyRomGuardCheck("planned")

\* Mutant: what was clear once stays clear.
NoRecheck ==
  /\ pc = "planned"
  /\ pc' = "rechecked"
  /\ UNCHANGED <<romVars, guardVars>>

\* GetBbsInfo has been called and may have shadowed more ROMs.
LegacyRomGuardRecheckAfterBbs ==
  /\ pc = "planned"
  /\ LegacyRomGuardCheck("rechecked")

\* The firmware, or a ROM it runs, writes to the shadow or moves the handler.
Intrude ==
  /\ pc \in {"planned", "rechecked", "verified", "dispatched"}
  /\ intrusions < MaxIntrusions
  /\ intrusions' = intrusions + 1
  /\ \E b \in Block :
       \/ /\ \E c \in Intrusions : shadow' = [shadow EXCEPT ![b] = c]
          /\ UNCHANGED handler
       \/ handler' = b /\ UNCHANGED shadow
  /\ intruded' = IF pc = "planned" THEN {}
                 ELSE intruded \cup {b \in Block : shadow'[b] # shadow[b] \/ handler' \in {b} \ {handler}}
  /\ UNCHANGED <<pc, romVars, hidden, snapshot, preflight, recovery, prior>>

-----------------------------------------------------------------------------
(* LegacyStorageRomVerify, before the dispatch and after it.               *)

\* Rom: the whole ROM was readable, and names a device.
Resident(mem, b) ==
  LET c == mem[b]
  IN /\ b \in snapshot.valid /\ Header(c) /\ c.size # 0
     /\ b + c.size <= Blocks /\ (b .. b + c.size - 1) \subseteq snapshot.valid
     /\ c.pcir < c.size /\ c.id # NoId

ExtentOf(mem, b) == b .. b + mem[b].size - 1

StorageRoms == {b \in Block : Resident(snapshot.live, b) /\ snapshot.live[b].id \in Storage}

\* The loop goes on behind each storage ROM it has compared.
Visited[b \in Block] ==
  b \in StorageRoms /\ \A a \in 0 .. b - 1 : Visited[a] => b \notin ExtentOf(snapshot.live, a)

LegacyStorageRomVerify ==
  \A b \in StorageRoms : Visited[b] => \A x \in ExtentOf(snapshot.live, b) : shadow[x] = snapshot.live[x]

Verify(before, after) ==
  /\ pc = before
  /\ pc' = IF LegacyStorageRomVerify THEN after ELSE "RomChanged"
  /\ UNCHANGED <<romVars, guardVars>>

VerifyOwnedCopies == Verify("rechecked", "verified")

\* The selected image is copied over the active one, and runs.
Dispatch ==
  /\ pc = "verified"
  /\ shadow' = [b \in Block |-> IF b < CopyBlocks THEN Copied ELSE shadow[b]]
  /\ prior' = shadow
  /\ pc' = "dispatched"
  /\ UNCHANGED <<romVars, hidden, handler, snapshot, preflight, recovery, intruded, intrusions>>

VerifyBeforeBoot == Verify("dispatched", "boot")

\* LegacyBootBootTargetRelease, after a refusal before the dispatch.
Release ==
  /\ pc \in {"planned", "rechecked", "verified"}
  /\ LegacyRomGuardReset
  /\ pc' = "released"
  /\ UNCHANGED <<romVars, shadow, hidden, handler, recovery, intruded, intrusions, prior>>

Ended ==
  {"NotFound", "Compromised", "Unavailable", "Layout", "Overlap", "RomChanged", "boot", "released"}

Stop == pc \in Ended /\ UNCHANGED vars

Next ==
  \/ (StartWalk \/ RefuseImage \/ NextImage \/ LastImage \/ BrokenChain \/ SelectRom)
       /\ UNCHANGED guardVars
  \/ FindMemory \/ FirstCheck \/ Intrude \/ LegacyRomGuardRecheckAfterBbs
  \/ VerifyOwnedCopies \/ Dispatch \/ VerifyBeforeBoot \/ Release \/ Stop

Spec == Init /\ [][Next]_vars

-----------------------------------------------------------------------------
(* Properties.                                                             *)

\* A copy that "would overwrite another legacy ROM or disk handler" is refused,
\* also when GetBbsInfo shadowed that ROM or moved the handler after the first
\* check: unless something wrote to the shadow after GetBbsInfo returned, the
\* dispatch leaves every ROM of another device as it was and INT13 does not
\* point into the new image.  The check of the storage ROMs after the dispatch
\* never stops the boot because of the program's own copy.
CopySparesOthers ==
  /\ pc \in {"dispatched", "boot"} /\ intruded = {} =>
       /\ handler >= CopyBlocks
       /\ \A b \in Block : Resident(prior, b) /\ prior[b].id # Active =>
            \A x \in ExtentOf(prior, b) : shadow[x] = prior[x]
  /\ pc = "RomChanged" => intruded # {}

\* The recovery menu describes a conflict that exists, and the placement
\* code's own reading of an image the parser accepted finds it valid.
PlacementKnown ==
  recovery.pending =>
    /\ pc = "Overlap" /\ recovery.valid
    /\ recovery.limit # 0 => recovery.result # "InvalidRom"

=============================================================================
