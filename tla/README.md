# NativeCsmVgaSelector: TLA+ models and proofs

NativeCsmVgaSelector is a UEFI application that selects which VGA controller owns
the legacy VGA addresses and then starts a legacy operating system through the
firmware's compatibility support module.  It runs once per start, on one
processor, with nothing beneath it but the firmware.  What makes it hard is not
threads.  It is that every firmware call may fail (also after it took effect),
that the machine may be switched off between any two writes of the settings, that
the hardware changes it makes can be undone only while certain steps have not
been taken, and that one start may go round its dispatcher loop several times
with whatever the last round left in static variables.

Source paths below are relative to `src/NativeCsmVgaSelectorPkg/Application/`.

## 1. Inventory

| component | state | operations | interacts with |
|---|---|---|---|
| Settings files, `ConfigFile.c` | the files beside the executable | `CreateVerifiedRollbackCopy`, `RestoreAdjacentRollback`, `WriteAdjacentViaTemp`, `DeleteAdjacentIfPresent` | called by `ProbeConfig.c` and `ConfigRecovery.c`; calls the firmware's file protocol |
| Settings recovery, `ConfigRecovery.c` | none of its own | `ConfigLoadRecoverable` (R prompt), `ConfigOfferFreshSetup` (F2, Y), `PreserveFailedConfigs` | the dispatcher, `ConfigFile.c` |
| Configuration, `ProbeConfig.c` | the static `Editing` | `ProbeConfigLoad`, `ProbeConfigWriteCandidateIni`, `SaveEditedTargets`, begin/end edit | dispatcher, setup, marker |
| Dispatcher, `NativeCsmVgaSelector.c` | the configuration in memory | `UefiMain`, `RunSetupAndReload` | everything |
| Countdowns, `BootCountdown.c` | `Prepared`, `ContinueSelected`, `CleanReturn`, the user's action | setup window, countdown, finish, take edit, take cancel | dispatcher, boot attempt, error screen |
| Boot attempt, `NativeCsmVgaBoot.c` | the plan's journals, `RouteDirty`, `WriteAttempted` | `RouteApply`, `RouteRestore`, ROM copy and dispatch, the boot table transaction, `LegacyBoot` | plan, log, dispatch page, BBS transaction |
| Runtime plan, `RuntimePlan.c` | PCI journals, ROM, bridge paths | build, classify, release | boot attempt, ROM guard |
| Dispatch page, `LegacyDispatch.c` | one low page | reserve, dispatch, release | boot attempt |
| ROM guard and placement, `LegacyRomGuard.c`, `RomPlacement.c`, `LegacyStorageRom.c` | `mPreflightPlan`, borrowed from the attempt's frame | capture, check, assess | plan, recovery menu |
| Recovery menu, `RomRecovery.c` | the pending record | offer, assess | dispatcher |
| Menu marker, `Marker.c` | `Original`, `Attempted` | configure, apply, restore | dispatcher, boot attempt |
| BBS transaction, `LegacyBootTarget.c`, `LegacyBootOrder.inc`, `LegacyBootPolicy.inc` | journal of the firmware's boot table | discover, prepare, journal, apply, validate, roll back, release | boot attempt |
| Setup, `NativeCsmVgaProbe.c`, `TargetSelection.c`, `Bbs.c` | inventory, candidates, selection | discover, rank, choose, review, acknowledge, save | dispatcher, PCI, settings |
| Text of the settings, `CandidateIni.c`, `ConfigEdit.c` | none | strict parse, format, replace the targets, verify | setup, `ProbeConfig.c` |
| PCI, `PciEnumerate.c` | a snapshot of the devices | build, bridge path, cross-check | plan, setup |
| Option ROM parser, `OptionRom.c` | none | walk the chain of images, select one | plan, setup |
| Log, `Log.c` | file, consoles, first errors, the durable mode | print, flush, barrier, commit and reopen, commit and close | nearly all |
| Memory map, `MemoryMap.c` | a snapshot in a pool buffer | capture, range check, release | boot attempt, ROM guard, BBS code |
| Boot-option and compatibility reports | local | read-only walks | setup |
| Names, status text, build guards, installers | none | text | none |

`PROJECT.json` lists every component with its status, and the hazards, each at
its line.  The ones that decide what correctness means here:

* **Power loss and failed writes in the settings.**  Between the deletion of the
  old `Config.ini` and the rename of its replacement there is no `Config.ini`.
  A rename that took effect but reported a failed flush makes the cleanup delete
  the new file through the handle it still has.  A write may report success and
  leave a shorter file, which may even still parse.
* **Register writes without certainty.**  A write that reports an error may have
  taken effect; a rollback may stop at any bridge.  No combination may leave two
  displays claiming the same legacy addresses, and a completed rollback must be
  exact.
* **The point of no return.**  Before the first register write an attempt must
  return to the dispatcher; after it, it must not, even after a complete rollback.
* **Writes into firmware memory.**  The boot priorities are changed row by row in a
  table the firmware owns and may change between any two steps; a failure half-way
  must undo exactly the program's own writes, through a failing log if need be.
* **The log as a precondition.**  Steps that cannot be taken back require that every
  record before them is in the file, although most callers look at no status.
* **Two readings of one thing.**  The strict parser and the target editor each have their
  own idea of lines, keys and quotes; the ROM parser, the guard and the placement code
  each read the same image; setup and boot each take an inventory of the machine, and
  reads may fail in one and not in the other.  What one side accepts the other must not
  misread.
* **Checks that grow stale.**  The firmware may shadow another ROM or move the INT13
  handler after the guard has looked.
* **The dispatcher's second round.**  Setup after an attempt, or another attempt
  after setup, must find no handle, page, borrowed pointer, marker or stale
  recovery record of the first.
* **Termination.**  An unattended boot waits for no key; a user who answers the
  prompts is never locked out of the settings.

## 2. Modules

| module | what it is | models |
|---|---|---|
| `ConfigStore` | the settings files and every operation on them | `ConfigFile.c`, `ConfigRecovery.c`, the file part of `ProbeConfig.c` |
| `ConfigProofs` | the inductive invariants and theorems of `ConfigStore` and of `ConfigText` | |
| `HandoffContract` | abstract: what an attempt may do to the hardware and how it may end | the shape of `NativeCsmVgaBootRun` |
| `BootHandoff` | from the two bridge paths to `LegacyBoot` | `RouteApply`, `RouteRestore`, `BuildAndClassifyPaths`, the ROM and BBS steps |
| `BootSession` | one start of the application | `UefiMain`, `BootCountdown.c`, `Marker.c`, `RomRecovery.c`, the frame of `NativeCsmVgaBootRun` |
| `BbsPolicy` | the boot table, which rows may be reordered, what `LegacyDevOrder` must say, and the ranking the plan is meant to be | `LegacyBootPolicy.inc`, the validation in `LegacyBootOrder.inc` |
| `BbsPlan` | the capture of the order and the ranking loop | `LegacyBootCaptureLegacyDevOrder`, `LegacyBootBuildPriorityPlan` |
| `BbsTransaction` | the reversible change of the boot table | the public operations of `LegacyBootTarget.c` |
| `BootLog` | the log and the steps of its users that depend on it | `Log.c`, `BootReport.c`, the log in `NativeCsmVgaBootRun`, setup, `BbsProbeAndPrintEx`, `ReportAssessment` |
| `ReorderContract` | abstract: what a reordering of the boot table promises | the shape of the transaction in `LegacyBootTarget.c` |
| `BootSessionProofs` | the session's inductive invariant and theorems | |
| `BootLogProofs` | what each operation of the log preserves, its inductive invariant and theorems | |
| `BbsPlanProofs` | the ranking loop's inductive invariant and theorems | |
| `BbsTransactionProofs` | the transaction's inductive invariant, its theorems and the refinement of `ReorderContract` | |
| `MemoryMap` | the snapshot of the memory map and the walk over it | `MemoryMap.c` |
| `PciTopology` | the inventory of PCI devices and the bridge path derived from it | `PciEnumerate.c` |
| `TargetSetup` | from the machine to a saved pair of targets, and back | `NativeCsmVgaProbe.c`, the ranking in `CandidateIni.c`, `Bbs.c`, `TargetSelection.c`, `FindVideoEndpoints` and `FindStorageController` in `RuntimePlan.c`, the correlation in `LegacyBootTarget.c` |
| `ConfigText` | the text of `Config.ini`: parser, editor, formatter, verification | `CandidateIni.c`, `ConfigEdit.c`, `ProbeConfig.c` |
| `OptionRom` | the walk over an option ROM and the choice of one image | `OptionRom.c`, `SelectRom` |
| `RomGuard` | whether that image may be copied, before and after `GetBbsInfo`, and the check of the storage ROMs | `LegacyRomGuard.c`, `RomPlacement.c`, `LegacyStorageRom.c`, the record of `RomRecovery.c` |
| `BootHandoffProofs` | the handoff's inductive invariant, its theorems and the refinement of the contract | |
| `RomGuardProofs` | the inductive invariants of the ROM walk, of the guard and of the memory map, and their theorems | |
| `TargetSetupProofs` | the inductive invariant of setup and boot, and the theorems about paths, consent and saved targets | |
| `MC...` | symmetry sets and sets of inputs; the bounds are in the `.cfg` files | |

`BootHandoff` implements `HandoffContract` (`HonoursContract` is a property of its
run).  `BootSession` uses the contract instead of the detailed handoff: its
`HandoffStep` is a step of `HandoffContract!Next`.  So what `BootSession` shows of a
session holds for the detailed handoff as well.  `BbsTransaction` uses the ranking
`Plan` of `BbsPolicy` where the code calls the loop; `BbsPlan` shows that the loop
computes it (`PlanIsRanking`).  `BootHandoff!BbsTransaction` has the outcomes of
`BbsTransaction`: complete, or halted.  `TargetSetup` extends `PciTopology` and takes two
inventories with it, one for setup and one for the boot; the paths it ends with are the
ones `BootHandoff` starts from.  `RomGuard` extends `OptionRom`: the image it guards is the one
the walk selected.  The settings that `ConfigText` publishes are the contents that
`ConfigStore` moves between files.

### ConfigStore

`disk` maps every file name to its bytes.  Bytes are a record: `ver`, the settings
they were generated from; `cut`, how often they were shortened by a bad write (0:
exactly what was generated); `mode`, what `ConfigReadUsable` makes of them (boot
settings, a valid `Probe=true` file, or neither).  `pc` names the next step;
`op` names the operation the shared file routines are running for, and so their
operands and continuations (`Target`, `Temp`, `Rollback`, `CopyDone`, ...).

One action is one call that can change the disk, with the reads around it.  The
three ways a call goes wrong are in `Deleting` and `Writing`: a failure without
effect, a failure with effect, a success whose bytes are short.  `PowerCut` may
happen at every label.  Each of these uses up one of `MaxFaults`.

Left out: how the text is generated and parsed (reduced to `mode`), file names and
their validation, console texts, buffer sizes.

### BootHandoff

`active` and `target` are the bridge paths of the two displays, root first;
`orig` and `reg` the VGA-forwarding bits as journaled and as they are; `cmd0` and
`cmd` the command register of the target.  `attempted` is the set of bridges with
`WriteAttempted`, `dirty` is `RouteDirty`.  `Route` is the order in which
`RouteApply` visits bridges: the active display's own bridges are closed first,
then shared ones opened, then the target's own.  A write takes effect or not
(`Written`), independently of what it reports; a verified one did.  The ROM
steps have nondeterministic effects (the shadow may stay locked, the ROM may not
hook INT10, firmware memory may change), which the code's own checks must catch.

Left out: logging and its barriers (`BootLog`; a failure there is one of the outcomes
of the step it belongs to), register contents other than the bits named, the steps inside
the boot table transaction (`BbsTransaction` has its outcomes).

`MayDrift` says on which bridges the display driver may change the forwarding bit
while it is being disconnected.  The configuration allows it for exclusive bridges
only: those are always written and verified.  A shared bridge that already
forwarded when it was journaled is skipped without being read again, so if a driver
cleared its bit the target would be unreachable; the code relies on drivers not
doing that, and so does `BootReady`.

### BbsPolicy and BbsPlan

A row is its priority and everything else (`what`: hard disk or not, whether its
status flags allow booting, forbid it or are all zero, and whether a resident ROM
or a firmware handler vouches for it).  Priorities keep their 16-bit values, the
four reserved ones included.  `LegacyDevOrder` is a sequence of entries (type, row,
switched off), as the parser sees them; a value it cannot parse is `NoOrder`.  `Fits`
is the strict validation, `Eligible` the policy, `Plan` the intended result.
`BbsPlan` runs the loop of the code: two passes, in each the best remaining row next.
Device types other than hard disk are one type, because the code only ever asks
whether a row is a hard disk or has the type its entry says.

### BbsTransaction

`live` and `raw` are the firmware's; everything else is the context of the code, under
its names.  One step ends where the log is flushed or the table is written, because
that is where the firmware runs: between any two steps `Meddle` may replace a row or
the variable.  A priority write may have no effect; any log write may fail, which
stops the transaction before the rollback and only spoils the status during it
(`good`).  `try` tells the rollback that `LegacyBootBootPriorityApply` makes itself from
the one its caller makes afterwards.  `meddled`, `late` and `ignored` are history,
needed because nothing can be promised about rows the firmware changed, or about a
memory range that rejects the rollback's writes.

Left out: how discovery finds the row (one nondeterministic outcome), the copies of
the boot option the program owns (their checks may fail at each validation), and the
texts a row points to (part of `what`).  Whether a ROM vouches for a row is part of the
row, so it does not change while the row does not.

### BootSession

The state is the code's static state: `prepared`, `continueSelected`,
`cleanReturn`, `action` (`BootCountdown.c`), `pending` (`RomRecovery.c`), `original`
and `attempted` (`Marker.c`), `editing` (`ProbeConfig.c`), the configuration in
memory, and `held`, the set of things an attempt has opened, allocated or lent.
`seen` is history.  Statuses are reduced to success, `EFI_ABORTED`,
`EFI_UNSUPPORTED` (both are compared with by name in the code) and any other
error; every call can return each of the errors.  Keys are choices.

### BootLog

`log` is the `APP_LOGGER` with what became of its records: whether one is lost, whether
something waits for a flush, how many handles the firmware has open, whether an error was
announced since this log was opened.  An operation of `Log.c` is the set of loggers it can
leave behind, one for each way its calls can end, so an operation that calls others is
their composition.  Errors are first errors and stay, so only their presence is kept.
`ok` is the status the last operation returned, which is all that its callers see.

The actions are the users of the log as far as the log decides what they do next.
Elsewhere they print, flush, commit or fail in any order (`Probe`, `Preflight`,
`Handoff`).  A record that a failed flush was to store counts as lost; one for which
there was no memory does too.  `early` is history: a record was displayed in the durable
phase without being in the file.

Left out: the encoding, the verbosity filter (a record that is filtered is not one),
`FileCloseStatus` (nothing reads it), the choice among consoles, power cuts while a
record is being written.

### MemoryMap

A descriptor is its start, its number of pages and what its type and attributes allow.
One step of the walk is one round of the outer loop, that is one scan of all descriptors.
The scan's result is stated as a relation: the descriptor that covers the cursor alone
(`Usable`), and the last address up to which it stays alone (`CoveredLast`).  The
reference it is checked against, `Accessible`, speaks of one address at a time.  The
address space ends at `MaxAddr`, where the code's unsigned integers would wrap.  The
capture counts sizes in descriptors; any call of it may fail or ask for more room.

### PciTopology and TargetSetup

A machine is the sequence of its devices in handle order, each with its true parent, its
device path, what its bus registers say, and its root bridge.  The code never sees the
parent: it sees device paths and registers.  Of the firmware `MachineAssumption` takes what the
UEFI and PCI standards require: a device's path is its parent's with one more node, and
neither a path nor a segment, bus, device and function is given out twice.  Bus
registers, classes and the order of handles are unrestricted.  An inventory entry records which parts of the device could be read;
`MaxFaults` reads may fail in each inventory.  `Ancestors` are the bridges whose device path is
a strict prefix, `BuildDevicePathBridgePath` requires one for every node, and
`CrossCheckBridgePath` compares bus numbers.  `Upstream`, the reference, speaks of parents only.
`SortPathByDevicePathSize` and `InOrder` give each member of a set the place that counting
those before it gives it, which is what an insertion sort and a loop that appends end with.

`TargetSetup` collects displays and disks (one more than the limit of
either, and setup refuses), ranks them, and runs the selection screen key by key: change, review, acknowledge,
back, save, leave.  `StartBoot` then takes a new inventory, and `FindTargets` gives the verdict of
the plan.  `acked` is history: the pairs acknowledged and not left since.  Texts are a
word and its spelling, because the code compares descriptions without case.

Left out: the printed reports; the ancestry by bus numbers alone (`BuildBusBridgePath`), which
only they use; `PciVerifyReadOnlySnapshot`, which compares two snapshots of registers the
program does not write; `JournalEndpoint`, which reads the display's registers once more before the ROM is
selected and refuses only when a read fails or a register has changed meanwhile.

### ConfigText

A line is a section, a key with its value, or a note; only the description of a disk is
spelled out, because its blanks, quotes and backslashes are what parser and editor may
disagree about.  The user types any file; `StartEdit` requires that the strict parser accepts
it.  `EditLine` is one round of the editor's loop, with its own `section` and `seen`; a
description that is missing is added at the end of the section `[Boot]`.  `OutOfRoom` is the output buffer.

Carriage returns are where the two grammars differ: the parser skips them wherever they are,
the editor only at the end of a line.  A line of the user may have one *before* its first
character, where the editor sees neither a section nor a target, or *within* the name of its
section or key, where the editor sees some other section (and so ends `[Boot]`) or some other
key.  In a value, in a note or at the end of a line one makes no difference to either, so those are
not told apart.  `Strays` are the lines where it matters.

The parser has two checks of the whole file, after its last line: `MarkerConfigIsValid`, and
`SameDevice`, the refusal of one address for the display and for the disk's controller when
`Probe=false`.  While the user types, only the lines are checked (`LinesAreGood`); `StartEdit` needs the
whole parse.  Setup takes the two addresses from different inventories and does not compare them, so
`address` is any pair, and a pair of equal ones is refused when the output is verified.
`VerifyGeneratedBytes` parses the output again and looks at the
targets only, so `EditExact` says more than the code checks.

What the code does in loops over characters is a recursive function (`Putting`, `Reading`) with
the state of the loop after each character; what it remembers from line to line, the
section and the names already used, is recomputed from the lines above (`SectionAt`,
`LineIsGood`).

Left out: the grammar of values other than descriptions (a value is accepted or not), the
optional keys beyond one per section, and the report without targets that `Probe.ini` gets when
no display or disk is selected (`ConfigStore` has its file operations).

### OptionRom and RomGuard

A ROM is a function on its 512-byte blocks that gives, where an image begins, what its
header and PCIR structure say.  The checks of an image are one predicate each, in the code's
order; offsets are counted in cells of a block, which is what keeps "overlaps the PCIR", "crosses
the image's end" and "unaligned" apart.  The reference, `Selectable`, does not walk: it
speaks of a set of images that tile the ROM, of which exactly one matches.

`RomGuard` adds the shadow memory, the blocks that the memory map protects, the
INT13 handler, and the snapshot of `LegacyStorageRom.c`.  `FirstCheck` and
`LegacyRomGuardRecheckAfterBbs` are the same check at two times; `Intrude` is the firmware writing
to the shadow or moving the handler at any point between.  `Dispatch` is the
copy of the selected image over the active one in `NativeCsmVgaBoot.c`.  `intruded` is history, from the return of `GetBbsInfo` on, since
nothing can be promised about what changes after the last look.

Left out: `LegacyStorageRomMatch` and `LegacyFirmwareDisk.c`, which vouch for a boot row (one
Boolean of the row in `BbsPolicy`).

## 3. Runs

| run | instance | shows |
|---|---|---|
| `settings` | two settings, two archive numbers, two faults, every start content of the three settings files | `SettingsKept`, `EditIsAllOrRecoverable`, `SaveAcknowledged`, `FirstRunOnlyWhenEmpty`, `EvidenceKept` |
| `report` | as above with an older `Probe.ini` and a left-over rollback, under `FairSpec` | `ReportKept`, `NoDeadEnd` |
| `handoff` | all pairs of paths of up to two of four bridges, every register content, two command bits with every policy | `NoDoubleForwarding`, `RollbackExact`, `BootReady`, `SharedNeverDisabled`, `HonoursContract` |
| `session` | two targets, countdowns of two seconds, unlimited failures and keys | `SetupIsClean`, `NoSecondAttempt`, `BootsSavedSettings`, `MarkerRecoverable`, `RecoveryMenuIsReal`, `SilentExitIsClean`, `AttemptEnds` |
| `plan` | every table of three rows over three priorities and three kinds, every order variable over them | `PlanIsRanking`, `PlanDense`, `OrderCoversPlan` |
| `transaction` | three rows, 24 tables, three order variables, one interference by the firmware, unlimited failures | `TypeOK`, `BootsSelected`, `RollbackReaches`, `AuthorizedWrites`, `ReorderIsAtomic` |
| `log` | every console and serial configuration, unlimited failures | `CommitmentLogged`, `LogErrorShown`, `HandlesExact` |
| `display` | the same | `DisplayedIsDurable` is violated |
| `memory` | eight addresses, pages of two, every sequence of up to three of 21 descriptors, 18 queries | `WalkExact` |
| `targets` | seven machines, four boot tables of up to four rows, two retained settings or none, one failing read in each inventory | `OperatingPathExact`, `SavedTargetResolves`, `ConflictAcknowledged` |
| `text` | files of up to nine lines, four sections with seven keys in any order, one note or one stray carriage return before a line or within a name, markers that are off, on, incomplete or out of range; two addresses; descriptions of up to three characters for a new file, one with a quote and a backslash for an edit | `EditExact`, `EditAccepts` |
| `rom` | ROMs of up to four blocks with every kind of defect, 294 shadows of four blocks, one intrusion | `RomSelectionExact`, `CopySparesOthers`, `PlacementKnown` |

The type invariants of the modules that have a proof are theorems and are not repeated in
the runs, nor are `ReportLeavesSettings` and `SnapshotOwned`.  `BootSafe` and `SharedSafe` of
`BootHandoffProofs` assume what the run's `MayDrift` says, that no driver changes a shared bridge.

**A disagreement with the documentation.**  `Log.c:295` and
`Docs/TROUBLESHOOTING.md:213` say that a transaction record is not displayed unless it is
durable.  Run `display` shows an exception: `LogCommitAndReopen` fails to reopen the
file, there is no serial port, and `LogVPrintInternal` then takes the branch for a log
that has only a console, which does not look at `DurableFileFirst`.  Nothing is booted on
the strength of it: the next barrier fails, as `CommitmentLogged` shows.

**Bounds.**  `MaxFaults = 2`: the interesting failures of the store are a fault, and
a fault in the handling of that fault; the proofs remove the bound.  `MaxArchive`
is 1 or 2 instead of 99: enough for an archive next to an older one and for all
numbers being used up.  Two settings are enough to tell an old file from a new one;
they are interchangeable (symmetry).  Paths of two bridges instead of up to 16 have
every shape that the classification tells apart: no shared bridge, one, all; one
path a prefix of the other; a bridge that reappears at another depth.  Four bridges
allow two disjoint paths of full length.  Two command bits show that a bit with one
policy does not disturb another.  Two seconds are a countdown with a first, a
middle and a last tick.  Three rows instead of up to 256 are a selected disk and two
others, which may be two disks, a disk and something else, or one that must not be
touched.  `MaxMeddles = 1` is one change by the firmware, at any point; with two rows
two changes were explored as well, without an error, and the proofs remove both
bounds.  `BootLog` needs no bound: its state is finite.
Three descriptors in `MemoryMap` are two neighbours and one that overlaps either; the
proofs remove the bound.

The machines of `targets` are one for each way a path can fail to be what it seems: a switch
whose bridges are listed bottom up, the same with one stale bus register, two cards behind
two ports, a card in another segment, one under another root bridge, one below a device
that is no bridge, and one below more bridges than the plan holds (`MaxBridges = 3` instead
of 16).  `MaxDisplays` and `MaxDisks` are 3, so that one table has a disk too many.  The proofs
remove all of these bounds.
Three characters are enough for a blank or a quote at either end and a backslash
before one; `MaxText = 3` makes descriptions of four characters too long.  `MaxLines = 9` is
the six lines every boot needs and three more: a whole marker, or a description, a neighbour and a note; with
`MaxOdd = 1` one carriage return is in every place it can be.  The user types no `Probe=true`, because such a file
is not edited; the proofs remove all of these bounds.  In `rom` an
image has up to three blocks (`MaxCopy`; a fourth is too large) and a block two cells;
the proofs remove these bounds and the one on intrusions.

**Fairness.**  In `ConfigStore!FairSpec` the application keeps running
(`WF(AppStep)`: file calls return), somebody starts it again (`WF(Start)`), and a
user who is offered a recovery, a fresh setup or a first setup again and again at
some time accepts it (strong fairness, because answering Esc in between disables
the prompt).  `NoDeadEnd` is therefore a statement about the program and a willing
user; without the user's consent the program must not reset anything.  In
`BootSession!FairSpec` there is only `WF(Step)`: firmware calls return and
seconds pass.  No key is assumed, which is what `AttemptEnds` is about.

**Deadlock** is checked in every run.  The modules have an explicit step (`Terminated`,
`Finished`, `Done`, `Stop`) for the states in which the program is meant to stop.

## 4. Proofs

The first part of `ConfigProofs` proves the safety properties of `ConfigStore` for every set of
settings, every number of archive slots and every number of faults, from
`StoreAssumption` alone (at least one archive number; the token for "absent" is not
a content).

The properties are not inductive: that a copy may be trusted depends on what is in
memory, on which operation called the copy routine, and on which files the operation
had found.  `StoreInv` says this, in named parts:

* `ControlInv`: which operation can be at which label, and with which operands;
* `CopyInv`: what a copy or restore in progress knows about its source and its
  target (the source still holds the bytes in memory; the target is not the source);
* `LoadInv`: which files exist at each label of a load or a recovery;
* `FreshInv`: files already archived have an identical archive, and only these are
  deleted;
* `EditInv`, `FirstInv`, `ReportInv`: for the three kinds of save, where the old
  bytes are at each label;
* `KeptInv`: where the settings in force are, at every label.

There is one lemma per action, `<Action>Step`, which shows that the action preserves
`StoreInv`; lemmas about the shared file calls say what they leave alone.
`StoreInvariant` combines them, and `TypeCorrect`, `SettingsSafe`, `EditSafe`,
`SaveSafe`, `FirstRunSafe`, `ReportSafe`, `EvidenceSafe` and `ReportLeaves` follow.

`BbsPlanProofs` proves all properties of `BbsPlan` for every table of 1 to 256 rows and
every order variable, from `CountAssumption` and `PlanAssumption`.  `PlanInv` says what
the loop has reached:

* `OrderInv`: a usable order ranks every row with a valid priority, no two alike.  This
  rests on the validation in `Fits`, and on a bound for the entries it accepts: each
  names another row, so a rank is below 256 and never the value for "no rank";
* `BaseInv`: protected rows are as they were, the selected disk is at zero;
* `DenseInv`: the finished rows have exactly the priorities below `NextPriority`;
* `RankInv`: the finished rows are a beginning of the intended ranking: each is ahead of
  every row still to come, and its priority is the number of rows ahead of it.  The
  step that needs work is that the loop's best candidate is ahead of all the others
  (`BetterIsBefore`), which also gives the new row its count;
* `PassInv`: no hard disk is left after the first pass, no eligible row after the second.

`BbsTransactionProofs` proves all properties of `BbsTransaction`, from `CountAssumption`
and `TransactionAssumption`, for any number of interferences.  `TransactionInv` has:

* `ControlInv`: the journal is complete from the first write on; a clean transaction
  has no history;
* `BoundInv`: the loops make at most one write per round, so the history fits its array;
* `JournalInv`: the journal is the discovered table;
* `HistoryInv`: every write is of an eligible row, the *oldest* record of a row has its
  original priority, and a row without a record is as it was.  A row can have two
  records (one per loop), which is why the rollback has to go backwards;
* `RollbackInv`: a rollback in progress has restored every row that none of the records
  still ahead of it names;
* `ValidInv`: after a validation the table is the planned one.

`ReorderAtomic` shows that the transaction implements `ReorderContract`: seen from the firmware's
table it is clean, changing, booting or halted, and it stops only with its changes all
there, all undone, or with a write of the rollback refused.  Until the journal is complete
the table to return to is the live one (`Original`), so whatever the firmware does before is not
the program's concern; from then on the rows it changed are `Foreign`.  There is one lemma
per action (`...Contract`), and three for their common shapes: a step nobody outside can see
(`QuietStep`), one that changes a row (`ChangeStep`) and one that stops (`HaltStep`).

`BootHandoffProofs` proves the safety properties of `BootHandoff`, and that it implements
`HandoffContract`, for every set of bridges, paths of every length and any command
policy, from `HandoffAssumption`.  `HandoffInv` has:

* `PathInv`: the shared part is the common beginning of the paths, and from the
  classification on the two remainders have no bridge in common;
* `ControlInv`: where a write may have been attempted, and where `RouteDirty` is set;
* `JournalInv`: a bridge whose `WriteAttempted` is clear has its journaled value, and while a
  bridge of the target has it set, the active display's own bridges are closed.  This
  is what `NoDoubleForwarding` rests on;
* `LoopInv`: `RouteApply` has done the bridges behind it, `RouteRestore` has only those
  before it left;
* `UndoneInv`, `BootInv`: what holds after a rollback that is not dirty, and at each step
  after the route is applied.

`RouteStretches` and `RouteFacts` turn the one sequence `Route` into its three parts, and show
that no bridge is visited twice; `PathParts` does the same for the paths.  `BootSafe` and
`SharedSafe` take `"shared" \notin MayDrift` as a hypothesis: the code does not look again at a
shared bridge it found forwarding, so without it they are false.  `ContractStep` shows that
every step of the handoff is a step of the contract or leaves its variables alone.

`BootSessionProofs` proves the safety properties of `BootSession` for every set of targets and
length of the countdowns, with any call failing and any number of rounds.
`SessionInv` relates what the files of the program keep in static variables:

* `RoundInv`: a round begins with nothing left over, and hardware is changed only after
  the countdown;
* `CountdownInv`: `CleanReturn` is decided at the end of an attempt, for one that did not get
  past its countdown;
* `SettingsInv`: what is loaded is what is saved, wherever an attempt may be;
* `MarkerInv`: the marker file differs from its original only while `Attempted` says so, and a
  failed restore has spoilt the status that decides about the error screen;
* `PendingInv`: a recovery record is one of the attempt under way, before anything was done;
* `ReturnInv`: what an attempt still holds at each label of its way back, and why a clean
  return or a status of success means that it holds nothing.

`BootLogProofs` proves the safety properties of `BootLog`.  None of them is inductive, because a
caller that ignores the status of a print learns of the failure only later, from a flush or a
barrier.  `LogInv` says where the knowledge is in between: while the file is open a record that is
missing has left a file error, and every file error counts for `LogFlush` (`Sane`); a log
closed in the middle of an attempt was closed by an error (`Shut`); every failure has
been reported or is a file error that will be (`Tracked`); and setup has reported no error
that `LogFlush` would not return (`Probed`).  There is a lemma for each operation of
`Log.c`, which says what it preserves for every logger, and one for each step of its users.
`LogInv` was checked with TLC on all loggers before it was proved.

`RomGuardProofs` proves the properties of run `rom` for ROMs and shadows of
every size and content, from `RomAssumption` and `GuardAssumption`.  The walk's invariant says
that the images behind it form a trail from the first block (`Trail`), that every tiling of
the ROM contains this trail (`Forced`), and that the counters describe its candidates
(`Tally`); so at the end the trail is the only tiling (`TilingUnique`), and the walk's choice
is the one that `Selectable` defines.  For the guard, `Cleared` says that the last check still
describes the shadow, `Spared` that the dispatch left the others alone, and `RecordIsRight` what is
recorded for the recovery menu.  The step that needs an argument is `ForeignBehindCopy`: a ROM of
another device that the clear verdict did not see in the copied range lies wholly behind
it, so no block of it is overwritten.

`RomGuardProofs` also proves all properties of `MemoryMap` for every address space, page size
and map, from `MapAssumption`.  `MapInv` adds to the properties `OwnerInv` (who owns a
buffer at each label) and `WalkInv` (everything before the cursor may be accessed).  The
step that needs an argument is `AloneToLast`: a descriptor that covers the cursor alone
covers every address up to `CoveredLast` alone, because another one would have to begin
in between, where the walk cuts, or cover the cursor too.

`TargetSetupProofs` proves the three properties of run `targets` for every machine, boot table and
retained settings and any number of failing reads, from `MachineAssumption` and
`SetupAssumption`.  `SetupInv` has:

* `SnapshotInv`: an inventory lists devices in the order of their handles, and one without a
  fault lists all of them, with all there is to read (`Complete`);
* `ChoiceInv`: candidates belong to the inventory and to the table, and on the screen the
  disks are all hard-disk rows; a confirmation is of the pair on the screen;
* `PromiseInv`: from the save on there is a device at the saved address that the screen
  has checked (`DisplayPromised`) and exactly one row of the saved name (`RowPromised`).  It
  speaks of the machine and the table, never of setup's inventory, because the boot
  takes a new one;
* `VerdictInv`: what each verdict of a boot without faults says about the machine.

`PathShape` is the argument for the paths.  The ancestors of a display have different beginnings of
its path, so when there are as many of them as there are nodes between the root bridge and the
display each beginning occurs once, and sorting by size puts the k-th at place k (by counting;
no induction is needed).  `ParentIs` then makes the chain a chain of parents.  `RoutableIsBuilt` is the
converse that `SavedTargetResolves` needs: what setup could route, perhaps with some other
reads failing, a complete inventory can.  `SetupInv` was checked with TLC on the machines of
the run before it was proved.

The second part of `ConfigProofs` proves both properties of `ConfigText` for any sections and keys, any
descriptions, any length of text and any file the user types, however many notes and stray
carriage returns it has.  `TextAssumption` asks only that the four
sections the program writes to exist, hold the keys it writes, and are the only ones that hold a
target.  The argument has three layers.

* *What is written is read back* (`RoundTrip`).  `Putting` and `Reading` are functions defined by
  recursion, and the prover has no induction over them; `PuttingExists`,
  `ReadingExists` and `ReadBack` argue by the least counterexample instead (`LeastOf`).  The
  invariant of the loop is `ReadBackTo`: after the escapes of the first i characters the
  reader holds exactly these and is not in the middle of an escape.
* *Nothing else changes* (`ExactInv`).  The settings that are no targets are the same in the
  output and in the lines passed (`Kept`), and a text is published only after it was verified.  That
  gives `EditExact`, with or without stray carriage returns.
* *Editor and parser agree* (`AcceptInv`, `EditorInv`).  On a file without `Strays` (other
  carriage returns are allowed) the editor's section is the parser's or none (`EditorSection`), a line is a target for one
  exactly when it is for the other (`EditorAgrees`), a target counts as seen when its line has
  been passed or, for the description, when `[Boot]` has ended without one (`SeenOk`), and the
  output parses, ends in the same section, and has no section or key that does not come from a
  line passed or a target seen (`OutputOk`).  Without the last part the output could not be extended:
  that the next line makes no duplicate follows from the file having none (`NotTwice`,
  `TargetUnseen`).  At the end every target has been seen (`SeenAll`), so the editor accepts, and if
  the two chosen devices differ the verification does (`OutputVerifies`): the keys of the marker are no
  targets, so the marker is as valid as it was (`MarkerSame`), and as a key has one value
  (`ValueUnique`) the addresses stored are the chosen ones, which differ.  A new file is followed line by line (`Built`,
  `FreshVerifies`).

`ExactInv` and `AcceptInv` were checked with TLC as well, on the instance of the run `text` with files of
up to eight lines.

In all of them there is one lemma per action or group of actions.  In the transaction and
the guard interference appears only in history variables (`meddled`, `late`,
`intruded`), and about what they name nothing is claimed.

Only model-checked: liveness (`NoDeadEnd`, `AttemptEnds`), which the prover does not
support.

## 5. What is not modelled

* The search for the `Boot####` option and its device (`LegacyBootDiscoverBootCandidate`,
  `BootOptions.c`): one outcome of `Discover` in `BbsTransaction`.
* Who vouches for a boot row with status zero (`LegacyStorageRomMatch`, `LegacyFirmwareDisk.c`):
  one Boolean of the row.
* The choice of the Compatibility16 table (`SelectCompatibility16`): one outcome of the
  preflight.
* The reports: `PciPrint...`, `PrintBar`, `PrintDisplay`, `ReportCompatibility16Tables`,
  `ReportActiveVgaPaths`, `CompatibilityClassification`, the ancestry by bus numbers, the
  comparison of PCI snapshots, display names, status and stage texts, console layout.  They
  influence no control outside themselves.
* The grammar of single values (`ParseHex16`, `ParsePciAddress`), and the contents of the
  dispatch table.
* Compile-time guards, the vendored firmware headers and the host installers are outside
  the application.
* Power loss while the menu marker is set leaves the marker set; `Docs/MARKER.md` leaves
  that case to the boot menu that reads it, and `BootSession` models one start.
* A driver that changes a shared bridge while it is disconnected (see `MayDrift`).

## 6. Plan

1. *Done*: `ConfigStore`, `BootHandoff` with `HandoffContract`, `BootSession`, `BootLog`, `BbsPolicy`,
   `BbsPlan`, `BbsTransaction` with `ReorderContract`, `MemoryMap`, `OptionRom`, `RomGuard`,
   `PciTopology`, `TargetSetup` and `ConfigText` with proofs.
2. The search for the boot option (`LegacyBootDiscoverBootCandidate`).
