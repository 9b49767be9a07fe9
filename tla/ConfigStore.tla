---------------------------- MODULE ConfigStore ----------------------------
(***************************************************************************)
(* The settings files beside the EFI executable: Config.ini, its recovery  *)
(* copies Config.ini.previous and Config.ini.tmp, the *.invalid-NN files   *)
(* that a confirmed fresh start leaves behind, and the diagnostic          *)
(* Probe.ini with its own temporary and rollback file.                     *)
(*                                                                         *)
(* Every step is one call that can change the disk, or a run of calls that *)
(* only read it.  Any call may fail (with or without its effect), a write  *)
(* may leave a shortened file even though it reported success, and the     *)
(* machine may be switched off between any two steps.                      *)
(***************************************************************************)
EXTENDS Naturals, FiniteSets

CONSTANTS
  Versions,    \* the distinct settings a user can confirm
  MaxArchive,  \* highest NN of Config.ini.invalid-NN (99 in the code)
  MaxFaults,   \* how many I/O failures and power cuts a behaviour may have
  Seeded,      \* the files that may exist before the first start
  Absent       \* stands for "no such file" and "no such content"

Names == {"ini", "previous", "tmp", "probe", "probe.tmp", "probe.previous"}
ConfigNames == {"ini", "previous", "tmp"}

Modes == {"boot", "probe", "bad"}

(***************************************************************************)
(* A file's bytes: the settings they were made from, how often they were   *)
(* cut short on the way (0: exactly the bytes that were generated), and    *)
(* what ConfigReadUsable makes of them: complete boot settings, a valid    *)
(* Probe=true file, or neither.  A shortened file can still parse.         *)
(***************************************************************************)
Content == [ver : Versions, cut : Nat, mode : Modes]

Torn(c) == {[ver |-> c.ver, cut |-> c.cut + 1, mode |-> m] : m \in {c.mode, "bad"}}

ASSUME StoreAssumption ==
  /\ MaxArchive \in Nat \ {0}
  /\ MaxFaults \in Nat
  /\ Seeded \subseteq Names
  /\ Absent \notin Content

\* <<name, 0>> is the file of that name; <<name, n>> its archive .invalid-n.
Files == Names \X (0 .. MaxArchive)

Ini      == <<"ini", 0>>
Previous == <<"previous", 0>>
Tmp      == <<"tmp", 0>>

VARIABLES
  disk,       \* the contents of every file
  pc,         \* the step the application is at; "off": not running
  op,         \* the operation: load, fresh, edit, first, probe, reload
  src, dst,   \* operands of CreateVerifiedRollbackCopy; src of a recovery
  orig,       \* the bytes a copy or a restore has read into memory
  text,       \* the generated bytes that are being saved
  preserved,  \* RollbackPreserved of WriteAdjacentViaTemp
  todo,       \* files PreserveFailedConfigs has still to copy
  inforce,    \* history: the settings last loaded, or chosen with R
  consented,  \* history: Y was pressed since settings were last loaded
  faults      \* failures still available to the environment

ghosts == <<inforce, consented>>
copyArgs == <<src, dst, orig>>
vars == <<disk, pc, op, src, dst, orig, text, preserved, todo,
          inforce, consented, faults>>

Labels ==
  {"off", "load", "offer", "reread", "freshOffer", "preserve", "purge",
   "ready", "setup", "edRotate",
   "rsRead", "rsDelete", "rsWrite", "rsVerify",
   "cpBegin", "cpWrite", "cpVerify", "cpUndo",
   "wBegin", "wWrite", "wVerify", "wTarget", "wRename", "wDiscard",
   "check", "nested", "undo", "drop", "dropOk", "saved"}

Ops == {"load", "fresh", "edit", "first", "probe", "reload"}

TypeOK ==
  /\ disk \in [Files -> Content \cup {Absent}]
  /\ pc \in Labels
  /\ op \in Ops
  /\ src \in Files /\ dst \in Files
  /\ orig \in Content \cup {Absent}
  /\ text \in Content \cup {Absent}
  /\ preserved \in BOOLEAN
  /\ todo \subseteq ConfigNames
  /\ inforce \in Content \cup {Absent}
  /\ consented \in BOOLEAN
  /\ faults \in 0 .. MaxFaults

Init ==
  /\ \E seed \in [Seeded -> {Absent} \cup
                             [ver : Versions, cut : {0}, mode : Modes]] :
       disk = [f \in Files |-> IF f[2] = 0 /\ f[1] \in Seeded
                               THEN seed[f[1]] ELSE Absent]
  /\ pc = "off" /\ op = "load"
  /\ src = Ini /\ dst = Ini /\ orig = Absent /\ text = Absent
  /\ preserved = FALSE /\ todo = {}
  /\ inforce = Absent /\ consented = FALSE
  /\ faults = MaxFaults

-----------------------------------------------------------------------------
(* The file calls of the firmware, and how they fail.                      *)

Spend == faults > 0 /\ faults' = faults - 1

Exists(f) == disk[f] # Absent

\* DeleteAdjacentIfPresent: success means the file is gone; a failure (or a
\* warning, or a failed existence check) leaves it there or not.
Deleting(f, done, failed) ==
  \/ disk' = [disk EXCEPT ![f] = Absent] /\ pc' = done /\ UNCHANGED faults
  \/ Spend /\ disk' \in {disk, [disk EXCEPT ![f] = Absent]} /\ pc' = failed

\* Create a file, write all bytes, flush.  Failing to create it changes
\* nothing; a failed or a lying write leaves the bytes cut short.
Writing(f, bytes, done, failed, notCreated) ==
  \/ disk' = [disk EXCEPT ![f] = bytes] /\ pc' = done /\ UNCHANGED faults
  \/ /\ Spend
     /\ \E c \in Torn(bytes) : disk' = [disk EXCEPT ![f] = c]
     /\ pc' \in {done, failed}
  \/ Spend /\ disk' = [disk EXCEPT ![f] = bytes] /\ pc' = failed
  \/ Spend /\ disk' = disk /\ pc' = notCreated

-----------------------------------------------------------------------------
(* Loading: ConfigLoadRecoverable and the dispatcher around it.            *)

Start ==
  /\ pc = "off"
  /\ pc' = "load" /\ op' = "load"
  /\ src' = Ini /\ dst' = Ini /\ orig' = Absent /\ text' = Absent
  /\ preserved' = FALSE /\ todo' = {}
  /\ UNCHANGED <<disk, ghosts, faults>>

Usable(f) == Exists(f) /\ disk[f].mode # "bad"

\* A reload after a save refuses settings that ask for discovery again.
Accepted == op = "reload" => disk[Ini].mode = "boot"

Loaded ==
  \/ Accepted /\ pc' = "ready" /\ inforce' = disk[Ini] /\ consented' = FALSE
  \/ ~Accepted /\ pc' = "off" /\ UNCHANGED ghosts

\* Mutant: unusable settings end the run instead of offering a fresh setup.
LoadFailedGivesUp == "off"

\* Only the first load of a start goes on to ConfigOfferFreshSetup.
LoadFailed == IF op = "load" THEN "freshOffer" ELSE "off"

\* Mutant: only Config.ini itself decides what is a first run.
NoIniFound(unread) == Ini \notin unread /\ ~Exists(Ini)

\* A first run: every read answered NOT_FOUND.  unread: the files whose read
\* fails for another reason.
NothingFound(unread) ==
  unread = {} /\ \A f \in {Ini, Previous, Tmp} : ~Exists(f)

ConfigLoadRecoverable ==
  /\ pc = "load"
  /\ \E unread \in SUBSET {Ini, Previous, Tmp} :
       LET Good(f) == f \notin unread /\ Usable(f) IN
       /\ IF unread = {} THEN UNCHANGED faults ELSE Spend
       /\ \/ Good(Ini) /\ Loaded /\ UNCHANGED src
          \/ /\ ~Good(Ini) /\ (Good(Previous) \/ Good(Tmp))
             /\ src' = IF Good(Previous) THEN Previous ELSE Tmp
             /\ pc' = "offer"
             /\ UNCHANGED ghosts
          \/ /\ \A f \in {Ini, Previous, Tmp} : ~Good(f)
             /\ pc' = IF NothingFound(unread)
                      THEN IF op \in {"load", "fresh"} THEN "setup" ELSE "off"
                      ELSE LoadFailed
             /\ UNCHANGED <<src, ghosts>>
  /\ UNCHANGED <<disk, op, dst, orig, text, preserved, todo>>

\* The R / Esc prompt for a usable recovery file.
OfferRecovery ==
  /\ pc = "offer"
  /\ \/ pc' = "rsRead" /\ inforce' = disk[src] /\ UNCHANGED faults
     \/ pc' = "off" /\ UNCHANGED <<inforce, faults>>
     \/ Spend /\ pc' = LoadFailed /\ UNCHANGED inforce
  /\ UNCHANGED <<disk, op, copyArgs, text, preserved, todo, consented>>

\* ConfigReadUsable on the restored Config.ini.
Reread ==
  /\ pc = "reread"
  /\ \/ Usable(Ini) /\ Loaded /\ UNCHANGED faults
     \/ ~Usable(Ini) /\ pc' = LoadFailed /\ UNCHANGED <<ghosts, faults>>
     \/ Spend /\ pc' = LoadFailed /\ UNCHANGED ghosts
  /\ UNCHANGED <<disk, op, copyArgs, text, preserved, todo>>

-----------------------------------------------------------------------------
(* A fresh start: ConfigOfferFreshSetup and PreserveFailedConfigs.         *)

\* F2 then Y; Esc, any other key, or a dead keyboard returns to firmware.
ConfigOfferFreshSetup ==
  /\ pc = "freshOffer"
  /\ \/ /\ pc' = "preserve" /\ op' = "fresh" /\ consented' = TRUE
        /\ todo' = {n \in ConfigNames : Exists(<<n, 0>>)}
     \/ pc' = "off" /\ UNCHANGED <<op, consented, todo>>
  /\ UNCHANGED <<disk, copyArgs, text, preserved, inforce, faults>>

Rank == [ini |-> 1, previous |-> 2, tmp |-> 3]

FreeSlots(n) == {i \in 1 .. MaxArchive : ~Exists(<<n, i>>)}

\* The first loop: copy the next file to its first free number.
PreserveNext ==
  /\ pc = "preserve" /\ todo # {}
  /\ \E n \in todo :
       /\ \A m \in todo : Rank[n] <= Rank[m]
       /\ \/ /\ \E i \in FreeSlots(n) :
                  (\A j \in FreeSlots(n) : i <= j) /\ dst' = <<n, i>>
             /\ src' = <<n, 0>>
             /\ todo' = todo \ {n}
             /\ pc' = "cpBegin"
             /\ UNCHANGED faults
          \/ FreeSlots(n) = {} /\ pc' = "off" /\ UNCHANGED <<src, dst, todo, faults>>
          \/ Spend /\ pc' = "off" /\ UNCHANGED <<src, dst, todo>>
  /\ UNCHANGED <<disk, op, orig, text, preserved, ghosts>>

\* Mutant: originals are deleted before every one of them is archived.
PreserveDoneEarly ==
  /\ pc = "preserve"
  /\ pc' = "purge"
  /\ UNCHANGED <<disk, op, copyArgs, text, preserved, todo, ghosts, faults>>

PreserveDone ==
  /\ pc = "preserve" /\ todo = {}
  /\ pc' = "purge"
  /\ UNCHANGED <<disk, op, copyArgs, text, preserved, todo, ghosts, faults>>

\* The second loop: delete the preserved originals, in the same order.
Purge ==
  /\ pc = "purge"
  /\ LET left == {n \in ConfigNames : Exists(<<n, 0>>)} IN
     \/ left = {} /\ pc' = "load" /\ UNCHANGED <<disk, faults>>
     \/ \E n \in left : /\ \A m \in left : Rank[n] <= Rank[m]
                        /\ Deleting(<<n, 0>>, "purge", "off")
  /\ UNCHANGED <<op, copyArgs, text, preserved, todo, ghosts>>

-----------------------------------------------------------------------------
(* CreateVerifiedRollbackCopy(src, dst).                                   *)

CopyDone == CASE op = "fresh" -> "preserve"
              [] op = "first" -> "saved"
              [] OTHER -> "wTarget"
CopyFailed == IF op \in {"fresh", "first"} THEN "off" ELSE "wDiscard"

CopyBegin ==
  /\ pc = "cpBegin"
  /\ \/ ~Exists(dst) /\ orig' = disk[src] /\ pc' = "cpWrite" /\ UNCHANGED faults
     \/ Exists(dst) /\ pc' = CopyFailed /\ UNCHANGED <<orig, faults>>
     \/ Spend /\ pc' = CopyFailed /\ UNCHANGED orig
  /\ UNCHANGED <<disk, op, src, dst, text, preserved, todo, ghosts>>

CopyWrite ==
  /\ pc = "cpWrite"
  /\ Writing(dst, orig, "cpVerify", "cpUndo", CopyFailed)
  /\ UNCHANGED <<op, copyArgs, text, preserved, todo, ghosts>>

\* Mutant: the copy is trusted without comparing it.
CopyVerifyTrusting ==
  /\ pc = "cpVerify"
  /\ \/ pc' = CopyDone /\ UNCHANGED faults
     \/ Spend /\ pc' \in {"cpUndo", CopyFailed}
  /\ UNCHANGED <<disk, op, copyArgs, text, preserved, todo, ghosts>>

\* Readback on the open handle, close, then a second read by name.  Only a
\* failed close returns without removing the copy.
CopyVerify ==
  /\ pc = "cpVerify"
  /\ \/ disk[dst] = orig /\ pc' = CopyDone /\ UNCHANGED faults
     \/ disk[dst] # orig /\ pc' = "cpUndo" /\ UNCHANGED faults
     \/ Spend /\ pc' \in {"cpUndo", CopyFailed}
  /\ UNCHANGED <<disk, op, copyArgs, text, preserved, todo, ghosts>>

CopyUndo ==
  /\ pc = "cpUndo"
  /\ Deleting(dst, CopyFailed, CopyFailed)
  /\ UNCHANGED <<op, copyArgs, text, preserved, todo, ghosts>>

-----------------------------------------------------------------------------
(* RestoreAdjacentRollback: over Config.ini from the offered file, or over  *)
(* Probe.ini from its rollback.                                            *)

Target   == IF op = "probe" THEN <<"probe", 0>> ELSE Ini
Temp     == IF op = "probe" THEN <<"probe.tmp", 0>> ELSE Tmp

Rollback == IF op = "probe" THEN <<"probe.previous", 0>> ELSE Previous

RestoreFrom   == IF op = "probe" THEN Rollback ELSE src
RestoreDone   == IF op = "probe" THEN "drop" ELSE "reread"

\* Mutant: the rollback is dropped although the restore failed.
RestoreFailedDrops == IF op = "probe" THEN "drop" ELSE LoadFailed

RestoreFailed == IF op = "probe" THEN "off" ELSE LoadFailed

RestoreRead ==
  /\ pc = "rsRead"
  /\ \/ orig' = disk[RestoreFrom] /\ pc' = "rsDelete" /\ UNCHANGED faults
     \/ Spend /\ pc' = RestoreFailed /\ UNCHANGED orig
  /\ UNCHANGED <<disk, op, src, dst, text, preserved, todo, ghosts>>

RestoreDelete ==
  /\ pc = "rsDelete"
  /\ Deleting(Target, "rsWrite", RestoreFailed)
  /\ UNCHANGED <<op, copyArgs, text, preserved, todo, ghosts>>

\* A failure here leaves the target cut short, and the rollback in place.
RestoreWrite ==
  /\ pc = "rsWrite"
  /\ Writing(Target, orig, "rsVerify", RestoreFailed, RestoreFailed)
  /\ UNCHANGED <<op, copyArgs, text, preserved, todo, ghosts>>

RestoreVerify ==
  /\ pc = "rsVerify"
  /\ \/ disk[Target] = orig /\ pc' = RestoreDone /\ UNCHANGED faults
     \/ disk[Target] # orig /\ pc' = RestoreFailed /\ UNCHANGED faults
     \/ Spend /\ pc' = RestoreFailed
  /\ UNCHANGED <<disk, op, copyArgs, text, preserved, todo, ghosts>>

-----------------------------------------------------------------------------
(* WriteAdjacentViaTemp(Target, Temp, Rollback, text), op = "first" being   *)
(* the call whose target must not exist.                                   *)

WriteFailed == IF op = "probe" /\ preserved THEN "rsRead" ELSE "off"

\* The existence checks, then the removal of a stale temporary file.
TempBegin ==
  /\ pc = "wBegin"
  /\ LET refused == IF op = "first" THEN Exists(Target) ELSE Exists(Rollback) IN
     \/ refused /\ pc' = "off" /\ UNCHANGED <<disk, faults>>
     \/ Spend /\ pc' = "off" /\ UNCHANGED disk
     \/ ~refused /\ Deleting(Temp, "wWrite", "off")
  /\ preserved' = FALSE
  /\ UNCHANGED <<op, copyArgs, text, todo, ghosts>>

TempWrite ==
  /\ pc = "wWrite"
  /\ Writing(Temp, text, "wVerify", "wDiscard", "off")
  /\ UNCHANGED <<op, copyArgs, text, preserved, todo, ghosts>>

\* Mutant: an edit renames the temporary file without comparing it.
TempVerifyTrusting ==
  /\ pc = "wVerify"
  /\ IF op # "first" /\ Exists(Target)
     THEN pc' = "cpBegin" /\ src' = Target /\ dst' = Rollback
     ELSE pc' = "wRename" /\ UNCHANGED <<src, dst>>
  /\ UNCHANGED <<disk, op, orig, text, preserved, todo, ghosts, faults>>

\* Readback of the temporary file, and what must happen to the old target.
TempVerify ==
  /\ pc = "wVerify"
  /\ \/ /\ disk[Temp] = text /\ op = "first"
        /\ pc' = IF Exists(Target) THEN "wDiscard" ELSE "wRename"
        /\ UNCHANGED <<src, dst, faults>>
     \/ /\ disk[Temp] = text /\ op # "first" /\ Exists(Target)
        /\ pc' = "cpBegin" /\ src' = Target /\ dst' = Rollback
        /\ UNCHANGED faults
     \/ /\ disk[Temp] = text /\ op # "first" /\ ~Exists(Target)
        /\ pc' = "wRename" /\ UNCHANGED <<src, dst, faults>>
     \/ disk[Temp] # text /\ pc' = "wDiscard" /\ UNCHANGED <<src, dst, faults>>
     \/ Spend /\ pc' = "wDiscard" /\ UNCHANGED <<src, dst>>
  /\ UNCHANGED <<disk, op, orig, text, preserved, todo, ghosts>>

\* The rollback copy is verified: the old target may go.
TargetDelete ==
  /\ pc = "wTarget"
  /\ preserved' = TRUE
  /\ Deleting(Target, "wRename", "wDiscard")
  /\ UNCHANGED <<op, copyArgs, text, todo, ghosts>>

Renamed == [disk EXCEPT ![Target] = disk[Temp], ![Temp] = Absent]

\* RenameOpenAdjacent (SetInfo and flush), close, and a last existence check.
Rename ==
  /\ pc = "wRename"
  /\ \/ disk' = Renamed /\ pc' = "check" /\ UNCHANGED faults
     \/ Spend /\ disk' \in {disk, Renamed} /\ pc' \in {"wDiscard", WriteFailed}
  /\ UNCHANGED <<op, copyArgs, text, preserved, todo, ghosts>>

\* Temp->Delete removes the file the handle is open on: the target, if the
\* rename took effect and only its flush failed.
Handle == IF Exists(Temp) THEN Temp ELSE Target

TempDiscard ==
  /\ pc = "wDiscard"
  /\ Deleting(Handle, WriteFailed, WriteFailed)
  /\ UNCHANGED <<op, copyArgs, text, preserved, todo, ghosts>>

-----------------------------------------------------------------------------
(* What is saved, and by whom.                                             *)

NewSettings == [ver : Versions, cut : {0}, mode : {"boot"}]
NewReport   == [ver : Versions, cut : {0}, mode : {"probe"}]

\* Confirmed first-run targets become Config.ini; incomplete discovery only
\* writes Probe.ini; Esc cancels.
Setup ==
  /\ pc = "setup"
  /\ \/ op' = "first" /\ text' \in NewSettings /\ pc' = "wBegin"
     \/ op' = "probe" /\ text' \in NewReport /\ pc' = "wBegin"
     \/ pc' = "off" /\ UNCHANGED <<op, text>>
  /\ UNCHANGED <<disk, copyArgs, preserved, todo, ghosts, faults>>

\* Usable settings are loaded.  Boot settings can be edited (F2) or booted;
\* Probe=true settings only produce a report.
Ready ==
  /\ pc = "ready"
  /\ \/ /\ disk[Ini].mode = "boot"
        /\ op' = "edit" /\ text' \in NewSettings /\ pc' = "edRotate"
     \/ /\ disk[Ini].mode = "probe"
        /\ op' = "probe" /\ text' \in NewReport /\ pc' = "wBegin"
     \/ pc' = "off" /\ UNCHANGED <<op, text>>
  /\ UNCHANGED <<disk, copyArgs, preserved, todo, ghosts, faults>>

\* SaveEditedTargets up to WriteAdjacentViaTemp: the current file must still
\* be usable before its older recovery copy is removed.
RotatePrevious ==
  /\ pc = "edRotate"
  /\ \/ Usable(Ini) /\ Deleting(Previous, "wBegin", "off")
     \/ ~Usable(Ini) /\ pc' = "off" /\ UNCHANGED <<disk, faults>>
     \/ Spend /\ pc' = "off" /\ UNCHANGED disk
  /\ UNCHANGED <<op, copyArgs, text, preserved, todo, ghosts>>

\* Mutant: a first run makes no recovery copy.
CheckedOnce == IF op = "probe" /\ preserved THEN "dropOk" ELSE "saved"

Checked == CASE op = "edit" -> "saved"
             [] op = "first" -> "nested"
             [] OTHER -> IF preserved THEN "dropOk" ELSE "saved"
CheckFailed == CASE op = "edit" -> "off"
                 [] op = "first" -> "undo"
                 [] OTHER -> IF preserved THEN "rsRead" ELSE "undo"

\* The caller reads the written file back and compares it with the text.
Check ==
  /\ pc = "check"
  /\ \/ disk[Target] = text /\ pc' = Checked /\ UNCHANGED faults
     \/ disk[Target] # text /\ pc' = CheckFailed /\ UNCHANGED faults
     \/ Spend /\ pc' = CheckFailed
  /\ UNCHANGED <<disk, op, copyArgs, text, preserved, todo, ghosts>>

\* First run only: the nested ProbeConfigLoad must accept the new file, and
\* then a recovery copy is made of it.
NestedLoad ==
  /\ pc = "nested"
  /\ \/ /\ Usable(Ini) /\ disk[Ini].mode = "boot"
        /\ src' = Ini /\ dst' = Previous /\ pc' = "cpBegin"
        /\ UNCHANGED faults
     \/ /\ ~(Usable(Ini) /\ disk[Ini].mode = "boot")
        /\ pc' = "undo" /\ UNCHANGED <<src, dst, faults>>
     \/ Spend /\ pc' = "undo" /\ UNCHANGED <<src, dst>>
  /\ UNCHANGED <<disk, op, orig, text, preserved, todo, ghosts>>

\* A new file that did not verify, and that replaced nothing, is removed.
UndoTarget ==
  /\ pc = "undo"
  /\ Deleting(Target, "off", "off")
  /\ UNCHANGED <<op, copyArgs, text, preserved, todo, ghosts>>

\* Probe.ini only: its rollback goes once the new, or the restored, report
\* is in place.
DropRollback ==
  /\ pc \in {"drop", "dropOk"}
  /\ Deleting(Rollback, IF pc = "dropOk" THEN "saved" ELSE "off", "off")
  /\ UNCHANGED <<op, copyArgs, text, preserved, todo, ghosts>>

\* A confirmed setup reloads what it saved before booting from it.
AfterSave ==
  /\ pc = "saved"
  /\ pc' = IF op = "probe" THEN "off" ELSE "load"
  /\ op' = IF op = "probe" THEN op ELSE "reload"
  /\ UNCHANGED <<disk, copyArgs, text, preserved, todo, ghosts, faults>>

\* The machine loses power.  Flushed bytes stay, memory does not.
PowerCut ==
  /\ pc # "off" /\ Spend
  /\ pc' = "off"
  /\ UNCHANGED <<disk, op, copyArgs, text, preserved, todo, ghosts>>

-----------------------------------------------------------------------------

AppStep ==
  \/ ConfigLoadRecoverable \/ Reread
  \/ PreserveNext \/ PreserveDone \/ Purge
  \/ CopyBegin \/ CopyWrite \/ CopyVerify \/ CopyUndo
  \/ RestoreRead \/ RestoreDelete \/ RestoreWrite \/ RestoreVerify
  \/ TempBegin \/ TempWrite \/ TempVerify \/ TargetDelete \/ Rename \/ TempDiscard
  \/ RotatePrevious \/ Check \/ NestedLoad \/ UndoTarget \/ DropRollback \/ AfterSave

UserStep == Start \/ OfferRecovery \/ ConfigOfferFreshSetup \/ Setup \/ Ready

Next == AppStep \/ UserStep \/ PowerCut

Spec == Init /\ [][Next]_vars

\* The application keeps running, and a user who is asked answers in the
\* end: restarts, accepts a recovery, confirms a fresh start, saves a setup.
Recover == OfferRecovery /\ pc' = "rsRead"
Confirm == ConfigOfferFreshSetup /\ pc' = "preserve"
SaveSetup == Setup /\ op' = "first"

FairSpec ==
  /\ Spec
  /\ WF_vars(AppStep) /\ WF_vars(Start)
  /\ SF_vars(Recover) /\ SF_vars(Confirm) /\ SF_vars(SaveSetup)

-----------------------------------------------------------------------------
(* Properties.                                                             *)

\* No failure or power cut at any step of a save, a recovery or a reset loses
\* the settings last in force: they are in Config.ini or in a file the next
\* start offers or, after F2 and Y, at least in an .invalid-NN archive.
SettingsKept ==
  inforce # Absent =>
    \/ inforce \in {disk[Ini], disk[Previous], disk[Tmp]}
    \/ consented /\ \E n \in ConfigNames, i \in 1 .. MaxArchive : disk[<<n, i>>] = inforce

\* A save of edited targets that failed or was cut off left either a usable
\* Config.ini (the old or the new one, complete) or the old settings in
\* .previous, the file that the next start offers first for R.
EditIsAllOrRecoverable ==
  pc = "off" /\ op = "edit" =>
    \/ disk[Ini] \in {inforce, text}
    \/ ~Exists(Ini) /\ Usable(Previous) /\ disk[Previous] = inforce

\* "Config.ini saved. Previous valid settings retained in Config.ini.previous":
\* at that message both files hold exactly these bytes; after a first run the
\* recovery copy equals the new file; a saved report leaves no rollback.
SaveAcknowledged ==
  pc = "saved" =>
    /\ disk[Target] = text
    /\ op = "edit" => disk[Previous] = inforce
    /\ op = "first" => disk[Previous] = text
    /\ op = "probe" => ~Exists(Rollback)

\* First-run setup is entered, and its file written and re-read, only when no
\* settings file existed: an invalid recovery file never becomes a first run,
\* and the nested load can never stop at a recovery prompt.
FirstRunOnlyWhenEmpty ==
  /\ pc = "setup" => \A n \in ConfigNames : ~Exists(<<n, 0>>)
  /\ pc = "nested" => ~Exists(Previous) /\ ~Exists(Tmp)

\* PreserveFailedConfigs: a reset changes a settings file only when an archive
\* with identical bytes exists, and no step ever changes a finished archive.
EvidenceKept ==
  [][ /\ \A n \in ConfigNames :
           op = "fresh" /\ Exists(<<n, 0>>) /\ disk'[<<n, 0>>] # disk[<<n, 0>>] =>
             \E i \in 1 .. MaxArchive : disk[<<n, i>>] = disk[<<n, 0>>]
      /\ \A f \in Files :
           f[2] > 0 /\ Exists(f) /\ disk'[f] # disk[f] =>
             pc = "cpUndo" /\ dst = f ]_vars

\* NCV_EXISTING_ACTIVE_INI_PRESERVED: writing the diagnostic Probe.ini, its
\* failures and its rollback included, never changes a settings file.
ReportLeavesSettings ==
  [][ op = "probe" => \A n \in ConfigNames : disk'[<<n, 0>>] = disk[<<n, 0>>] ]_vars

\* Replacing Probe.ini keeps the earlier report, in place or as rollback, until
\* the new one is in place; also across failed writes, renames and restores.
ReportKept ==
  op = "probe" /\ preserved =>
    disk[Target] = text \/ orig \in {disk[Target], disk[Rollback]}

ArchivesFull == \E n \in ConfigNames : FreeSlots(n) = {}

\* No sequence of failures and power cuts ends in a state the user cannot leave:
\* settings are loaded again and again, unless all archive numbers are used up.
NoDeadEnd == []<>(pc = "ready" \/ ArchivesFull)

=============================================================================
