---------------------------- MODULE ConfigProofs ----------------------------
(***************************************************************************)
(* Proofs that the settings files survive, for any number of settings,     *)
(* archive numbers, failures and power cuts; and, from Text on, that their *)
(* text does: for any keys, descriptions of disks and length of file.      *)
(***************************************************************************)
EXTENDS ConfigStore, ConfigText, SequenceTheorems, WellFoundedInduction, TLAPS

CopySteps    == {"cpBegin", "cpWrite", "cpVerify", "cpUndo"}
RestoreSteps == {"rsRead", "rsDelete", "rsWrite", "rsVerify"}
LoadSteps    == {"load", "offer", "reread", "ready"} \cup RestoreSteps
WriteSteps   == {"wBegin", "wWrite", "wVerify", "wRename", "wDiscard", "check"} \cup CopySteps

\* Which operation can be at which step.
ControlInv ==
  /\ op = "load"   => pc \in LoadSteps \cup {"off", "freshOffer", "setup"}
  /\ op = "reload" => pc \in LoadSteps \cup {"off"}
  /\ op = "fresh"  => pc \in CopySteps \cup {"off", "preserve", "purge", "load", "setup"}
  /\ op = "edit"   => pc \in WriteSteps \cup {"off", "edRotate", "wTarget", "saved"}
  /\ op = "first"  => pc \in WriteSteps \cup {"off", "nested", "undo", "saved"}
  /\ op = "probe"  => pc \in WriteSteps \cup RestoreSteps \cup
                             {"off", "wTarget", "undo", "drop", "dropOk", "saved"}

\* What the copy in progress is from and to.
CopyInv ==
  /\ pc \in CopySteps /\ op = "fresh" =>
       \E n \in ConfigNames, i \in 1 .. MaxArchive : src = <<n, 0>> /\ dst = <<n, i>>
  /\ pc \in CopySteps /\ op # "fresh" => src = Target /\ dst = Rollback
  /\ pc \in CopySteps => Exists(src)
  /\ pc \in {"cpWrite", "cpVerify", "cpUndo"} => orig = disk[src]
  /\ pc \in {"cpBegin", "cpWrite"} /\ op = "fresh" => ~Exists(dst)

\* The settings in force are in a settings file, or in an archive that no
\* copy in progress can still undo.
Archived(f) == f[1] \in ConfigNames /\ f[2] > 0 /\ (pc \in CopySteps => f # dst)

KeptInv ==
  inforce # Absent =>
    \/ inforce \in {disk[Ini], disk[Previous], disk[Tmp]}
    \/ consented /\ \E f \in Files : Archived(f) /\ disk[f] = inforce

\* Loaded settings are Config.ini itself; a recovery keeps its source.
LoadInv ==
  /\ pc = "ready" => Usable(Ini) /\ inforce = disk[Ini] /\ Accepted
  /\ pc \in {"offer"} \cup RestoreSteps /\ op # "probe" =>
       src \in {Previous, Tmp} /\ Exists(src)
  /\ pc \in RestoreSteps /\ op # "probe" => disk[src] = inforce
  /\ pc \in RestoreSteps \ {"rsRead"} /\ op # "probe" => orig = inforce
  /\ pc = "setup" => \A n \in ConfigNames : ~Exists(<<n, 0>>)

\* A reset has archived every settings file that it is not still to copy.
FreshInv ==
  /\ op = "fresh" /\ pc \in CopySteps \cup {"preserve", "purge"} =>
       /\ consented
       /\ pc = "purge" => todo = {}
       /\ \A n \in todo : Exists(<<n, 0>>)
       /\ \A n \in ConfigNames \ todo :
            \/ pc \in CopySteps /\ src = <<n, 0>>
            \/ ~Exists(<<n, 0>>)
            \/ \E i \in 1 .. MaxArchive : disk[<<n, i>>] = disk[<<n, 0>>]
  /\ op = "fresh" /\ pc = "load" => \A n \in ConfigNames : ~Exists(<<n, 0>>)

\* An edit: the old settings are Config.ini until .previous holds them.
EditInv ==
  op = "edit" =>
    /\ inforce \in Content /\ inforce.mode # "bad"
    /\ text \in Content
    /\ pc = "off" => EditIsAllOrRecoverable
    /\ pc \in {"edRotate", "wBegin", "wWrite", "wVerify", "wTarget"} \cup CopySteps =>
         disk[Ini] = inforce
    /\ pc \in {"wVerify", "wTarget"} \cup CopySteps => Exists(Tmp)
    /\ pc \in {"wTarget", "wRename", "check", "saved"} => disk[Previous] = inforce
    /\ pc \in {"wTarget", "wRename"} \cup CopySteps => disk[Tmp] = text
    /\ pc = "wRename" => disk[Ini] = Absent
    /\ pc \in {"check", "saved"} => disk[Ini] = text
    /\ pc = "wDiscard" =>
         \/ disk[Ini] = inforce /\ Exists(Tmp)
         \/ disk[Ini] \in {Absent, inforce, text} /\ disk[Previous] = inforce

\* A first run: no other settings file exists until the recovery copy.
FirstInv ==
  op = "first" =>
    /\ text \in Content
    /\ inforce # Absent => consented /\ \E f \in Files : Archived(f) /\ disk[f] = inforce
    /\ pc \in {"wBegin", "wWrite", "wVerify", "wRename", "wDiscard", "check", "nested", "cpBegin"}
         => ~Exists(Previous)
    /\ pc \in {"check", "nested"} => ~Exists(Tmp)
    /\ pc \in {"nested", "saved"} \cup CopySteps => disk[Ini] = text
    /\ pc = "saved" => disk[Previous] = text

\* A report: the old one is in its rollback until the new one is verified.
ReportInv ==
  /\ op \in {"load", "fresh"} => ~preserved
  /\ op = "probe" =>
       /\ text \in Content
       /\ pc \in {"wBegin", "wWrite", "wVerify", "wTarget", "undo"} \cup CopySteps => ~preserved
       /\ ~preserved /\ pc \in {"wWrite", "wVerify", "cpBegin", "wRename", "check", "saved"} =>
            ~Exists(Rollback)
       /\ pc = "wTarget" => disk[Rollback] = orig
       /\ pc = "wTarget" \/ preserved => orig # Absent
       /\ preserved /\ pc \in {"wRename", "wDiscard", "check", "rsRead", "rsDelete",
                               "rsWrite", "rsVerify"} => disk[Rollback] = orig
       /\ pc \in RestoreSteps \cup {"drop", "dropOk"} => preserved
       /\ pc = "drop" => disk[Target] = orig
       /\ pc \in {"dropOk", "saved"} => disk[Target] = text
       /\ pc = "saved" => ~Exists(Rollback)
       /\ ReportKept

StoreInv ==
  TypeOK /\ ControlInv /\ CopyInv /\ KeptInv /\ LoadInv /\ FreshInv /\ EditInv
         /\ FirstInv /\ ReportInv

-----------------------------------------------------------------------------
(* The files are distinct, and what the two file calls can do to them.     *)

\* The six named files are different files, and none is an archive.
LEMMA FileFacts ==
  /\ Ini \in Files /\ Previous \in Files /\ Tmp \in Files
  /\ Target \in Files /\ Temp \in Files /\ Rollback \in Files
  /\ Ini # Previous /\ Ini # Tmp /\ Previous # Tmp
  /\ Target # Temp /\ Target # Rollback /\ Temp # Rollback
  /\ op = "probe" => {Target, Temp, Rollback} \cap {Ini, Previous, Tmp} = {}
  /\ op # "probe" => Target = Ini /\ Temp = Tmp /\ Rollback = Previous
  /\ \A f \in Files : f[2] > 0 => f \notin {Ini, Previous, Tmp, Target, Temp, Rollback}
  /\ \A n \in ConfigNames : <<n, 0>> \in {Ini, Previous, Tmp}
  /\ \A n \in ConfigNames, i \in 1 .. MaxArchive :
       <<n, i>> \in Files /\ <<n, i>>[1] = n /\ <<n, i>>[2] = i
  /\ \A m \in ConfigNames, n \in ConfigNames, i \in 1 .. MaxArchive : <<m, i>> # <<n, 0>>
BY StoreAssumption DEF Files, Names, ConfigNames, Ini, Previous, Tmp, Target, Temp, Rollback

\* DeleteAdjacentIfPresent touches one file, and success means it is gone.
LEMMA DeletingFrame ==
  ASSUME TypeOK, NEW f \in Files, NEW done, NEW failed, Deleting(f, done, failed)
  PROVE  /\ disk' \in [Files -> Content \cup {Absent}]
         /\ \A g \in Files : g # f => disk'[g] = disk[g]
         /\ disk'[f] \in {disk[f], Absent}
         /\ pc' \in {done, failed}
         /\ pc' = done /\ done # failed => disk'[f] = Absent
         /\ faults' \in 0 .. MaxFaults
BY StoreAssumption DEF TypeOK, Deleting, Spend

\* A shortened file still has a content.
LEMMA TornContent ==
  ASSUME NEW c \in Content
  PROVE  Torn(c) \subseteq Content
BY DEF Torn, Content, Modes

\* A write touches one file and, once created, leaves it with some content;
\* only a file that could not be created leaves everything as it was.
LEMMA WritingFrame ==
  ASSUME TypeOK, NEW f \in Files, NEW bytes \in Content,
         NEW done, NEW failed, NEW notCreated,
         Writing(f, bytes, done, failed, notCreated)
  PROVE  /\ disk' \in [Files -> Content \cup {Absent}]
         /\ \A g \in Files : g # f => disk'[g] = disk[g]
         /\ \/ disk'[f] \in Content /\ pc' \in {done, failed}
            \/ disk' = disk /\ pc' = notCreated
         /\ faults' \in 0 .. MaxFaults
BY StoreAssumption, TornContent DEF TypeOK, Writing, Spend

\* A rename moves the temporary file over the target.
LEMMA RenamedFrame ==
  ASSUME TypeOK
  PROVE  /\ Renamed \in [Files -> Content \cup {Absent}]
         /\ \A g \in Files : g \notin {Target, Temp} => Renamed[g] = disk[g]
         /\ Renamed[Target] = disk[Temp]
         /\ Renamed[Temp] = Absent
BY FileFacts DEF TypeOK, Renamed

-----------------------------------------------------------------------------
(* Every action preserves the invariant.                                   *)

\* A start begins with nothing in memory.
LEMMA StartStep ==
  ASSUME StoreInv, Start
  PROVE  StoreInv'
<1> USE FileFacts DEF StoreInv, ControlInv, LoadSteps, RestoreSteps, WriteSteps, CopySteps, Ops
<1>0. /\ pc' = "load" /\ op' = "load" /\ src' = Ini /\ dst' = Ini /\ orig' = Absent
      /\ text' = Absent /\ preserved' = FALSE /\ todo' = {}
      /\ UNCHANGED <<disk, inforce, consented, faults>>
  BY DEF Start, ghosts
<1>1. TypeOK'  BY <1>0 DEF TypeOK, Labels
<1>2. ControlInv'  BY <1>0 DEF ControlInv
<1>3. CopyInv'  BY <1>0 DEF CopyInv, Exists, Target, Rollback
<1>4. KeptInv'  BY <1>0 DEF KeptInv, TypeOK, Archived, LoadInv, EditInv, FirstInv
<1>5. LoadInv'  BY <1>0 DEF LoadInv, Exists, Usable
<1>6. FreshInv'  BY <1>0 DEF FreshInv, Exists
<1>7. EditInv'  BY <1>0 DEF EditInv, EditIsAllOrRecoverable, Exists, Usable, TypeOK
<1>8. FirstInv'  BY <1>0 DEF FirstInv, Archived, Exists, TypeOK
<1>9. ReportInv'  BY <1>0 DEF ReportInv, ReportKept, TypeOK, Exists, Target, Rollback
<1> QED BY <1>1, <1>2, <1>3, <1>4, <1>5, <1>6, <1>7, <1>8, <1>9

\* Loading changes no file.
LEMMA ConfigLoadRecoverableStep ==
  ASSUME StoreInv, ConfigLoadRecoverable
  PROVE  StoreInv'
<1> USE FileFacts DEF StoreInv, ControlInv, LoadSteps, RestoreSteps, WriteSteps, CopySteps, Ops
<1>0. /\ pc = "load"
      /\ faults' \in 0 .. MaxFaults
      /\ UNCHANGED <<disk, op, dst, orig, text, preserved, todo>>
      /\ \/ pc' = "ready" /\ Usable(Ini) /\ Accepted /\ inforce' = disk[Ini] /\ consented' = FALSE /\ src' = src
         \/ pc' = "offer" /\ src' \in {Previous, Tmp} /\ Exists(src') /\ UNCHANGED <<inforce, consented>>
         \/ /\ pc' = "setup" /\ op \in {"load", "fresh"} /\ \A f \in {Ini, Previous, Tmp} : ~Exists(f)
            /\ UNCHANGED <<src, inforce, consented>>
         \/ pc' \in {"off", LoadFailed} /\ UNCHANGED <<src, inforce, consented>>
      /\ (op = "load" /\ LoadFailed = "freshOffer") \/ LoadFailed = "off"
  BY StoreAssumption DEF ConfigLoadRecoverable, Loaded, Accepted, LoadFailed, NothingFound, ghosts, Usable, Exists, Spend, TypeOK
<1>1. TypeOK'
  <2>1. consented' \in BOOLEAN
    BY <1>0, Zenon DEF TypeOK
  <2> QED BY <1>0, <2>1 DEF TypeOK, Labels
<1>2. ControlInv'  BY <1>0 DEF ControlInv, FreshInv, ConfigNames, Ini, Previous, Tmp, Usable, Exists
<1>3. CopyInv'  BY <1>0 DEF CopyInv, Exists, Target, Rollback
<1>4. KeptInv'  BY <1>0 DEF KeptInv, TypeOK, Archived, LoadInv, EditInv, FirstInv
<1>5. LoadInv'  BY <1>0 DEF LoadInv, Exists, Usable, Accepted
<1>6. FreshInv'  BY <1>0 DEF FreshInv, Exists
<1>7. EditInv'  BY <1>0 DEF EditInv, EditIsAllOrRecoverable, Exists, Usable, TypeOK
<1>8. FirstInv'  BY <1>0 DEF FirstInv, Archived, Exists, TypeOK
<1>9. ReportInv'  BY <1>0 DEF ReportInv, ReportKept, TypeOK, Exists, Target, Rollback
<1> QED BY <1>1, <1>2, <1>3, <1>4, <1>5, <1>6, <1>7, <1>8, <1>9

\* R puts the offered file in force; nothing else changes.
LEMMA OfferRecoveryStep ==
  ASSUME StoreInv, OfferRecovery
  PROVE  StoreInv'
<1> USE FileFacts DEF StoreInv, ControlInv, LoadSteps, RestoreSteps, WriteSteps, CopySteps, Ops
<1>0. /\ pc = "offer"
      /\ faults' \in 0 .. MaxFaults
      /\ UNCHANGED <<disk, op, src, dst, orig, text, preserved, todo, consented>>
      /\ \/ pc' = "rsRead" /\ inforce' = disk[src]
         \/ pc' \in {"off", LoadFailed} /\ UNCHANGED inforce
      /\ (op = "load" /\ LoadFailed = "freshOffer") \/ LoadFailed = "off"
  BY StoreAssumption DEF OfferRecovery, LoadFailed, copyArgs, Spend, TypeOK
<1>1. TypeOK'  BY <1>0 DEF TypeOK, Labels
<1>2. ControlInv'  BY <1>0 DEF ControlInv
<1>3. CopyInv'  BY <1>0 DEF CopyInv, Exists, Target, Rollback
<1>4. KeptInv'  BY <1>0 DEF KeptInv, TypeOK, Archived, LoadInv, EditInv, FirstInv
<1>5. LoadInv'  BY <1>0 DEF LoadInv, Exists, Usable
<1>6. FreshInv'  BY <1>0 DEF FreshInv, Exists
<1>7. EditInv'  BY <1>0 DEF EditInv, EditIsAllOrRecoverable, Exists, Usable, TypeOK
<1>8. FirstInv'  BY <1>0 DEF FirstInv, Archived, Exists, TypeOK
<1>9. ReportInv'  BY <1>0 DEF ReportInv, ReportKept, TypeOK, Exists, Target, Rollback
<1> QED BY <1>1, <1>2, <1>3, <1>4, <1>5, <1>6, <1>7, <1>8, <1>9

\* The restored file is loaded or refused.
LEMMA RereadStep ==
  ASSUME StoreInv, Reread
  PROVE  StoreInv'
<1> USE FileFacts DEF StoreInv, ControlInv, LoadSteps, RestoreSteps, WriteSteps, CopySteps, Ops
<1>0. /\ pc = "reread"
      /\ faults' \in 0 .. MaxFaults
      /\ UNCHANGED <<disk, op, src, dst, orig, text, preserved, todo>>
      /\ \/ pc' = "ready" /\ Usable(Ini) /\ Accepted /\ inforce' = disk[Ini] /\ consented' = FALSE
         \/ pc' \in {"off", LoadFailed} /\ UNCHANGED <<inforce, consented>>
      /\ (op = "load" /\ LoadFailed = "freshOffer") \/ LoadFailed = "off"
  BY StoreAssumption DEF Reread, Loaded, LoadFailed, copyArgs, ghosts, Usable, Exists, Spend, TypeOK
<1>1. TypeOK'
  <2>1. consented' \in BOOLEAN
    BY <1>0, Zenon DEF TypeOK
  <2> QED BY <1>0, <2>1 DEF TypeOK, Labels
<1>2. ControlInv'  BY <1>0 DEF ControlInv
<1>3. CopyInv'  BY <1>0 DEF CopyInv, Exists, Target, Rollback
<1>4. KeptInv'  BY <1>0 DEF KeptInv, TypeOK, Archived, LoadInv, EditInv, FirstInv
<1>5. LoadInv'  BY <1>0 DEF LoadInv, Exists, Usable, Accepted
<1>6. FreshInv'  BY <1>0 DEF FreshInv, Exists
<1>7. EditInv'  BY <1>0 DEF EditInv, EditIsAllOrRecoverable, Exists, Usable, TypeOK
<1>8. FirstInv'  BY <1>0 DEF FirstInv, Archived, Exists, TypeOK
<1>9. ReportInv'  BY <1>0 DEF ReportInv, ReportKept, TypeOK, Exists, Target, Rollback
<1> QED BY <1>1, <1>2, <1>3, <1>4, <1>5, <1>6, <1>7, <1>8, <1>9

\* Y starts a reset of the files that exist.
LEMMA ConfigOfferFreshSetupStep ==
  ASSUME StoreInv, ConfigOfferFreshSetup
  PROVE  StoreInv'
<1> USE FileFacts DEF StoreInv, ControlInv, LoadSteps, RestoreSteps, WriteSteps, CopySteps, Ops
<1>0. /\ pc = "freshOffer"
      /\ UNCHANGED <<disk, src, dst, orig, text, preserved, inforce>>
      /\ UNCHANGED faults
      /\ \/ /\ pc' = "preserve" /\ op' = "fresh" /\ consented' = TRUE
            /\ todo' = {n \in ConfigNames : Exists(<<n, 0>>)}
         \/ pc' = "off" /\ UNCHANGED <<op, consented, todo>>
  BY DEF ConfigOfferFreshSetup, copyArgs
<1>1. TypeOK'  BY <1>0 DEF TypeOK, Labels
<1>2. ControlInv'  BY <1>0 DEF ControlInv
<1>3. CopyInv'  BY <1>0 DEF CopyInv, Exists, Target, Rollback
<1>4. KeptInv'  BY <1>0 DEF KeptInv, TypeOK, Archived, LoadInv, EditInv, FirstInv
<1>5. LoadInv'  BY <1>0 DEF LoadInv, Exists, Usable
<1>6. FreshInv'  BY <1>0 DEF FreshInv, Exists
<1>7. EditInv'  BY <1>0 DEF EditInv, EditIsAllOrRecoverable, Exists, Usable, TypeOK
<1>8. FirstInv'  BY <1>0 DEF FirstInv, Archived, Exists, TypeOK
<1>9. ReportInv'  BY <1>0 DEF ReportInv, ReportKept, TypeOK, Exists, Target, Rollback
<1> QED BY <1>1, <1>2, <1>3, <1>4, <1>5, <1>6, <1>7, <1>8, <1>9

\* The next file is copied to a number that no file has.
LEMMA PreserveNextStep ==
  ASSUME StoreInv, PreserveNext
  PROVE  StoreInv'
<1> USE FileFacts DEF StoreInv, ControlInv, LoadSteps, RestoreSteps, WriteSteps, CopySteps, Ops
<1>0. /\ pc = "preserve"
      /\ faults' \in 0 .. MaxFaults
      /\ UNCHANGED <<disk, op, orig, text, preserved, inforce, consented>>
      /\ \/ /\ pc' = "cpBegin"
            /\ \E n \in todo, i \in 1 .. MaxArchive :
                 ~Exists(<<n, i>>) /\ src' = <<n, 0>> /\ dst' = <<n, i>> /\ todo' = todo \ {n}
         \/ pc' = "off" /\ UNCHANGED <<src, dst, todo>>
  BY StoreAssumption DEF PreserveNext, FreeSlots, ghosts, Spend, TypeOK
<1>1. TypeOK'
  <2>1. CASE pc' = "off"
    BY <1>0, <2>1 DEF TypeOK, Labels
  <2>2. CASE pc' = "cpBegin"
    <3>1. PICK n \in todo, i \in 1 .. MaxArchive :
             src' = <<n, 0>> /\ dst' = <<n, i>> /\ todo' = todo \ {n}
      BY <1>0, <2>2
    <3>2. n \in ConfigNames
      BY DEF TypeOK
    <3>3. src' \in Files /\ dst' \in Files
      BY <3>1, <3>2
    <3> QED BY <1>0, <2>2, <3>1, <3>3 DEF TypeOK, Labels
  <2> QED BY <1>0, <2>1, <2>2
<1>2. ControlInv'  BY <1>0 DEF ControlInv
<1>3. CopyInv'
  <2>1. CASE pc' = "off"
    BY <2>1 DEF CopyInv
  <2>2. CASE pc' = "cpBegin"
    <3>1. PICK n \in todo, i \in 1 .. MaxArchive :
             ~Exists(<<n, i>>) /\ src' = <<n, 0>> /\ dst' = <<n, i>> /\ op = "fresh"
      BY <1>0, <2>2 DEF TypeOK
    <3>2. n \in ConfigNames /\ Exists(<<n, 0>>)
      BY <3>1, <1>0 DEF TypeOK, FreshInv
    <3> QED BY <1>0, <2>2, <3>1, <3>2 DEF CopyInv, Exists
  <2> QED BY <1>0, <2>1, <2>2
<1>4. KeptInv'
  <2>1. CASE pc' = "off"
    BY <1>0, <2>1 DEF KeptInv, Archived
  <2>2. CASE pc' = "cpBegin"
    <3>1. ~Exists(dst')
      BY <1>0, <2>2
    <3> QED BY <1>0, <2>2, <3>1 DEF KeptInv, Archived, Exists
  <2> QED BY <1>0, <2>1, <2>2
<1>5. LoadInv'  BY <1>0 DEF LoadInv, Exists, Usable, Accepted
<1>6. FreshInv'  BY <1>0 DEF FreshInv, Exists
<1>7. EditInv'  BY <1>0 DEF EditInv, EditIsAllOrRecoverable, Exists, Usable, TypeOK
<1>8. FirstInv'  BY <1>0 DEF FirstInv, Archived, Exists, TypeOK
<1>9. ReportInv'  BY <1>0 DEF ReportInv, ReportKept, TypeOK, Exists, Target, Rollback
<1> QED BY <1>1, <1>2, <1>3, <1>4, <1>5, <1>6, <1>7, <1>8, <1>9

\* Every file is archived.
LEMMA PreserveDoneStep ==
  ASSUME StoreInv, PreserveDone
  PROVE  StoreInv'
<1> USE FileFacts DEF StoreInv, ControlInv, LoadSteps, RestoreSteps, WriteSteps, CopySteps, Ops
<1>0. /\ pc = "preserve" /\ todo = {} /\ pc' = "purge"
      /\ UNCHANGED <<disk, op, src, dst, orig, text, preserved, todo, inforce, consented>>
      /\ UNCHANGED faults
  BY DEF PreserveDone, copyArgs, ghosts
<1>1. TypeOK'  BY <1>0 DEF TypeOK, Labels
<1>2. ControlInv'  BY <1>0 DEF ControlInv
<1>3. CopyInv'  BY <1>0 DEF CopyInv, Exists, Target, Rollback
<1>4. KeptInv'  BY <1>0 DEF KeptInv, TypeOK, Archived, LoadInv, EditInv, FirstInv
<1>5. LoadInv'  BY <1>0 DEF LoadInv, Exists, Usable
<1>6. FreshInv'  BY <1>0 DEF FreshInv, Exists
<1>7. EditInv'  BY <1>0 DEF EditInv, EditIsAllOrRecoverable, Exists, Usable, TypeOK
<1>8. FirstInv'  BY <1>0 DEF FirstInv, Archived, Exists, TypeOK
<1>9. ReportInv'  BY <1>0 DEF ReportInv, ReportKept, TypeOK, Exists, Target, Rollback
<1> QED BY <1>1, <1>2, <1>3, <1>4, <1>5, <1>6, <1>7, <1>8, <1>9

\* A reset deletes archived files only.
LEMMA PurgeStep ==
  ASSUME StoreInv, Purge
  PROVE  StoreInv'
<1> USE FileFacts DEF StoreInv, ControlInv, LoadSteps, RestoreSteps, WriteSteps, CopySteps, Ops
<1>0. /\ pc = "purge"
      /\ faults' \in 0 .. MaxFaults
      /\ UNCHANGED <<op, src, dst, orig, text, preserved, todo, inforce, consented>>
      /\ disk' \in [Files -> Content \cup {Absent}]
      /\ \/ pc' = "load" /\ disk' = disk /\ \A n \in ConfigNames : ~Exists(<<n, 0>>)
         \/ /\ pc' \in {"purge", "off"}
            /\ \E n \in ConfigNames :
                 /\ Exists(<<n, 0>>) /\ disk'[<<n, 0>>] \in {disk[<<n, 0>>], Absent}
                 /\ \A g \in Files : g # <<n, 0>> => disk'[g] = disk[g]
  <2>1. CASE \E n \in ConfigNames : Exists(<<n, 0>>) /\ Deleting(<<n, 0>>, "purge", "off")
    <3>1. PICK n \in ConfigNames : Exists(<<n, 0>>) /\ Deleting(<<n, 0>>, "purge", "off")
      BY <2>1
    <3>2. <<n, 0>> \in Files
      OBVIOUS
    <3> QED BY <3>1, <3>2, DeletingFrame DEF Purge, copyArgs, ghosts
  <2>2. CASE /\ pc' = "load" /\ UNCHANGED <<disk, faults>>
             /\ \A n \in ConfigNames : ~Exists(<<n, 0>>)
    BY <2>2 DEF Purge, copyArgs, ghosts, TypeOK
  <2> QED BY <2>1, <2>2 DEF Purge
<1>1. TypeOK'  BY <1>0 DEF TypeOK, Labels
<1>2. ControlInv'  BY <1>0 DEF ControlInv
<1>3. CopyInv'  BY <1>0 DEF CopyInv, Exists, Target, Rollback
<1>4. KeptInv'
  <2>1. CASE pc' = "load"
    BY <1>0, <2>1 DEF KeptInv, Archived
  <2>2. CASE pc' # "load"
    <3>1. PICK n \in ConfigNames :
            \A g \in Files : g # <<n, 0>> => disk'[g] = disk[g]
      BY <1>0, <2>2
    <3>2. PICK i \in 1 .. MaxArchive : disk[<<n, i>>] = disk[<<n, 0>>] \/ ~Exists(<<n, 0>>)
      BY <1>0, StoreAssumption DEF FreshInv, TypeOK
    <3>3. <<n, i>> \in Files /\ <<n, i>> # <<n, 0>> /\ consented
      BY <1>0 DEF FreshInv, TypeOK
    <3>4. disk'[<<n, i>>] = disk[<<n, i>>] /\ Archived(<<n, i>>)'
      BY <1>0, <3>1, <3>3 DEF Archived
    <3>5. \A f \in Files : Archived(f) => Archived(f)' /\ disk'[f] = disk[f]
      BY <1>0, <3>1 DEF Archived
    <3> QED BY <1>0, <3>1, <3>2, <3>3, <3>4, <3>5 DEF KeptInv, Exists
  <2> QED BY <2>1, <2>2
<1>5. LoadInv'  BY <1>0 DEF LoadInv, Exists, Usable, Accepted
<1>6. FreshInv'
  <2>1. CASE pc' = "purge"
    <3>1. PICK n \in ConfigNames :
            /\ disk'[<<n, 0>>] \in {disk[<<n, 0>>], Absent}
            /\ \A g \in Files : g # <<n, 0>> => disk'[g] = disk[g]
      BY <1>0, <2>1
    <3>2. \A m \in ConfigNames, i \in 1 .. MaxArchive : disk'[<<m, i>>] = disk[<<m, i>>]
      BY <3>1
    <3>3. \A m \in ConfigNames : disk'[<<m, 0>>] \in {disk[<<m, 0>>], Absent}
      BY <3>1
    <3> QED BY <1>0, <2>1, <3>2, <3>3 DEF FreshInv, Exists
  <2>2. CASE pc' # "purge"
    BY <1>0, <2>2 DEF FreshInv, Exists
  <2> QED BY <2>1, <2>2
<1>7. EditInv'  BY <1>0 DEF EditInv, EditIsAllOrRecoverable, Exists, Usable, TypeOK
<1>8. FirstInv'  BY <1>0 DEF FirstInv, Archived, Exists, TypeOK
<1>9. ReportInv'  BY <1>0 DEF ReportInv, ReportKept, TypeOK, Exists, Target, Rollback
<1> QED BY <1>1, <1>2, <1>3, <1>4, <1>5, <1>6, <1>7, <1>8, <1>9

\* The copy starts only where no file is.
LEMMA CopyBeginStep ==
  ASSUME StoreInv, CopyBegin
  PROVE  StoreInv'
<1> USE FileFacts DEF StoreInv, ControlInv, LoadSteps, RestoreSteps, WriteSteps, CopySteps, Ops
<1>0. /\ pc = "cpBegin"
      /\ faults' \in 0 .. MaxFaults
      /\ UNCHANGED <<disk, op, src, dst, text, preserved, todo, inforce, consented>>
      /\ \/ pc' = "cpWrite" /\ ~Exists(dst) /\ orig' = disk[src]
         \/ pc' = CopyFailed /\ orig' = orig
      /\ CopyFailed = (IF op \in {"fresh", "first"} THEN "off" ELSE "wDiscard")
  BY StoreAssumption DEF CopyBegin, CopyFailed, ghosts, Spend, TypeOK
<1>1. TypeOK'  BY <1>0 DEF TypeOK, Labels
<1>2. ControlInv'  BY <1>0 DEF ControlInv
<1>3. CopyInv'  BY <1>0 DEF CopyInv, Exists, Target, Rollback
<1>4. KeptInv'  BY <1>0 DEF KeptInv, TypeOK, Archived, LoadInv, EditInv, FirstInv
<1>5. LoadInv'  BY <1>0 DEF LoadInv, Exists, Usable
<1>6. FreshInv'  BY <1>0 DEF FreshInv, Exists
<1>7. EditInv'  BY <1>0 DEF EditInv, EditIsAllOrRecoverable, Exists, Usable, TypeOK
<1>8. FirstInv'  BY <1>0 DEF FirstInv, Archived, Exists, TypeOK
<1>9. ReportInv'  BY <1>0 DEF ReportInv, ReportKept, TypeOK, Exists, Target, Rollback
<1> QED BY <1>1, <1>2, <1>3, <1>4, <1>5, <1>6, <1>7, <1>8, <1>9

\* Only the copy is written.
LEMMA CopyWriteStep ==
  ASSUME StoreInv, CopyWrite
  PROVE  StoreInv'
<1> USE FileFacts DEF StoreInv, ControlInv, LoadSteps, RestoreSteps, WriteSteps, CopySteps, Ops
<1>0. /\ pc = "cpWrite"
      /\ faults' \in 0 .. MaxFaults
      /\ UNCHANGED <<op, src, dst, orig, text, preserved, todo, inforce, consented>>
      /\ disk' \in [Files -> Content \cup {Absent}]
      /\ \A g \in Files : g # dst => disk'[g] = disk[g]
      /\ \/ pc' \in {"cpVerify", "cpUndo"}
         \/ pc' = CopyFailed /\ disk' = disk
      /\ CopyFailed = (IF op \in {"fresh", "first"} THEN "off" ELSE "wDiscard")
  BY WritingFrame DEF CopyWrite, CopyFailed, copyArgs, ghosts, TypeOK, CopyInv, Exists
<1>1. TypeOK'  BY <1>0 DEF TypeOK, Labels
<1>2. ControlInv'  BY <1>0 DEF ControlInv
<1>3. CopyInv'  BY <1>0 DEF CopyInv, Exists, Target, Rollback
<1>4. KeptInv'
  <2>1. CASE op = "fresh"
    <3>1. \A f \in Files : Archived(f) => Archived(f)' /\ disk'[f] = disk[f]
      BY <1>0 DEF Archived
    <3>2. dst \notin {Ini, Previous, Tmp}
      BY <1>0, <2>1 DEF CopyInv
    <3> QED BY <1>0, <3>1, <3>2 DEF KeptInv
  <2>2. CASE op # "fresh"
    <3>1. \A f \in Files : Archived(f) => Archived(f)' /\ disk'[f] = disk[f]
      BY <1>0 DEF Archived
    <3>2. dst = Rollback
      BY <1>0, <2>2 DEF CopyInv
    <3>3. CASE op = "probe"
      BY <1>0, <3>1, <3>2, <3>3 DEF KeptInv
    <3>4. CASE op # "probe"
      BY <1>0, <3>1, <3>2, <3>4, <2>2 DEF KeptInv, EditInv, FirstInv, TypeOK
    <3> QED BY <3>3, <3>4
  <2> QED BY <2>1, <2>2
<1>5. LoadInv'  BY <1>0 DEF LoadInv, Exists, Usable
<1>6. FreshInv'
  <2>1. CASE op = "fresh" /\ pc' \in CopySteps
    <3>1. PICK n \in ConfigNames, i \in 1 .. MaxArchive : src = <<n, 0>> /\ dst = <<n, i>>
      BY <1>0, <2>1 DEF CopyInv
    <3>2. \A m \in ConfigNames : disk'[<<m, 0>>] = disk[<<m, 0>>]
      BY <1>0, <3>1
    <3>3. \A m \in ConfigNames \ {n}, j \in 1 .. MaxArchive : disk'[<<m, j>>] = disk[<<m, j>>]
      BY <1>0, <3>1
    <3> QED BY <1>0, <2>1, <3>1, <3>2, <3>3 DEF FreshInv, Exists, TypeOK
  <2>2. CASE ~(op = "fresh" /\ pc' \in CopySteps)
    BY <1>0, <2>2 DEF FreshInv
  <2> QED BY <2>1, <2>2
<1>7. EditInv'  BY <1>0 DEF EditInv, EditIsAllOrRecoverable, Exists, Usable, TypeOK, CopyInv
<1>8. FirstInv'  BY <1>0 DEF FirstInv, Archived, Exists, TypeOK, CopyInv
<1>9. ReportInv'  BY <1>0 DEF ReportInv, ReportKept, TypeOK, Exists, Target, Rollback, CopyInv
<1> QED BY <1>1, <1>2, <1>3, <1>4, <1>5, <1>6, <1>7, <1>8, <1>9

\* A verified copy has the bytes of its source.
LEMMA CopyVerifyStep ==
  ASSUME StoreInv, CopyVerify
  PROVE  StoreInv'
<1> USE FileFacts DEF StoreInv, ControlInv, LoadSteps, RestoreSteps, WriteSteps, CopySteps, Ops
<1>0. /\ pc = "cpVerify"
      /\ faults' \in 0 .. MaxFaults
      /\ UNCHANGED <<disk, op, src, dst, orig, text, preserved, todo, inforce, consented>>
      /\ (pc' = CopyDone /\ disk[dst] = orig) \/ pc' \in {"cpUndo", CopyFailed}
      /\ CopyDone = (IF op = "fresh" THEN "preserve" ELSE IF op = "first" THEN "saved" ELSE "wTarget")
      /\ CopyFailed = (IF op \in {"fresh", "first"} THEN "off" ELSE "wDiscard")
  BY StoreAssumption DEF CopyVerify, CopyDone, CopyFailed, copyArgs, ghosts, Spend, TypeOK
<1>1. TypeOK'  BY <1>0 DEF TypeOK, Labels
<1>2. ControlInv'  BY <1>0 DEF ControlInv
<1>3. CopyInv'  BY <1>0 DEF CopyInv, Exists, Target, Rollback
<1>4. KeptInv'  BY <1>0 DEF KeptInv, TypeOK, Archived, LoadInv, EditInv, FirstInv, CopyInv
<1>5. LoadInv'  BY <1>0 DEF LoadInv, Exists, Usable
<1>6. FreshInv'  BY <1>0 DEF FreshInv, Exists, CopyInv
<1>7. EditInv'  BY <1>0 DEF EditInv, EditIsAllOrRecoverable, Exists, Usable, TypeOK, CopyInv
<1>8. FirstInv'  BY <1>0 DEF FirstInv, Archived, Exists, TypeOK, CopyInv
<1>9. ReportInv'  BY <1>0 DEF ReportInv, ReportKept, TypeOK, Exists, Target, Rollback, CopyInv
<1> QED BY <1>1, <1>2, <1>3, <1>4, <1>5, <1>6, <1>7, <1>8, <1>9

\* Only the copy is removed.
LEMMA CopyUndoStep ==
  ASSUME StoreInv, CopyUndo
  PROVE  StoreInv'
<1> USE FileFacts DEF StoreInv, ControlInv, LoadSteps, RestoreSteps, WriteSteps, CopySteps, Ops
<1>0. /\ pc = "cpUndo"
      /\ faults' \in 0 .. MaxFaults
      /\ UNCHANGED <<op, src, dst, orig, text, preserved, todo, inforce, consented>>
      /\ disk' \in [Files -> Content \cup {Absent}]
      /\ \A g \in Files : g # dst => disk'[g] = disk[g]
      /\ pc' = CopyFailed
      /\ CopyFailed = (IF op \in {"fresh", "first"} THEN "off" ELSE "wDiscard")
  BY DeletingFrame DEF CopyUndo, CopyFailed, copyArgs, ghosts, TypeOK
<1>1. TypeOK'  BY <1>0 DEF TypeOK, Labels
<1>2. ControlInv'  BY <1>0 DEF ControlInv
<1>3. CopyInv'  BY <1>0 DEF CopyInv, Exists, Target, Rollback
<1>4. KeptInv'
  <2>1. CASE op = "fresh"
    <3>1. \A f \in Files : Archived(f) => Archived(f)' /\ disk'[f] = disk[f]
      BY <1>0 DEF Archived
    <3>2. dst \notin {Ini, Previous, Tmp}
      BY <1>0, <2>1 DEF CopyInv
    <3> QED BY <1>0, <3>1, <3>2 DEF KeptInv
  <2>2. CASE op # "fresh"
    <3>1. \A f \in Files : Archived(f) => Archived(f)' /\ disk'[f] = disk[f]
      BY <1>0 DEF Archived
    <3>2. dst = Rollback
      BY <1>0, <2>2 DEF CopyInv
    <3>3. CASE op = "probe"
      BY <1>0, <3>1, <3>2, <3>3 DEF KeptInv
    <3>4. CASE op # "probe"
      BY <1>0, <3>1, <3>2, <3>4, <2>2 DEF KeptInv, EditInv, FirstInv, TypeOK
    <3> QED BY <3>3, <3>4
  <2> QED BY <2>1, <2>2
<1>5. LoadInv'  BY <1>0 DEF LoadInv, Exists, Usable
<1>6. FreshInv'  BY <1>0 DEF FreshInv, Exists, CopyInv
<1>7. EditInv'  BY <1>0 DEF EditInv, EditIsAllOrRecoverable, Exists, Usable, TypeOK, CopyInv
<1>8. FirstInv'  BY <1>0 DEF FirstInv, Archived, Exists, TypeOK, CopyInv
<1>9. ReportInv'  BY <1>0 DEF ReportInv, ReportKept, TypeOK, Exists, Target, Rollback, CopyInv
<1> QED BY <1>1, <1>2, <1>3, <1>4, <1>5, <1>6, <1>7, <1>8, <1>9

\* The recovery file is read into memory.
LEMMA RestoreReadStep ==
  ASSUME StoreInv, RestoreRead
  PROVE  StoreInv'
<1> USE FileFacts DEF StoreInv, ControlInv, LoadSteps, RestoreSteps, WriteSteps, CopySteps, Ops
<1>0. /\ pc = "rsRead"
      /\ faults' \in 0 .. MaxFaults
      /\ UNCHANGED <<disk, op, src, dst, text, preserved, todo, inforce, consented>>
      /\ \/ pc' = "rsDelete" /\ orig' = disk[IF op = "probe" THEN Rollback ELSE src]
         \/ pc' = RestoreFailed /\ orig' = orig
      /\ (op = "load" /\ RestoreFailed = "freshOffer") \/ RestoreFailed = "off"
  BY StoreAssumption DEF RestoreRead, RestoreFrom, RestoreFailed, LoadFailed, ghosts, Spend, TypeOK
<1>1. TypeOK'  BY <1>0 DEF TypeOK, Labels
<1>2. ControlInv'  BY <1>0 DEF ControlInv
<1>3. CopyInv'  BY <1>0 DEF CopyInv, Exists, Target, Rollback
<1>4. KeptInv'  BY <1>0 DEF KeptInv, TypeOK, Archived, LoadInv, EditInv, FirstInv
<1>5. LoadInv'  BY <1>0 DEF LoadInv, Exists, Usable
<1>6. FreshInv'  BY <1>0 DEF FreshInv, Exists
<1>7. EditInv'  BY <1>0 DEF EditInv, EditIsAllOrRecoverable, Exists, Usable, TypeOK
<1>8. FirstInv'  BY <1>0 DEF FirstInv, Archived, Exists, TypeOK
<1>9. ReportInv'  BY <1>0 DEF ReportInv, ReportKept, TypeOK, Exists, Target, Rollback
<1> QED BY <1>1, <1>2, <1>3, <1>4, <1>5, <1>6, <1>7, <1>8, <1>9

\* Only the target is removed: never the file that it is restored from.
LEMMA RestoreDeleteStep ==
  ASSUME StoreInv, RestoreDelete
  PROVE  StoreInv'
<1> USE FileFacts DEF StoreInv, ControlInv, LoadSteps, RestoreSteps, WriteSteps, CopySteps, Ops
<1>0. /\ pc = "rsDelete"
      /\ faults' \in 0 .. MaxFaults
      /\ UNCHANGED <<op, src, dst, orig, text, preserved, todo, inforce, consented>>
      /\ disk' \in [Files -> Content \cup {Absent}]
      /\ \A g \in Files : g # Target => disk'[g] = disk[g]
      /\ pc' \in {"rsWrite", RestoreFailed}
      /\ disk'[Target] \in {disk[Target], Absent}
      /\ (op = "load" /\ RestoreFailed = "freshOffer") \/ RestoreFailed = "off"
  BY DeletingFrame DEF RestoreDelete, RestoreFailed, LoadFailed, copyArgs, ghosts
<1>1. TypeOK'  BY <1>0 DEF TypeOK, Labels
<1>2. ControlInv'  BY <1>0 DEF ControlInv
<1>3. CopyInv'  BY <1>0 DEF CopyInv, Exists, Target, Rollback
<1>4. KeptInv'  BY <1>0 DEF KeptInv, TypeOK, Archived, LoadInv, EditInv, FirstInv
<1>5. LoadInv'  BY <1>0 DEF LoadInv, Exists, Usable
<1>6. FreshInv'  BY <1>0 DEF FreshInv, Exists
<1>7. EditInv'  BY <1>0 DEF EditInv, EditIsAllOrRecoverable, Exists, Usable, TypeOK
<1>8. FirstInv'  BY <1>0 DEF FirstInv, Archived, Exists, TypeOK
<1>9. ReportInv'  BY <1>0 DEF ReportInv, ReportKept, TypeOK, Exists, Target, Rollback
<1> QED BY <1>1, <1>2, <1>3, <1>4, <1>5, <1>6, <1>7, <1>8, <1>9

\* Only the target is written.
LEMMA RestoreWriteStep ==
  ASSUME StoreInv, RestoreWrite
  PROVE  StoreInv'
<1> USE FileFacts DEF StoreInv, ControlInv, LoadSteps, RestoreSteps, WriteSteps, CopySteps, Ops
<1>0. /\ pc = "rsWrite"
      /\ faults' \in 0 .. MaxFaults
      /\ UNCHANGED <<op, src, dst, orig, text, preserved, todo, inforce, consented>>
      /\ disk' \in [Files -> Content \cup {Absent}]
      /\ \A g \in Files : g # Target => disk'[g] = disk[g]
      /\ pc' \in {"rsVerify", RestoreFailed}
      /\ (op = "load" /\ RestoreFailed = "freshOffer") \/ RestoreFailed = "off"
  BY WritingFrame DEF RestoreWrite, RestoreFailed, LoadFailed, copyArgs, ghosts, TypeOK, LoadInv, ReportInv, Exists
<1>1. TypeOK'  BY <1>0 DEF TypeOK, Labels
<1>2. ControlInv'  BY <1>0 DEF ControlInv
<1>3. CopyInv'  BY <1>0 DEF CopyInv, Exists, Target, Rollback
<1>4. KeptInv'  BY <1>0 DEF KeptInv, TypeOK, Archived, LoadInv, EditInv, FirstInv
<1>5. LoadInv'  BY <1>0 DEF LoadInv, Exists, Usable
<1>6. FreshInv'  BY <1>0 DEF FreshInv, Exists
<1>7. EditInv'  BY <1>0 DEF EditInv, EditIsAllOrRecoverable, Exists, Usable, TypeOK
<1>8. FirstInv'  BY <1>0 DEF FirstInv, Archived, Exists, TypeOK
<1>9. ReportInv'  BY <1>0 DEF ReportInv, ReportKept, TypeOK, Exists, Target, Rollback
<1> QED BY <1>1, <1>2, <1>3, <1>4, <1>5, <1>6, <1>7, <1>8, <1>9

\* A verified target has the restored bytes.
LEMMA RestoreVerifyStep ==
  ASSUME StoreInv, RestoreVerify
  PROVE  StoreInv'
<1> USE FileFacts DEF StoreInv, ControlInv, LoadSteps, RestoreSteps, WriteSteps, CopySteps, Ops
<1>0. /\ pc = "rsVerify"
      /\ faults' \in 0 .. MaxFaults
      /\ UNCHANGED <<disk, op, src, dst, orig, text, preserved, todo, inforce, consented>>
      /\ (pc' = (IF op = "probe" THEN "drop" ELSE "reread") /\ disk[Target] = orig) \/ pc' = RestoreFailed
      /\ (op = "load" /\ RestoreFailed = "freshOffer") \/ RestoreFailed = "off"
  BY StoreAssumption DEF RestoreVerify, RestoreDone, RestoreFailed, LoadFailed, copyArgs, ghosts, Spend, TypeOK
<1>1. TypeOK'  BY <1>0 DEF TypeOK, Labels
<1>2. ControlInv'  BY <1>0 DEF ControlInv
<1>3. CopyInv'  BY <1>0 DEF CopyInv, Exists, Target, Rollback
<1>4. KeptInv'  BY <1>0 DEF KeptInv, TypeOK, Archived, LoadInv, EditInv, FirstInv
<1>5. LoadInv'  BY <1>0 DEF LoadInv, Exists, Usable
<1>6. FreshInv'  BY <1>0 DEF FreshInv, Exists
<1>7. EditInv'  BY <1>0 DEF EditInv, EditIsAllOrRecoverable, Exists, Usable, TypeOK
<1>8. FirstInv'  BY <1>0 DEF FirstInv, Archived, Exists, TypeOK
<1>9. ReportInv'  BY <1>0 DEF ReportInv, ReportKept, TypeOK, Exists, Target, Rollback
<1> QED BY <1>1, <1>2, <1>3, <1>4, <1>5, <1>6, <1>7, <1>8, <1>9

\* Only a stale temporary file is removed.
LEMMA TempBeginStep ==
  ASSUME StoreInv, TempBegin
  PROVE  StoreInv'
<1> USE FileFacts DEF StoreInv, ControlInv, LoadSteps, RestoreSteps, WriteSteps, CopySteps, Ops
<1>0. /\ pc = "wBegin" /\ preserved' = FALSE
      /\ faults' \in 0 .. MaxFaults
      /\ UNCHANGED <<op, src, dst, orig, text, todo, inforce, consented>>
      /\ disk' \in [Files -> Content \cup {Absent}]
      /\ \A g \in Files : g # Temp => disk'[g] = disk[g]
      /\ pc' = "off" \/ (pc' = "wWrite" /\ ~(IF op = "first" THEN Exists(Target) ELSE Exists(Rollback)))
  BY StoreAssumption, DeletingFrame DEF TempBegin, copyArgs, ghosts, Spend, TypeOK
<1>1. TypeOK'  BY <1>0 DEF TypeOK, Labels
<1>2. ControlInv'  BY <1>0 DEF ControlInv
<1>3. CopyInv'  BY <1>0 DEF CopyInv, Exists, Target, Rollback
<1>4. KeptInv'  BY <1>0 DEF KeptInv, TypeOK, Archived, LoadInv, EditInv, FirstInv
<1>5. LoadInv'  BY <1>0 DEF LoadInv, Exists, Usable
<1>6. FreshInv'  BY <1>0 DEF FreshInv, Exists
<1>7. EditInv'  BY <1>0 DEF EditInv, EditIsAllOrRecoverable, Exists, Usable, TypeOK
<1>8. FirstInv'  BY <1>0 DEF FirstInv, Archived, Exists, TypeOK
<1>9. ReportInv'  BY <1>0 DEF ReportInv, ReportKept, TypeOK, Exists, Target, Rollback
<1> QED BY <1>1, <1>2, <1>3, <1>4, <1>5, <1>6, <1>7, <1>8, <1>9

\* Only the temporary file is written.
LEMMA TempWriteStep ==
  ASSUME StoreInv, TempWrite
  PROVE  StoreInv'
<1> USE FileFacts DEF StoreInv, ControlInv, LoadSteps, RestoreSteps, WriteSteps, CopySteps, Ops
<1>0. /\ pc = "wWrite"
      /\ faults' \in 0 .. MaxFaults
      /\ UNCHANGED <<op, src, dst, orig, text, preserved, todo, inforce, consented>>
      /\ disk' \in [Files -> Content \cup {Absent}]
      /\ \A g \in Files : g # Temp => disk'[g] = disk[g]
      /\ (pc' \in {"wVerify", "wDiscard"} /\ disk'[Temp] \in Content) \/ pc' = "off"
  BY WritingFrame DEF TempWrite, copyArgs, ghosts, TypeOK, EditInv, FirstInv, ReportInv
<1>1. TypeOK'  BY <1>0 DEF TypeOK, Labels
<1>2. ControlInv'  BY <1>0 DEF ControlInv
<1>3. CopyInv'  BY <1>0 DEF CopyInv, Exists, Target, Rollback
<1>4. KeptInv'  BY <1>0 DEF KeptInv, TypeOK, Archived, LoadInv, EditInv, FirstInv
<1>5. LoadInv'  BY <1>0 DEF LoadInv, Exists, Usable
<1>6. FreshInv'  BY <1>0 DEF FreshInv, Exists
<1>7. EditInv'  BY <1>0, StoreAssumption DEF EditInv, EditIsAllOrRecoverable, Exists, Usable, TypeOK
<1>8. FirstInv'  BY <1>0 DEF FirstInv, Archived, Exists, TypeOK
<1>9. ReportInv'  BY <1>0 DEF ReportInv, ReportKept, TypeOK, Exists, Target, Rollback
<1> QED BY <1>1, <1>2, <1>3, <1>4, <1>5, <1>6, <1>7, <1>8, <1>9

\* Only verified bytes go on, and an old target is copied first.
LEMMA TempVerifyStep ==
  ASSUME StoreInv, TempVerify
  PROVE  StoreInv'
<1> USE FileFacts DEF StoreInv, ControlInv, LoadSteps, RestoreSteps, WriteSteps, CopySteps, Ops
<1>0. /\ pc = "wVerify"
      /\ faults' \in 0 .. MaxFaults
      /\ UNCHANGED <<disk, op, orig, text, preserved, todo, inforce, consented>>
      /\ \/ pc' = "wDiscard" /\ UNCHANGED <<src, dst>>
         \/ /\ disk[Temp] = text /\ pc' = "wRename" /\ UNCHANGED <<src, dst>>
            /\ ~Exists(Target)
         \/ /\ disk[Temp] = text /\ pc' = "cpBegin" /\ src' = Target /\ dst' = Rollback
            /\ Exists(Target) /\ op # "first"
  BY StoreAssumption DEF TempVerify, ghosts, Spend, TypeOK
<1>1. TypeOK'  BY <1>0 DEF TypeOK, Labels
<1>2. ControlInv'  BY <1>0 DEF ControlInv
<1>3. CopyInv'  BY <1>0 DEF CopyInv, Exists, Target, Rollback
<1>4. KeptInv'  BY <1>0 DEF KeptInv, TypeOK, Archived, LoadInv, EditInv, FirstInv
<1>5. LoadInv'  BY <1>0 DEF LoadInv, Exists, Usable
<1>6. FreshInv'  BY <1>0 DEF FreshInv, Exists
<1>7. EditInv'  BY <1>0, StoreAssumption DEF EditInv, EditIsAllOrRecoverable, Exists, Usable, TypeOK
<1>8. FirstInv'  BY <1>0 DEF FirstInv, Archived, Exists, TypeOK
<1>9. ReportInv'  BY <1>0 DEF ReportInv, ReportKept, TypeOK, Exists, Target, Rollback
<1> QED BY <1>1, <1>2, <1>3, <1>4, <1>5, <1>6, <1>7, <1>8, <1>9

\* The old target goes once its copy is verified.
LEMMA TargetDeleteStep ==
  ASSUME StoreInv, TargetDelete
  PROVE  StoreInv'
<1> USE FileFacts DEF StoreInv, ControlInv, LoadSteps, RestoreSteps, WriteSteps, CopySteps, Ops
<1>0. /\ pc = "wTarget" /\ preserved' = TRUE
      /\ faults' \in 0 .. MaxFaults
      /\ UNCHANGED <<op, src, dst, orig, text, todo, inforce, consented>>
      /\ disk' \in [Files -> Content \cup {Absent}]
      /\ \A g \in Files : g # Target => disk'[g] = disk[g]
      /\ disk'[Target] \in {disk[Target], Absent}
      /\ pc' = "wDiscard" \/ (pc' = "wRename" /\ disk'[Target] = Absent)
  BY DeletingFrame DEF TargetDelete, copyArgs, ghosts
<1>1. TypeOK'  BY <1>0 DEF TypeOK, Labels
<1>2. ControlInv'  BY <1>0 DEF ControlInv
<1>3. CopyInv'  BY <1>0 DEF CopyInv, Exists, Target, Rollback
<1>4. KeptInv'  BY <1>0 DEF KeptInv, TypeOK, Archived, LoadInv, EditInv, FirstInv
<1>5. LoadInv'  BY <1>0 DEF LoadInv, Exists, Usable
<1>6. FreshInv'  BY <1>0 DEF FreshInv, Exists
<1>7. EditInv'  BY <1>0 DEF EditInv, EditIsAllOrRecoverable, Exists, Usable, TypeOK
<1>8. FirstInv'  BY <1>0 DEF FirstInv, Archived, Exists, TypeOK
<1>9. ReportInv'  BY <1>0 DEF ReportInv, ReportKept, TypeOK, Exists, Target, Rollback
<1> QED BY <1>1, <1>2, <1>3, <1>4, <1>5, <1>6, <1>7, <1>8, <1>9

\* The temporary file becomes the target.
LEMMA RenameStep ==
  ASSUME StoreInv, Rename
  PROVE  StoreInv'
<1> USE FileFacts DEF StoreInv, ControlInv, LoadSteps, RestoreSteps, WriteSteps, CopySteps, Ops
<1>0. /\ pc = "wRename"
      /\ faults' \in 0 .. MaxFaults
      /\ UNCHANGED <<op, src, dst, orig, text, preserved, todo, inforce, consented>>
      /\ disk' \in {disk, Renamed}
      /\ \/ pc' = "check" /\ disk' = Renamed
         \/ pc' \in {"wDiscard", IF op = "probe" /\ preserved THEN "rsRead" ELSE "off"}
  BY StoreAssumption DEF Rename, WriteFailed, copyArgs, ghosts, Spend, TypeOK
<1>1. TypeOK'  BY <1>0, RenamedFrame DEF TypeOK, Labels
<1>2. ControlInv'  BY <1>0 DEF ControlInv
<1>3. CopyInv'  BY <1>0 DEF CopyInv, Exists, Target, Rollback
<1>4. KeptInv'
  <2>1. \A f \in Files : Archived(f) => Archived(f)' /\ disk'[f] = disk[f]
    BY <1>0, RenamedFrame DEF Archived
  <2>2. CASE op = "probe"
    BY <1>0, <2>1, <2>2, RenamedFrame, ZenonT(30) DEF KeptInv
  <2>3. CASE op = "first"
    BY <1>0, <2>1, <2>3, RenamedFrame DEF KeptInv, FirstInv
  <2>4. CASE op = "edit"
    BY <1>0, <2>4, RenamedFrame DEF KeptInv, EditInv
  <2> QED BY <1>0, <2>2, <2>3, <2>4 DEF TypeOK
<1>5. LoadInv'  BY <1>0 DEF LoadInv, Exists, Usable
<1>6. FreshInv'  BY <1>0 DEF FreshInv, Exists
<1>7. EditInv'  BY <1>0, RenamedFrame DEF EditInv, EditIsAllOrRecoverable, Exists, Usable, TypeOK
<1>8. FirstInv'  BY <1>0, RenamedFrame DEF FirstInv, Archived, Exists, TypeOK
<1>9. ReportInv'  BY <1>0, RenamedFrame DEF ReportInv, ReportKept, TypeOK, Exists, Target, Rollback
<1> QED BY <1>1, <1>2, <1>3, <1>4, <1>5, <1>6, <1>7, <1>8, <1>9

\* A discarded temporary file is not the target, or the target is still recoverable.
LEMMA TempDiscardStep ==
  ASSUME StoreInv, TempDiscard
  PROVE  StoreInv'
<1> USE FileFacts DEF StoreInv, ControlInv, LoadSteps, RestoreSteps, WriteSteps, CopySteps, Ops
<1>0. /\ pc = "wDiscard"
      /\ faults' \in 0 .. MaxFaults
      /\ UNCHANGED <<op, src, dst, orig, text, preserved, todo, inforce, consented>>
      /\ disk' \in [Files -> Content \cup {Absent}]
      /\ \A g \in Files : g # Handle => disk'[g] = disk[g]
      /\ disk'[Handle] \in {disk[Handle], Absent}
      /\ Handle = Temp \/ (Handle = Target /\ ~Exists(Temp))
      /\ pc' = (IF op = "probe" /\ preserved THEN "rsRead" ELSE "off")
  BY DeletingFrame DEF TempDiscard, WriteFailed, Handle, copyArgs, ghosts
<1>1. TypeOK'  BY <1>0 DEF TypeOK, Labels
<1>2. ControlInv'  BY <1>0 DEF ControlInv
<1>3. CopyInv'  BY <1>0 DEF CopyInv, Exists, Target, Rollback
<1>4. KeptInv'
  <2>1. \A f \in Files : Archived(f) => Archived(f)' /\ disk'[f] = disk[f]
    BY <1>0 DEF Archived
  <2>2. CASE op = "probe"
    BY <1>0, <2>1, <2>2 DEF KeptInv
  <2>3. CASE op = "first"
    BY <1>0, <2>1, <2>3 DEF KeptInv, FirstInv
  <2>4. CASE op = "edit"
    BY <1>0, <2>4, StoreAssumption DEF KeptInv, EditInv, Exists
  <2> QED BY <1>0, <2>2, <2>3, <2>4 DEF TypeOK
<1>5. LoadInv'  BY <1>0 DEF LoadInv, Exists, Usable
<1>6. FreshInv'  BY <1>0 DEF FreshInv, Exists
<1>7. EditInv'  BY <1>0 DEF EditInv, EditIsAllOrRecoverable, Exists, Usable, TypeOK
<1>8. FirstInv'  BY <1>0 DEF FirstInv, Archived, Exists, TypeOK
<1>9. ReportInv'  BY <1>0 DEF ReportInv, ReportKept, TypeOK, Exists, Target, Rollback
<1> QED BY <1>1, <1>2, <1>3, <1>4, <1>5, <1>6, <1>7, <1>8, <1>9

\* A confirmed setup has bytes to save.
LEMMA SetupStep ==
  ASSUME StoreInv, Setup
  PROVE  StoreInv'
<1> USE FileFacts DEF StoreInv, ControlInv, LoadSteps, RestoreSteps, WriteSteps, CopySteps, Ops
<1>0. /\ pc = "setup"
      /\ UNCHANGED <<disk, src, dst, orig, preserved, todo, inforce, consented>>
      /\ UNCHANGED faults
      /\ \/ pc' = "wBegin" /\ op' \in {"first", "probe"} /\ text' \in Content
         \/ pc' = "off" /\ UNCHANGED <<op, text>>
  BY DEF Setup, NewSettings, NewReport, Content, Modes, copyArgs, ghosts
<1>1. TypeOK'  BY <1>0 DEF TypeOK, Labels
<1>2. ControlInv'  BY <1>0 DEF ControlInv
<1>3. CopyInv'  BY <1>0 DEF CopyInv, Exists, Target, Rollback
<1>4. KeptInv'  BY <1>0 DEF KeptInv, TypeOK, Archived, LoadInv, EditInv, FirstInv
<1>5. LoadInv'  BY <1>0 DEF LoadInv, Exists, Usable
<1>6. FreshInv'  BY <1>0 DEF FreshInv, Exists
<1>7. EditInv'  BY <1>0 DEF EditInv, EditIsAllOrRecoverable, Exists, Usable, TypeOK
<1>8. FirstInv'  BY <1>0 DEF FirstInv, Archived, Exists, TypeOK, KeptInv, LoadInv, ConfigNames, Ini, Previous, Tmp
<1>9. ReportInv'  BY <1>0 DEF ReportInv, ReportKept, TypeOK, Exists, Target, Rollback
<1> QED BY <1>1, <1>2, <1>3, <1>4, <1>5, <1>6, <1>7, <1>8, <1>9

\* An edit or a report starts from the loaded settings.
LEMMA ReadyStep ==
  ASSUME StoreInv, Ready
  PROVE  StoreInv'
<1> USE FileFacts DEF StoreInv, ControlInv, LoadSteps, RestoreSteps, WriteSteps, CopySteps, Ops
<1>0. /\ pc = "ready"
      /\ UNCHANGED <<disk, src, dst, orig, preserved, todo, inforce, consented>>
      /\ UNCHANGED faults
      /\ \/ pc' = "edRotate" /\ op' = "edit" /\ text' \in Content
         \/ pc' = "wBegin" /\ op' = "probe" /\ text' \in Content /\ disk[Ini].mode = "probe"
         \/ pc' = "off" /\ UNCHANGED <<op, text>>
  BY DEF Ready, NewSettings, NewReport, Content, Modes, copyArgs, ghosts
<1>1. TypeOK'  BY <1>0 DEF TypeOK, Labels
<1>2. ControlInv'  BY <1>0 DEF ControlInv
<1>3. CopyInv'  BY <1>0 DEF CopyInv, Exists, Target, Rollback
<1>4. KeptInv'  BY <1>0 DEF KeptInv, TypeOK, Archived, LoadInv, EditInv, FirstInv
<1>5. LoadInv'  BY <1>0 DEF LoadInv, Exists, Usable
<1>6. FreshInv'  BY <1>0 DEF FreshInv, Exists
<1>7. EditInv'  BY <1>0 DEF EditInv, EditIsAllOrRecoverable, Exists, Usable, TypeOK, LoadInv
<1>8. FirstInv'  BY <1>0 DEF FirstInv, Archived, Exists, TypeOK
<1>9. ReportInv'  BY <1>0 DEF ReportInv, ReportKept, TypeOK, Exists, Target, Rollback, LoadInv, Accepted
<1> QED BY <1>1, <1>2, <1>3, <1>4, <1>5, <1>6, <1>7, <1>8, <1>9

\* Only the older recovery copy is removed.
LEMMA RotatePreviousStep ==
  ASSUME StoreInv, RotatePrevious
  PROVE  StoreInv'
<1> USE FileFacts DEF StoreInv, ControlInv, LoadSteps, RestoreSteps, WriteSteps, CopySteps, Ops
<1>0. /\ pc = "edRotate"
      /\ faults' \in 0 .. MaxFaults
      /\ UNCHANGED <<op, src, dst, orig, text, preserved, todo, inforce, consented>>
      /\ disk' \in [Files -> Content \cup {Absent}]
      /\ \A g \in Files : g # Previous => disk'[g] = disk[g]
      /\ pc' \in {"wBegin", "off"}
  BY StoreAssumption, DeletingFrame DEF RotatePrevious, copyArgs, ghosts, Spend, TypeOK
<1>1. TypeOK'  BY <1>0 DEF TypeOK, Labels
<1>2. ControlInv'  BY <1>0 DEF ControlInv
<1>3. CopyInv'  BY <1>0 DEF CopyInv, Exists, Target, Rollback
<1>4. KeptInv'  BY <1>0 DEF KeptInv, TypeOK, Archived, LoadInv, EditInv, FirstInv
<1>5. LoadInv'  BY <1>0 DEF LoadInv, Exists, Usable
<1>6. FreshInv'  BY <1>0 DEF FreshInv, Exists
<1>7. EditInv'  BY <1>0 DEF EditInv, EditIsAllOrRecoverable, Exists, Usable, TypeOK
<1>8. FirstInv'  BY <1>0 DEF FirstInv, Archived, Exists, TypeOK
<1>9. ReportInv'  BY <1>0 DEF ReportInv, ReportKept, TypeOK, Exists, Target, Rollback
<1> QED BY <1>1, <1>2, <1>3, <1>4, <1>5, <1>6, <1>7, <1>8, <1>9

\* A save is acknowledged only with the confirmed bytes in place.
LEMMA CheckStep ==
  ASSUME StoreInv, Check
  PROVE  StoreInv'
<1> USE FileFacts DEF StoreInv, ControlInv, LoadSteps, RestoreSteps, WriteSteps, CopySteps, Ops
<1>0. /\ pc = "check"
      /\ faults' \in 0 .. MaxFaults
      /\ UNCHANGED <<disk, op, src, dst, orig, text, preserved, todo, inforce, consented>>
      /\ (pc' = Checked /\ disk[Target] = text) \/ pc' = CheckFailed
      /\ op = "edit" => Checked = "saved" /\ CheckFailed = "off"
      /\ op = "first" => Checked = "nested" /\ CheckFailed = "undo"
      /\ op = "probe" => /\ Checked = (IF preserved THEN "dropOk" ELSE "saved")
                         /\ CheckFailed = (IF preserved THEN "rsRead" ELSE "undo")
  BY StoreAssumption DEF Check, Checked, CheckFailed, copyArgs, ghosts, Spend, TypeOK
<1>1. TypeOK'  BY <1>0 DEF TypeOK, Labels
<1>2. ControlInv'  BY <1>0 DEF ControlInv
<1>3. CopyInv'  BY <1>0 DEF CopyInv, Exists, Target, Rollback, TypeOK
<1>4. KeptInv'  BY <1>0 DEF KeptInv, TypeOK, Archived, LoadInv, EditInv, FirstInv
<1>5. LoadInv'  BY <1>0 DEF LoadInv, Exists, Usable, TypeOK
<1>6. FreshInv'  BY <1>0 DEF FreshInv, Exists
<1>7. EditInv'  BY <1>0 DEF EditInv, EditIsAllOrRecoverable, Exists, Usable, TypeOK
<1>8. FirstInv'  BY <1>0 DEF FirstInv, Archived, Exists, TypeOK
<1>9. ReportInv'  BY <1>0 DEF ReportInv, ReportKept, TypeOK, Exists, Target, Rollback
<1> QED BY <1>1, <1>2, <1>3, <1>4, <1>5, <1>6, <1>7, <1>8, <1>9

\* The recovery copy is made of the new file.
LEMMA NestedLoadStep ==
  ASSUME StoreInv, NestedLoad
  PROVE  StoreInv'
<1> USE FileFacts DEF StoreInv, ControlInv, LoadSteps, RestoreSteps, WriteSteps, CopySteps, Ops
<1>0. /\ pc = "nested"
      /\ faults' \in 0 .. MaxFaults
      /\ UNCHANGED <<disk, op, orig, text, preserved, todo, inforce, consented>>
      /\ \/ pc' = "cpBegin" /\ src' = Ini /\ dst' = Previous /\ Exists(Ini)
         \/ pc' = "undo" /\ UNCHANGED <<src, dst>>
  BY StoreAssumption DEF NestedLoad, Usable, ghosts, Spend, TypeOK
<1>1. TypeOK'  BY <1>0 DEF TypeOK, Labels
<1>2. ControlInv'  BY <1>0 DEF ControlInv
<1>3. CopyInv'  BY <1>0 DEF CopyInv, Exists, Target, Rollback
<1>4. KeptInv'  BY <1>0 DEF KeptInv, TypeOK, Archived, LoadInv, EditInv, FirstInv
<1>5. LoadInv'  BY <1>0 DEF LoadInv, Exists, Usable
<1>6. FreshInv'  BY <1>0 DEF FreshInv, Exists
<1>7. EditInv'  BY <1>0 DEF EditInv, EditIsAllOrRecoverable, Exists, Usable, TypeOK
<1>8. FirstInv'  BY <1>0 DEF FirstInv, Archived, Exists, TypeOK
<1>9. ReportInv'  BY <1>0 DEF ReportInv, ReportKept, TypeOK, Exists, Target, Rollback
<1> QED BY <1>1, <1>2, <1>3, <1>4, <1>5, <1>6, <1>7, <1>8, <1>9

\* A file that did not verify is removed.
LEMMA UndoTargetStep ==
  ASSUME StoreInv, UndoTarget
  PROVE  StoreInv'
<1> USE FileFacts DEF StoreInv, ControlInv, LoadSteps, RestoreSteps, WriteSteps, CopySteps, Ops
<1>0. /\ pc = "undo" /\ pc' = "off"
      /\ faults' \in 0 .. MaxFaults
      /\ UNCHANGED <<op, src, dst, orig, text, preserved, todo, inforce, consented>>
      /\ disk' \in [Files -> Content \cup {Absent}]
      /\ \A g \in Files : g # Target => disk'[g] = disk[g]
  BY DeletingFrame DEF UndoTarget, copyArgs, ghosts
<1>1. TypeOK'  BY <1>0 DEF TypeOK, Labels
<1>2. ControlInv'  BY <1>0 DEF ControlInv
<1>3. CopyInv'  BY <1>0 DEF CopyInv, Exists, Target, Rollback
<1>4. KeptInv'  BY <1>0 DEF KeptInv, TypeOK, Archived, LoadInv, EditInv, FirstInv
<1>5. LoadInv'  BY <1>0 DEF LoadInv, Exists, Usable
<1>6. FreshInv'  BY <1>0 DEF FreshInv, Exists
<1>7. EditInv'  BY <1>0 DEF EditInv, EditIsAllOrRecoverable, Exists, Usable, TypeOK
<1>8. FirstInv'  BY <1>0 DEF FirstInv, Archived, Exists, TypeOK
<1>9. ReportInv'  BY <1>0 DEF ReportInv, ReportKept, TypeOK, Exists, Target, Rollback
<1> QED BY <1>1, <1>2, <1>3, <1>4, <1>5, <1>6, <1>7, <1>8, <1>9

\* The rollback of a report goes last.
LEMMA DropRollbackStep ==
  ASSUME StoreInv, DropRollback
  PROVE  StoreInv'
<1> USE FileFacts DEF StoreInv, ControlInv, LoadSteps, RestoreSteps, WriteSteps, CopySteps, Ops
<1>0. /\ pc \in {"drop", "dropOk"}
      /\ faults' \in 0 .. MaxFaults
      /\ UNCHANGED <<op, src, dst, orig, text, preserved, todo, inforce, consented>>
      /\ disk' \in [Files -> Content \cup {Absent}]
      /\ \A g \in Files : g # Rollback => disk'[g] = disk[g]
      /\ pc' = "off" \/ (pc = "dropOk" /\ pc' = "saved" /\ disk'[Rollback] = Absent)
  BY DeletingFrame DEF DropRollback, copyArgs, ghosts
<1>1. TypeOK'  BY <1>0 DEF TypeOK, Labels
<1>2. ControlInv'  BY <1>0 DEF ControlInv
<1>3. CopyInv'  BY <1>0 DEF CopyInv, Exists, Target, Rollback
<1>4. KeptInv'  BY <1>0 DEF KeptInv, TypeOK, Archived, LoadInv, EditInv, FirstInv
<1>5. LoadInv'  BY <1>0 DEF LoadInv, Exists, Usable
<1>6. FreshInv'  BY <1>0 DEF FreshInv, Exists
<1>7. EditInv'  BY <1>0 DEF EditInv, EditIsAllOrRecoverable, Exists, Usable, TypeOK
<1>8. FirstInv'  BY <1>0 DEF FirstInv, Archived, Exists, TypeOK
<1>9. ReportInv'  BY <1>0 DEF ReportInv, ReportKept, TypeOK, Exists, Target, Rollback
<1> QED BY <1>1, <1>2, <1>3, <1>4, <1>5, <1>6, <1>7, <1>8, <1>9

\* Saved settings are loaded again.
LEMMA AfterSaveStep ==
  ASSUME StoreInv, AfterSave
  PROVE  StoreInv'
<1> USE FileFacts DEF StoreInv, ControlInv, LoadSteps, RestoreSteps, WriteSteps, CopySteps, Ops
<1>0. /\ pc = "saved"
      /\ UNCHANGED <<disk, src, dst, orig, text, preserved, todo, inforce, consented>>
      /\ UNCHANGED faults
      /\ \/ op = "probe" /\ pc' = "off" /\ op' = op
         \/ op # "probe" /\ pc' = "load" /\ op' = "reload"
  BY DEF AfterSave, copyArgs, ghosts
<1>1. TypeOK'  BY <1>0 DEF TypeOK, Labels
<1>2. ControlInv'  BY <1>0 DEF ControlInv
<1>3. CopyInv'  BY <1>0 DEF CopyInv, Exists, Target, Rollback
<1>4. KeptInv'  BY <1>0 DEF KeptInv, TypeOK, Archived, LoadInv, EditInv, FirstInv
<1>5. LoadInv'  BY <1>0 DEF LoadInv, Exists, Usable
<1>6. FreshInv'  BY <1>0 DEF FreshInv, Exists
<1>7. EditInv'  BY <1>0 DEF EditInv, EditIsAllOrRecoverable, Exists, Usable, TypeOK
<1>8. FirstInv'  BY <1>0 DEF FirstInv, Archived, Exists, TypeOK
<1>9. ReportInv'  BY <1>0 DEF ReportInv, ReportKept, TypeOK, Exists, Target, Rollback
<1> QED BY <1>1, <1>2, <1>3, <1>4, <1>5, <1>6, <1>7, <1>8, <1>9

\* Losing power at any step loses nothing on disk.
LEMMA PowerCutStep ==
  ASSUME StoreInv, PowerCut
  PROVE  StoreInv'
<1> USE FileFacts DEF StoreInv, ControlInv, LoadSteps, RestoreSteps, WriteSteps, CopySteps, Ops
<1>0. /\ pc' = "off"
      /\ faults' \in 0 .. MaxFaults
      /\ UNCHANGED <<disk, op, src, dst, orig, text, preserved, todo, inforce, consented>>
  BY StoreAssumption DEF PowerCut, copyArgs, ghosts, Spend, TypeOK
<1>1. TypeOK'  BY <1>0 DEF TypeOK, Labels
<1>2. ControlInv'  BY <1>0 DEF ControlInv
<1>3. CopyInv'  BY <1>0 DEF CopyInv, Exists, Target, Rollback
<1>4. KeptInv'  BY <1>0 DEF KeptInv, TypeOK, Archived, LoadInv, EditInv, FirstInv
<1>5. LoadInv'  BY <1>0 DEF LoadInv, Exists, Usable
<1>6. FreshInv'  BY <1>0 DEF FreshInv, Exists
<1>7. EditInv'  BY <1>0 DEF EditInv, EditIsAllOrRecoverable, Exists, Usable, TypeOK
<1>8. FirstInv'  BY <1>0 DEF FirstInv, Archived, Exists, TypeOK
<1>9. ReportInv'  BY <1>0 DEF ReportInv, ReportKept, TypeOK, Exists, Target, Rollback
<1> QED BY <1>1, <1>2, <1>3, <1>4, <1>5, <1>6, <1>7, <1>8, <1>9

-----------------------------------------------------------------------------
(* The theorems.                                                           *)

\* The invariant holds in every reachable state.
THEOREM StoreInvariant == Spec => []StoreInv
<1>1. Init => StoreInv
  <2> SUFFICES ASSUME Init PROVE StoreInv
    OBVIOUS
  <2>1. disk \in [Files -> Content \cup {Absent}]
    BY StoreAssumption DEF Init, Content, Modes
  <2>2. TypeOK
    <3>1. preserved \in BOOLEAN /\ consented \in BOOLEAN
      BY Zenon DEF Init
    <3> QED BY <2>1, <3>1, StoreAssumption, FileFacts DEF Init, TypeOK, Labels, Ops
  <2> QED BY <2>2 DEF Init, StoreInv, ControlInv, CopyInv, KeptInv, LoadInv, FreshInv,
          EditInv, FirstInv, ReportInv, ReportKept, CopySteps, RestoreSteps
<1>2. StoreInv /\ [Next]_vars => StoreInv'
  <2> SUFFICES ASSUME StoreInv, [Next]_vars PROVE StoreInv'
    OBVIOUS
  <2>1. CASE Next
    BY <2>1, StartStep, ConfigLoadRecoverableStep, OfferRecoveryStep, RereadStep,
     ConfigOfferFreshSetupStep, PreserveNextStep, PreserveDoneStep,
     PurgeStep, CopyBeginStep, CopyWriteStep, CopyVerifyStep, CopyUndoStep,
     RestoreReadStep, RestoreDeleteStep, RestoreWriteStep,
     RestoreVerifyStep, TempBeginStep, TempWriteStep, TempVerifyStep,
     TargetDeleteStep, RenameStep, TempDiscardStep, SetupStep, ReadyStep,
     RotatePreviousStep, CheckStep, NestedLoadStep, UndoTargetStep,
     DropRollbackStep, AfterSaveStep, PowerCutStep
     DEF Next, AppStep, UserStep
  <2>2. CASE UNCHANGED vars
    BY <2>2 DEF vars, StoreInv, TypeOK, ControlInv, CopyInv, KeptInv, Archived, LoadInv,
       Accepted, Usable, Exists, FreshInv, EditInv, EditIsAllOrRecoverable, FirstInv,
       ReportInv, ReportKept, Target, Rollback
  <2> QED BY <2>1, <2>2
<1> QED BY <1>1, <1>2, PTL DEF Spec

\* Every variable keeps its type: the archive numbers, the fault budget and
\* the operands of every copy, restore and rename stay in range.
THEOREM TypeCorrect == Spec => []TypeOK
<1>1. StoreInv => TypeOK
  BY DEF StoreInv
<1> QED BY <1>1, StoreInvariant, PTL

\* Whatever fails, and wherever power is lost, the settings last in force are
\* in Config.ini, in a recovery file or, after F2 and Y, in an archive.
THEOREM SettingsSafe == Spec => []SettingsKept
<1>1. StoreInv => SettingsKept
  <2> SUFFICES ASSUME StoreInv PROVE SettingsKept
    OBVIOUS
  <2>1. \A f \in Files : Archived(f) =>
          f[1] \in ConfigNames /\ f[2] \in 1 .. MaxArchive /\ f = <<f[1], f[2]>>
    BY StoreAssumption DEF Archived, Files
  <2> QED BY <2>1 DEF StoreInv, KeptInv, SettingsKept
<1> QED BY <1>1, StoreInvariant, PTL

\* An edit that failed or was cut off left the old or the new Config.ini
\* complete, or the old settings in Config.ini.previous.
THEOREM EditSafe == Spec => []EditIsAllOrRecoverable
<1>1. StoreInv => EditIsAllOrRecoverable
  BY DEF StoreInv, EditInv, EditIsAllOrRecoverable
<1> QED BY <1>1, StoreInvariant, PTL

\* The save message is shown only with the confirmed bytes in Config.ini and
\* the promised recovery copy in Config.ini.previous.
THEOREM SaveSafe == Spec => []SaveAcknowledged
<1>1. StoreInv => SaveAcknowledged
  BY FileFacts DEF StoreInv, TypeOK, Ops, ControlInv, LoadSteps, RestoreSteps, CopySteps,
     EditInv, FirstInv, ReportInv, SaveAcknowledged
<1> QED BY <1>1, StoreInvariant, PTL

\* First-run setup is entered only when no settings file exists, and its new
\* file is re-read with no recovery file beside it.
THEOREM FirstRunSafe == Spec => []FirstRunOnlyWhenEmpty
<1>1. StoreInv => FirstRunOnlyWhenEmpty
  BY DEF StoreInv, TypeOK, Ops, ControlInv, LoadSteps, RestoreSteps, WriteSteps, CopySteps,
     LoadInv, FirstInv, FirstRunOnlyWhenEmpty
<1> QED BY <1>1, StoreInvariant, PTL

\* Replacing Probe.ini keeps the earlier report until the new one is in place.
THEOREM ReportSafe == Spec => []ReportKept
<1>1. StoreInv => ReportKept
  BY DEF StoreInv, ReportInv, ReportKept
<1> QED BY <1>1, StoreInvariant, PTL

-----------------------------------------------------------------------------
(* What a step may do to a file.                                           *)

\* Only these steps change a file, and only these files.
LEMMA WhatChanges ==
  ASSUME StoreInv, Next, NEW f \in Files, disk'[f] # disk[f]
  PROVE  \/ pc \in {"cpWrite", "cpUndo"} /\ f = dst
         \/ pc = "purge" /\ f \in {Ini, Previous, Tmp}
         \/ pc = "edRotate" /\ f = Previous
         \/ /\ pc \in {"rsDelete", "rsWrite", "wBegin", "wWrite", "wTarget", "wRename",
                       "wDiscard", "undo", "drop", "dropOk"}
            /\ f \in {Target, Temp, Rollback}
<1> USE FileFacts DEF StoreInv
<1>1. CASE CopyWrite
  BY <1>1, WritingFrame DEF CopyWrite, CopyInv, CopySteps, Exists, TypeOK
<1>2. CASE CopyUndo
  BY <1>2, DeletingFrame DEF CopyUndo, TypeOK
<1>3. CASE Purge
  <2>1. CASE UNCHANGED disk
    BY <2>1
  <2>2. CASE \E n \in ConfigNames : Deleting(<<n, 0>>, "purge", "off")
    <3>1. PICK n \in ConfigNames : Deleting(<<n, 0>>, "purge", "off")
      BY <2>2
    <3>2. <<n, 0>> \in Files
      OBVIOUS
    <3> QED BY <1>3, <3>1, <3>2, DeletingFrame DEF Purge
  <2> QED BY <1>3, <2>1, <2>2 DEF Purge
<1>4. CASE RotatePrevious
  BY <1>4, DeletingFrame DEF RotatePrevious
<1>5. CASE RestoreDelete \/ TargetDelete \/ UndoTarget \/ DropRollback
  BY <1>5, DeletingFrame DEF RestoreDelete, TargetDelete, UndoTarget, DropRollback
<1>6. CASE RestoreWrite
  BY <1>6, WritingFrame DEF RestoreWrite, TypeOK, LoadInv, ReportInv, RestoreSteps, Exists
<1>7. CASE TempBegin
  BY <1>7, DeletingFrame DEF TempBegin
<1>8. CASE TempWrite
  BY <1>8, WritingFrame DEF TempWrite, TypeOK, Ops, ControlInv, LoadSteps, RestoreSteps,
     CopySteps, EditInv, FirstInv, ReportInv
<1>9. CASE Rename
  BY <1>9, RenamedFrame DEF Rename
<1>10. CASE TempDiscard
  BY <1>10, DeletingFrame DEF TempDiscard, Handle
<1>11. CASE UNCHANGED disk
  BY <1>11
<1> QED
  <2>1. \/ CopyWrite \/ CopyUndo \/ Purge \/ RotatePrevious \/ RestoreDelete
        \/ TargetDelete \/ UndoTarget \/ DropRollback \/ RestoreWrite \/ TempBegin
        \/ TempWrite \/ Rename \/ TempDiscard \/ UNCHANGED disk
    BY DEF Next, AppStep, UserStep, Start, ConfigLoadRecoverable, OfferRecovery, Reread,
       ConfigOfferFreshSetup, PreserveNext, PreserveDone, CopyBegin, CopyVerify, RestoreRead,
       RestoreVerify, TempVerify, Setup, Ready, Check, NestedLoad, AfterSave, PowerCut
  <2> QED BY <2>1, <1>1, <1>2, <1>3, <1>4, <1>5, <1>6, <1>7, <1>8, <1>9, <1>10, <1>11

\* A reset changes a settings file only when an archive has its bytes, and a
\* finished archive never changes.
THEOREM EvidenceSafe == Spec => EvidenceKept
<1> DEFINE Kept ==
      /\ \A n \in ConfigNames :
           op = "fresh" /\ Exists(<<n, 0>>) /\ disk'[<<n, 0>>] # disk[<<n, 0>>] =>
             \E i \in 1 .. MaxArchive : disk[<<n, i>>] = disk[<<n, 0>>]
      /\ \A f \in Files :
           f[2] > 0 /\ Exists(f) /\ disk'[f] # disk[f] => pc = "cpUndo" /\ dst = f
<1>1. StoreInv /\ [Next]_vars => [Kept]_vars
  <2> SUFFICES ASSUME StoreInv, Next PROVE Kept
    OBVIOUS
  <2> USE FileFacts DEF StoreInv
  <2>1. ASSUME NEW n \in ConfigNames, op = "fresh", Exists(<<n, 0>>),
               disk'[<<n, 0>>] # disk[<<n, 0>>]
        PROVE  \E i \in 1 .. MaxArchive : disk[<<n, i>>] = disk[<<n, 0>>]
    <3>1. <<n, 0>> \in Files
      OBVIOUS
    <3>2. pc = "purge"
      BY <2>1, <3>1, WhatChanges DEF ControlInv, CopyInv, CopySteps
    <3> QED BY <2>1, <3>2 DEF FreshInv, CopySteps
  <2>2. ASSUME NEW f \in Files, f[2] > 0, Exists(f), disk'[f] # disk[f]
        PROVE  pc = "cpUndo" /\ dst = f
    BY <2>2, WhatChanges DEF CopyInv, CopySteps
  <2> QED BY <2>1, <2>2
<1> QED BY <1>1, StoreInvariant, PTL DEF Spec, EvidenceKept

\* Writing, failing to write or rolling back Probe.ini changes no settings file.
THEOREM ReportLeaves == Spec => ReportLeavesSettings
<1>1. StoreInv /\ [Next]_vars =>
        [op = "probe" => \A n \in ConfigNames : disk'[<<n, 0>>] = disk[<<n, 0>>]]_vars
  <2> SUFFICES ASSUME StoreInv, Next, op = "probe", NEW n \in ConfigNames,
                      disk'[<<n, 0>>] # disk[<<n, 0>>]
               PROVE  FALSE
    OBVIOUS
  <2> USE FileFacts DEF StoreInv
  <2>1. <<n, 0>> \in Files
    OBVIOUS
  <2> QED BY <2>1, WhatChanges, ZenonT(30) DEF ControlInv, WriteSteps, RestoreSteps, CopySteps, CopyInv
<1> QED BY <1>1, StoreInvariant, PTL DEF Spec, ReportLeavesSettings

-----------------------------------------------------------------------------
(* Text: what NcvEncodeDiskDescription writes is what is read back.        *)

Characters == {Quote, Backslash, "x"} \cup UNION {Range(t) : t \in Texts \cup EditTexts}

\* A nonempty set of numbers has a least element.
LEMMA LeastOf ==
  ASSUME NEW S \in SUBSET Nat, S # {}
  PROVE  \E m \in S : \A k \in S : m <= k
<1>1. PICK m \in S : \A k \in S : ~(<<k, m>> \in OpToRel(<, Nat))
  BY NatLessThanWellFounded, WFMin, Zenon
<1>2. \A k \in S : ~(k < m)
  BY <1>1 DEF OpToRel
<1> QED BY <1>2

\* What PutEscaped has written after each character.
IsPutting(out, t, n) ==
  out = [k \in 0 .. n |-> IF k = 0 THEN << >> ELSE PutEscaped(out[k - 1], t[k])]

\* The function that Putting describes exists: the least length without one
\* would follow a length with one.
LEMMA PuttingExists ==
  ASSUME NEW t \in Seq(Characters)
  PROVE  IsPutting(Putting(t), t, Len(t))
<1> DEFINE Missing == {n \in 0 .. Len(t) : ~\E out : IsPutting(out, t, n)}
<1>1. Missing = {}
  <2> SUFFICES ASSUME Missing # {} PROVE FALSE
    OBVIOUS
  <2>0. Missing \in SUBSET Nat
    OBVIOUS
  <2>1. PICK n \in Missing : \A k \in Missing : n <= k
    <3> HIDE DEF Missing
    <3> QED BY <2>0, LeastOf
  <2>2. n # 0
    <3> DEFINE f == [k \in 0 .. 0 |-> << >>]
    <3>1. IsPutting(f, t, 0)
      BY DEF IsPutting
    <3> QED BY <2>1, <3>1
  <2>3. PICK f : IsPutting(f, t, n - 1)
    BY <2>1, <2>2
  <2> DEFINE g == [k \in 0 .. n |-> IF k = n THEN PutEscaped(f[n - 1], t[n]) ELSE f[k]]
  <2>4. \A k \in 0 .. n - 1 : f[k] = IF k = 0 THEN << >> ELSE PutEscaped(f[k - 1], t[k])
    BY <2>3 DEF IsPutting
  <2>5. \A k \in 0 .. n : g[k] = IF k = 0 THEN << >> ELSE PutEscaped(g[k - 1], t[k])
    BY <2>2, <2>4
  <2>6. IsPutting(g, t, n)
    BY <2>5 DEF IsPutting
  <2> QED BY <2>1, <2>6
<1>2. Len(t) \in 0 .. Len(t)
  OBVIOUS
<1>3. \E out : IsPutting(out, t, Len(t))
  BY <1>1, <1>2, Zenon
<1> QED BY <1>3 DEF IsPutting, Putting

\* Putting starts with nothing and puts one character at a time.
LEMMA PuttingSteps ==
  ASSUME NEW t \in Seq(Characters)
  PROVE  /\ Putting(t)[0] = << >>
         /\ \A k \in 1 .. Len(t) : Putting(t)[k] = PutEscaped(Putting(t)[k - 1], t[k])
<1> DEFINE W == Putting(t)
<1>1. W = [k \in 0 .. Len(t) |-> IF k = 0 THEN << >> ELSE PutEscaped(W[k - 1], t[k])]
  BY PuttingExists DEF IsPutting
<1>2. Len(t) \in Nat
  OBVIOUS
<1> HIDE DEF W
<1>3. \A k \in 0 .. Len(t) : W[k] = IF k = 0 THEN << >> ELSE PutEscaped(W[k - 1], t[k])
  BY <1>1
<1>4. W[0] = << >> /\ \A k \in 1 .. Len(t) : W[k] = PutEscaped(W[k - 1], t[k])
  BY <1>2, <1>3
<1> QED BY <1>4 DEF W

\* What has been read of a value in quotes.
IsReading(read, v, n) ==
  read = [k \in 0 .. n |-> IF k = 0 THEN [text |-> << >>, escaped |-> FALSE]
                           ELSE ReadChar(read[k - 1], v[k])]

\* The function that Reading describes exists, by the same argument.
LEMMA ReadingExists ==
  ASSUME NEW v \in Seq(Characters)
  PROVE  IsReading(Reading(v), v, Len(v))
<1> DEFINE Missing == {n \in 0 .. Len(v) : ~\E read : IsReading(read, v, n)}
           Nothing   == [text |-> << >>, escaped |-> FALSE]
<1>1. Missing = {}
  <2> SUFFICES ASSUME Missing # {} PROVE FALSE
    OBVIOUS
  <2>0. Missing \in SUBSET Nat
    OBVIOUS
  <2>1. PICK n \in Missing : \A k \in Missing : n <= k
    <3> HIDE DEF Missing
    <3> QED BY <2>0, LeastOf
  <2>2. n # 0
    <3> DEFINE f == [k \in 0 .. 0 |-> Nothing]
    <3>1. IsReading(f, v, 0)
      BY DEF IsReading
    <3> QED BY <2>1, <3>1
  <2>3. PICK f : IsReading(f, v, n - 1)
    BY <2>1, <2>2
  <2> DEFINE g == [k \in 0 .. n |-> IF k = n THEN ReadChar(f[n - 1], v[n]) ELSE f[k]]
  <2>4. \A k \in 0 .. n - 1 : f[k] = IF k = 0 THEN Nothing ELSE ReadChar(f[k - 1], v[k])
    BY <2>3 DEF IsReading
  <2>5. \A k \in 0 .. n : g[k] = IF k = 0 THEN Nothing ELSE ReadChar(g[k - 1], v[k])
    BY <2>2, <2>4
  <2>6. IsReading(g, v, n)
    BY <2>5 DEF IsReading
  <2> QED BY <2>1, <2>6
<1>2. Len(v) \in 0 .. Len(v)
  OBVIOUS
<1>3. \E read : IsReading(read, v, Len(v))
  BY <1>1, <1>2, Zenon
<1> QED BY <1>3 DEF IsReading, Reading

\* Reading starts with nothing and reads one character at a time.
LEMMA ReadingSteps ==
  ASSUME NEW v \in Seq(Characters)
  PROVE  /\ Reading(v)[0] = [text |-> << >>, escaped |-> FALSE]
         /\ \A k \in 1 .. Len(v) : Reading(v)[k] = ReadChar(Reading(v)[k - 1], v[k])
<1> DEFINE R == Reading(v)
           Nothing == [text |-> << >>, escaped |-> FALSE]
<1>1. R = [k \in 0 .. Len(v) |-> IF k = 0 THEN Nothing ELSE ReadChar(R[k - 1], v[k])]
  BY ReadingExists DEF IsReading
<1>2. Len(v) \in Nat
  OBVIOUS
<1> HIDE DEF R, Nothing
<1>3. \A k \in 0 .. Len(v) : R[k] = IF k = 0 THEN Nothing ELSE ReadChar(R[k - 1], v[k])
  BY <1>1
<1>4. R[0] = Nothing /\ \A k \in 1 .. Len(v) : R[k] = ReadChar(R[k - 1], v[k])
  BY <1>2, <1>3
<1> QED BY <1>4 DEF R, Nothing

\* PutEscaped adds one or two characters and changes none before them.
LEMMA PutEscapedFacts ==
  ASSUME NEW o \in Seq(Characters), NEW c \in Characters
  PROVE  /\ PutEscaped(o, c) \in Seq(Characters)
         /\ Len(PutEscaped(o, c)) = Len(o) + (IF c \in {Quote, Backslash} THEN 2 ELSE 1)
         /\ \A p \in 1 .. Len(o) : PutEscaped(o, c)[p] = o[p]
         /\ c \in {Quote, Backslash} => PutEscaped(o, c)[Len(o) + 1] = Backslash /\ PutEscaped(o, c)[Len(o) + 2] = c
         /\ c \notin {Quote, Backslash} => PutEscaped(o, c)[Len(o) + 1] = c
<1>1. Backslash \in Characters
  BY DEF Characters
<1>2. CASE c \in {Quote, Backslash}
  <2> DEFINE e == <<Backslash, c>>
  <2>1. e \in Seq(Characters) /\ Len(e) = 2 /\ e[1] = Backslash /\ e[2] = c
    BY <1>1
  <2>2. PutEscaped(o, c) = o \o e
    BY <1>2 DEF PutEscaped
  <2> HIDE DEF e
  <2>3. /\ o \o e \in Seq(Characters) /\ Len(o \o e) = Len(o) + Len(e)
        /\ \A i \in 1 .. Len(o) + Len(e) : (o \o e)[i] = IF i <= Len(o) THEN o[i] ELSE e[i - Len(o)]
    BY <2>1, ConcatProperties
  <2> DEFINE n == Len(o)
  <2>4. n \in Nat
    OBVIOUS
  <2> HIDE DEF n
  <2>5. \A p \in 1 .. n : (o \o e)[p] = o[p]
    BY <2>1, <2>3, <2>4 DEF n
  <2>6. (o \o e)[n + 1] = Backslash /\ (o \o e)[n + 2] = c
    BY <2>1, <2>3, <2>4 DEF n
  <2> QED BY <1>2, <2>1, <2>2, <2>3, <2>5, <2>6 DEF n
<1>3. CASE c \notin {Quote, Backslash}
  <2>1. PutEscaped(o, c) = Append(o, c)
    BY <1>3 DEF PutEscaped
  <2> QED BY <1>3, <2>1
<1> QED BY <1>2, <1>3

\* What PutEscaped writes is a text of the same alphabet.
LEMMA PuttingType ==
  ASSUME NEW t \in Seq(Characters)
  PROVE  \A k \in 0 .. Len(t) : Putting(t)[k] \in Seq(Characters)
<1> DEFINE W == Putting(t)
           Bad == {k \in 0 .. Len(t) : W[k] \notin Seq(Characters)}
<1>0. Bad \in SUBSET Nat /\ Len(t) \in Nat
  OBVIOUS
<1>1. W[0] = << >> /\ \A k \in 1 .. Len(t) : W[k] = PutEscaped(W[k - 1], t[k])
  BY PuttingSteps
<1> SUFFICES ASSUME Bad # {} PROVE FALSE
  OBVIOUS
<1>2. PICK k \in Bad : \A j \in Bad : k <= j
  <2> HIDE DEF Bad
  <2> QED BY <1>0, LeastOf
<1> HIDE DEF W
<1>3. W[k] \notin Seq(Characters) /\ k \in 0 .. Len(t)
  BY <1>2
<1>4. W[0] \in Seq(Characters)
  BY <1>1
<1>5. k \in 1 .. Len(t) /\ k - 1 \notin Bad
  BY <1>0, <1>2, <1>3, <1>4
<1>6. W[k - 1] \in Seq(Characters) /\ t[k] \in Characters
  BY <1>0, <1>5
<1>7. PutEscaped(W[k - 1], t[k]) \in Seq(Characters)
  BY <1>6, PutEscapedFacts
<1> QED BY <1>1, <1>3, <1>5, <1>7

\* What has been written is not changed again.
LEMMA PuttingGrows ==
  ASSUME NEW t \in Seq(Characters), NEW i \in 0 .. Len(t)
  PROVE  \A j \in i .. Len(t) :
           /\ Len(Putting(t)[i]) <= Len(Putting(t)[j])
           /\ \A p \in 1 .. Len(Putting(t)[i]) : Putting(t)[j][p] = Putting(t)[i][p]
<1> DEFINE W == Putting(t)
           n == Len(t)
           Holds(j) == Len(W[i]) <= Len(W[j]) /\ \A p \in 1 .. Len(W[i]) : W[j][p] = W[i][p]
           Bad == {j \in i .. n : ~Holds(j)}
<1>0. n \in Nat /\ i \in Nat
  OBVIOUS
<1>1. /\ \A k \in 1 .. n : W[k] = PutEscaped(W[k - 1], t[k]) /\ t[k] \in Characters
      /\ \A k \in 0 .. n : W[k] \in Seq(Characters)
  BY PuttingSteps, PuttingType
<1> HIDE DEF W, n
<1>2. \A k \in 1 .. n : /\ Len(W[k - 1]) <= Len(W[k])
                        /\ \A p \in 1 .. Len(W[k - 1]) : W[k][p] = W[k - 1][p]
  <2> SUFFICES ASSUME NEW k \in 1 .. n
               PROVE  /\ Len(W[k - 1]) <= Len(W[k])
                      /\ \A p \in 1 .. Len(W[k - 1]) : W[k][p] = W[k - 1][p]
    OBVIOUS
  <2>1. W[k - 1] \in Seq(Characters) /\ W[k] = PutEscaped(W[k - 1], t[k]) /\ t[k] \in Characters
    BY <1>0, <1>1
  <2> DEFINE o == W[k - 1]
             c == t[k]
  <2> HIDE DEF o, c
  <2>2. o \in Seq(Characters) /\ c \in Characters /\ W[k] = PutEscaped(o, c) /\ Len(o) \in Nat
    BY <2>1 DEF o, c
  <2>3. /\ Len(PutEscaped(o, c)) = Len(o) + (IF c \in {Quote, Backslash} THEN 2 ELSE 1)
        /\ \A p \in 1 .. Len(o) : PutEscaped(o, c)[p] = o[p]
    BY <2>2, PutEscapedFacts
  <2>4. Len(o) <= Len(W[k]) /\ \A p \in 1 .. Len(o) : W[k][p] = o[p]
    BY <2>2, <2>3
  <2> QED BY <2>4 DEF o
<1>3. \A k \in 0 .. n : Len(W[k]) \in Nat
  BY <1>1
<1> SUFFICES ASSUME Bad # {} PROVE FALSE
  BY DEF W, n
<1>4. PICK j \in Bad : \A k \in Bad : j <= k
  <2>1. Bad \in SUBSET Nat
    BY <1>0
  <2> HIDE DEF Bad
  <2> QED BY <2>1, LeastOf
<1>5. j \in i .. n /\ ~Holds(j)
  BY <1>4
<1>6. Holds(i)
  BY <1>0, <1>3 DEF n
<1>7. j - 1 \in i .. n /\ j \in 1 .. n /\ j - 1 \notin Bad
  <2> HIDE DEF Holds, Bad
  <2>1. j # i
    BY <1>5, <1>6
  <2> QED BY <1>0, <1>4, <1>5, <2>1
<1>8. Holds(j - 1)
  BY <1>7
<1> DEFINE a == Len(W[i])
           b == Len(W[j - 1])
           c == Len(W[j])
<1>9. a \in Nat /\ b \in Nat /\ c \in Nat
  BY <1>0, <1>3, <1>7 DEF n
<1>10. /\ a <= b /\ \A p \in 1 .. a : W[j - 1][p] = W[i][p]
       /\ b <= c /\ \A p \in 1 .. b : W[j][p] = W[j - 1][p]
  BY <1>2, <1>7, <1>8
<1>11. ~(a <= c /\ \A p \in 1 .. a : W[j][p] = W[i][p])
  BY <1>5
<1> HIDE DEF a, b, c
<1> QED BY <1>9, <1>10, <1>11

Special(char) == char \in {Quote, Backslash}

\* Where a character is in the text that Escaped makes.
LEMMA EscapedChar ==
  ASSUME NEW t \in Seq(Characters), NEW i \in 1 .. Len(t)
  PROVE  /\ Len(Putting(t)[i]) = Len(Putting(t)[i - 1]) + (IF Special(t[i]) THEN 2 ELSE 1)
         /\ Len(Putting(t)[i]) <= Len(Escaped(t))
         /\ Special(t[i]) => /\ Escaped(t)[Len(Putting(t)[i - 1]) + 1] = Backslash
                             /\ Escaped(t)[Len(Putting(t)[i - 1]) + 2] = t[i]
         /\ ~Special(t[i]) => Escaped(t)[Len(Putting(t)[i - 1]) + 1] = t[i]
<1> DEFINE W == Putting(t)
           a == Len(W[i - 1])
           b == Len(W[i])
<1>0. i - 1 \in 0 .. Len(t) /\ i \in 0 .. Len(t) /\ Len(t) \in i .. Len(t)
  OBVIOUS
<1>1. W[i] = PutEscaped(W[i - 1], t[i]) /\ W[i - 1] \in Seq(Characters) /\ t[i] \in Characters
  BY <1>0, PuttingSteps, PuttingType
<1>2. b <= Len(Escaped(t)) /\ \A p \in 1 .. b : Escaped(t)[p] = W[i][p]
  BY <1>0, PuttingGrows DEF Escaped
<1> HIDE DEF W
<1>3. a \in Nat
  BY <1>1
<1>4. /\ b = a + (IF Special(t[i]) THEN 2 ELSE 1)
      /\ Special(t[i]) => W[i][a + 1] = Backslash /\ W[i][a + 2] = t[i]
      /\ ~Special(t[i]) => W[i][a + 1] = t[i]
  <2> DEFINE o == W[i - 1]
             c == t[i]
  <2> HIDE DEF o, c
  <2>1. o \in Seq(Characters) /\ c \in Characters /\ W[i] = PutEscaped(o, c)
    BY <1>1 DEF o, c
  <2>2. /\ Len(PutEscaped(o, c)) = Len(o) + (IF c \in {Quote, Backslash} THEN 2 ELSE 1)
        /\ c \in {Quote, Backslash} =>
             PutEscaped(o, c)[Len(o) + 1] = Backslash /\ PutEscaped(o, c)[Len(o) + 2] = c
        /\ c \notin {Quote, Backslash} => PutEscaped(o, c)[Len(o) + 1] = c
    BY <2>1, PutEscapedFacts
  <2> QED BY <2>1, <2>2 DEF Special, o, c
<1> HIDE DEF a, b
<1>5. /\ Special(t[i]) => Escaped(t)[a + 1] = Backslash /\ Escaped(t)[a + 2] = t[i]
      /\ ~Special(t[i]) => Escaped(t)[a + 1] = t[i]
  BY <1>2, <1>3, <1>4
<1> QED BY <1>2, <1>4, <1>5 DEF a, b, W

EscapedRight(v, k) ==
  /\ Reading(v)[k - 1].escaped => Special(v[k])
  /\ v[k] = Quote => Reading(v)[k - 1].escaped

\* Reading what was written for the first characters gives them back.
ReadBackTo(t, i) ==
  /\ Reading(Escaped(t))[Len(Putting(t)[i])] = [text |-> SubSeq(t, 1, i), escaped |-> FALSE]
  /\ \A p \in 1 .. Len(Putting(t)[i]) : EscapedRight(Escaped(t), p)

\* A character that is escaped, or is no backslash, is read as it is.
LEMMA ReadCharFacts ==
  ASSUME NEW u, NEW c
  PROVE  /\ ReadChar([text |-> u, escaped |-> TRUE], c) = [text |-> Append(u, c), escaped |-> FALSE]
         /\ c # Backslash =>
              ReadChar([text |-> u, escaped |-> FALSE], c) = [text |-> Append(u, c), escaped |-> FALSE]
<1> DEFINE r == [text |-> u, escaped |-> TRUE]
           s == [text |-> u, escaped |-> FALSE]
<1>1. r.text = u /\ s.text = u /\ r.escaped = TRUE /\ s.escaped = FALSE
  OBVIOUS
<1> HIDE DEF r, s
<1>2. ReadChar(r, c) = [text |-> Append(r.text, c), escaped |-> FALSE]
  BY <1>1, Zenon DEF ReadChar
<1>3. c # Backslash => ReadChar(s, c) = [text |-> Append(s.text, c), escaped |-> FALSE]
  BY <1>1, Zenon DEF ReadChar
<1> QED BY <1>1, <1>2, <1>3, Zenon DEF r, s

\* If the first characters are read back, so is the next.
LEMMA ReadBackStep ==
  ASSUME NEW t \in Seq(Characters), NEW i \in 1 .. Len(t), ReadBackTo(t, i - 1)
  PROVE  ReadBackTo(t, i)
<1> DEFINE a == Len(Putting(t)[i - 1])
           b == Len(Putting(t)[i])
           w == Escaped(t)
           R == Reading(w)
           c == t[i]
<1>1. w \in Seq(Characters) /\ a \in Nat
  <2>1. i - 1 \in 0 .. Len(t) /\ Len(t) \in 0 .. Len(t)
    OBVIOUS
  <2> QED BY <2>1, PuttingType DEF Escaped
<1>2. \A k \in 1 .. Len(w) : R[k] = ReadChar(R[k - 1], w[k])
  BY <1>1, ReadingSteps
<1>3. /\ b = a + (IF Special(c) THEN 2 ELSE 1) /\ b <= Len(w)
      /\ Special(c) => w[a + 1] = Backslash /\ w[a + 2] = c
      /\ ~Special(c) => w[a + 1] = c
  BY EscapedChar
<1>4. /\ R[a] = [text |-> SubSeq(t, 1, i - 1), escaped |-> FALSE]
      /\ \A p \in 1 .. a : EscapedRight(w, p)
  BY DEF ReadBackTo
<1>5. Append(SubSeq(t, 1, i - 1), c) = SubSeq(t, 1, i)
  OBVIOUS
<1>6. R[b] = [text |-> SubSeq(t, 1, i), escaped |-> FALSE] /\ \A p \in 1 .. b : EscapedRight(w, p)
  <2> DEFINE n == Len(w)
  <2>0. n \in Nat
    BY <1>1
  <2>1. \A k \in 1 .. n : EscapedRight(w, k) <=>
          (R[k - 1].escaped => Special(w[k])) /\ (w[k] = Quote => R[k - 1].escaped)
    BY DEF EscapedRight
  <2> HIDE DEF a, b, w, R, c, n
  <2>2. CASE Special(c)
    <3>1. b = a + 2 /\ a + 1 \in 1 .. n /\ a + 2 \in 1 .. n
      BY <1>1, <1>3, <2>0, <2>2 DEF n
    <3>2. R[a + 1] = ReadChar(R[a], Backslash) /\ R[a + 2] = ReadChar(R[a + 1], c)
      BY <1>1, <1>2, <1>3, <2>2, <3>1 DEF n
    <3>3. R[a + 1] = [text |-> SubSeq(t, 1, i - 1), escaped |-> TRUE]
      BY <1>4, <3>2 DEF ReadChar
    <3>4. R[a + 2] = [text |-> SubSeq(t, 1, i), escaped |-> FALSE]
      BY <1>5, <3>2, <3>3, ReadCharFacts, Zenon
    <3>5. EscapedRight(w, a + 1) /\ EscapedRight(w, a + 2)
      <4>1. ~R[a].escaped /\ R[a + 1].escaped /\ w[a + 1] # Quote
        BY <1>3, <1>4, <2>2, <3>3 DEF Quote, Backslash
      <4>2. (a + 1) - 1 = a /\ (a + 2) - 1 = a + 1
        BY <1>1
      <4> QED BY <1>3, <2>1, <2>2, <3>1, <4>1, <4>2
    <3>6. \A p \in 1 .. b : p \in 1 .. a \/ p = a + 1 \/ p = a + 2
      BY <1>1, <3>1
    <3> QED BY <1>4, <3>1, <3>4, <3>5, <3>6
  <2>3. CASE ~Special(c)
    <3>1. b = a + 1 /\ a + 1 \in 1 .. n /\ (a + 1) - 1 = a
      BY <1>1, <1>3, <2>0, <2>3 DEF n
    <3>2. R[a + 1] = ReadChar(R[a], c) /\ c # Backslash /\ c # Quote
      BY <1>1, <1>2, <1>3, <2>3, <3>1 DEF n, Special
    <3>3. R[a + 1] = [text |-> SubSeq(t, 1, i), escaped |-> FALSE]
      BY <1>4, <1>5, <3>2, ReadCharFacts, Zenon
    <3>4. EscapedRight(w, a + 1)
      <4>1. ~R[a].escaped
        BY <1>4
      <4> QED BY <1>3, <2>1, <2>3, <3>1, <3>2, <4>1
    <3>5. \A p \in 1 .. b : p \in 1 .. a \/ p = a + 1
      BY <1>1, <3>1
    <3> QED BY <1>4, <3>1, <3>3, <3>4, <3>5
  <2> QED BY <2>2, <2>3
<1> QED BY <1>6 DEF ReadBackTo

\* The whole text is read back: the first prefix that is not would follow one
\* that is.
LEMMA ReadBack ==
  ASSUME NEW t \in Seq(Characters)
  PROVE  ReadBackTo(t, Len(t))
<1> DEFINE n == Len(t)
           Bad == {i \in 0 .. n : ~ReadBackTo(t, i)}
<1>0. n \in Nat
  OBVIOUS
<1>1. ReadBackTo(t, 0)
  <2>1. Putting(t)[0] = << >> /\ Escaped(t) \in Seq(Characters)
    BY <1>0, PuttingSteps, PuttingType DEF Escaped
  <2>2. Reading(Escaped(t))[0] = [text |-> << >>, escaped |-> FALSE]
    BY <2>1, ReadingSteps
  <2>3. SubSeq(t, 1, 0) = << >> /\ Len(<< >>) = 0
    OBVIOUS
  <2>4. \A p \in 1 .. 0 : EscapedRight(Escaped(t), p)
    OBVIOUS
  <2> QED BY <2>1, <2>2, <2>3, <2>4, Zenon DEF ReadBackTo
<1> SUFFICES ASSUME Bad # {} PROVE FALSE
  BY <1>0
<1>2. PICK i \in Bad : \A k \in Bad : i <= k
  <2>1. Bad \in SUBSET Nat
    BY <1>0
  <2> HIDE DEF Bad
  <2> QED BY <2>1, LeastOf
<1>3. i \in 1 .. n /\ i - 1 \in 0 .. n /\ i - 1 \notin Bad
  BY <1>0, <1>1, <1>2
<1>4. ReadBackTo(t, i - 1)
  BY <1>3
<1> QED BY <1>2, <1>3, <1>4, ReadBackStep

\* Nothing is trimmed of a text with no blank at either end.
LEMMA TrimNothing ==
  ASSUME NEW v \in Seq(Characters), v # << >>, v[1] # Blank, v[Len(v)] # Blank
  PROVE  Trim(v) = v
<1>1. Len(v) \in Nat \ {0} /\ DOMAIN v = 1 .. Len(v)
  OBVIOUS
<1>2. 1 \in Solid(v) /\ Len(v) \in Solid(v) /\ Solid(v) \subseteq 1 .. Len(v)
  BY <1>1 DEF Solid
<1>3. 1 = CHOOSE k \in Solid(v) : \A o \in Solid(v) : k <= o
  BY <1>1, <1>2
<1>4. Len(v) = CHOOSE k \in Solid(v) : \A o \in Solid(v) : o <= k
  BY <1>1, <1>2
<1>5. Trim(v) = SubSeq(v, 1, Len(v))
  BY <1>2, <1>3, <1>4, Zenon DEF Trim
<1> QED BY <1>5, SubSeqFull

\* What is between the quotes.
LEMMA Between ==
  ASSUME NEW e \in Seq(Characters), NEW q \in Seq(Characters), Len(q) = 1
  PROVE  /\ (q \o e) \o q \in Seq(Characters) /\ Len((q \o e) \o q) = Len(e) + 2
         /\ ((q \o e) \o q)[1] = q[1] /\ ((q \o e) \o q)[Len(e) + 2] = q[1]
         /\ \A i \in 1 .. Len(e) : ((q \o e) \o q)[i + 1] = e[i]
<1> DEFINE h == q \o e
           v == h \o q
           n == Len(e)
<1>1. /\ h \in Seq(Characters) /\ Len(h) = Len(q) + Len(e)
      /\ \A i \in 1 .. Len(q) + Len(e) : h[i] = IF i <= Len(q) THEN q[i] ELSE e[i - Len(q)]
  BY ConcatProperties
<1>2. /\ v \in Seq(Characters) /\ Len(v) = Len(h) + Len(q)
      /\ \A i \in 1 .. Len(h) + Len(q) : v[i] = IF i <= Len(h) THEN h[i] ELSE q[i - Len(h)]
  BY <1>1, ConcatProperties
<1>3. n \in Nat /\ Len(e) = n
  OBVIOUS
<1> HIDE DEF h, v, n
<1>4. Len(h) = n + 1 /\ \A i \in 1 .. n + 1 : h[i] = IF i <= 1 THEN q[i] ELSE e[i - 1]
  BY <1>1, <1>3
<1>5. Len(v) = n + 2 /\ \A i \in 1 .. n + 2 : v[i] = IF i <= n + 1 THEN h[i] ELSE q[i - (n + 1)]
  BY <1>2, <1>3, <1>4
<1>6. (n + 2) - (n + 1) = 1 /\ \A i \in 1 .. n : (i + 1) - 1 = i
  BY <1>3
<1>7. v[1] = q[1] /\ v[n + 2] = q[1]
  BY <1>3, <1>4, <1>5, <1>6
<1>8. \A i \in 1 .. n : v[i + 1] = e[i]
  BY <1>3, <1>4, <1>5, <1>6
<1> QED BY <1>2, <1>3, <1>5, <1>7, <1>8 DEF h, v

\* The length, the ends and the inside of a value in quotes.
LEMMA Quoted ==
  ASSUME NEW e \in Seq(Characters), NEW v, v = <<Quote>> \o e \o <<Quote>>
  PROVE  /\ v \in Seq(Characters) /\ Len(v) = Len(e) + 2
         /\ v[1] = Quote /\ v[Len(v)] = Quote /\ SubSeq(v, 2, Len(v) - 1) = e
<1> DEFINE q == <<Quote>>
<1>0. q \in Seq(Characters) /\ Len(q) = 1 /\ q[1] = Quote
  BY DEF Characters
<1>1. v = (q \o e) \o q
  OBVIOUS
<1> HIDE DEF q
<1> DEFINE n == Len(e)
<1>2. n \in Nat /\ Len(e) = n
  OBVIOUS
<1>3. /\ v \in Seq(Characters) /\ Len(v) = n + 2 /\ v[1] = Quote /\ v[n + 2] = Quote
      /\ \A i \in 1 .. n : v[i + 1] = e[i]
  BY <1>0, <1>1, Between
<1> HIDE DEF n
<1> DEFINE m == SubSeq(v, 2, n + 1)
<1>4. m \in Seq(Characters)
  BY <1>2, <1>3
<1>5. Len(m) = n /\ \A i \in 1 .. n : m[i] = v[i + 1]
  BY <1>2, <1>3
<1> HIDE DEF m
<1>6. m = e
  <2>1. \A i \in 1 .. Len(m) : m[i] = e[i]
    BY <1>3, <1>5
  <2> QED BY <1>2, <1>4, <1>5, <2>1, SeqEqual
<1>7. (n + 2) - 1 = n + 1
  BY <1>2
<1> QED BY <1>2, <1>3, <1>6, <1>7 DEF m

\* A description that can be represented is read back from the text that is
\* written for it, whatever blanks, quotes and backslashes it has.
LEMMA RoundTrip ==
  ASSUME NEW d \in Seq(Characters), NcvIniValueIsExactlyRepresentable(d)
  PROVE  SetKeyValue("TargetBbsDescription", NcvEncodeDiskDescription(d)) = {d}
<1> DEFINE v == NcvEncodeDiskDescription(d)
<1>0. d # << >> /\ Len(d) \in 1 .. MaxText
  BY DEF NcvIniValueIsExactlyRepresentable
<1> SUFFICES CopyDiskDescription(Trim(v)) = {d}
  BY DEF SetKeyValue
<1>1. CASE d[1] \in {Blank, Quote} \/ d[Len(d)] = Blank
  <2> DEFINE e == Escaped(d)
  <2>1. e \in Seq(Characters)
    BY PuttingType DEF Escaped
  <2>2. v = <<Quote>> \o e \o <<Quote>>
    BY <1>1 DEF NcvEncodeDiskDescription
  <2>3. ReadBackTo(d, Len(d))
    BY ReadBack
  <2>4. SubSeq(d, 1, Len(d)) = d
    BY SubSeqFull
  <2>5. Reading(e)[Len(e)] = [text |-> d, escaped |-> FALSE] /\ \A p \in 1 .. Len(e) : EscapedRight(e, p)
    BY <2>3, <2>4, Zenon DEF ReadBackTo, Escaped
  <2> HIDE DEF v, e
  <2>6. /\ v \in Seq(Characters) /\ Len(v) = Len(e) + 2
        /\ v[1] = Quote /\ v[Len(v)] = Quote /\ SubSeq(v, 2, Len(v) - 1) = e
    BY <2>1, <2>2, Quoted
  <2>7. Trim(v) = v
    <3>1. v # << >> /\ Quote # Blank
      BY <2>1, <2>6 DEF Quote, Blank
    <3> QED BY <2>6, <3>1, TrimNothing
  <2>8. WellEscaped(e) /\ Reading(e)[Len(e)].text = d
    <3>1. Reading(e)[Len(e)].escaped = FALSE /\ Reading(e)[Len(e)].text = d
      BY <2>5
    <3>2. \A k \in 1 .. Len(e) : /\ Reading(e)[k - 1].escaped => e[k] \in {Quote, Backslash}
                                 /\ e[k] = Quote => Reading(e)[k - 1].escaped
      BY <2>5, Zenon DEF EscapedRight, Special
    <3> QED BY <3>1, <3>2, Zenon DEF WellEscaped
  <2>9. Len(v) # 0 /\ Len(v) > 1
    BY <2>1, <2>6
  <2>10. CopyDiskDescription(v) =
           {t \in {Reading(e)[Len(e)].text} :
              /\ Len(v) > 1 /\ v[Len(v)] = Quote /\ WellEscaped(e)
              /\ NcvIniValueIsExactlyRepresentable(t)}
    BY <2>6, <2>9, Zenon DEF CopyDiskDescription
  <2> QED BY <2>6, <2>7, <2>8, <2>9, <2>10
<1>2. CASE ~(d[1] \in {Blank, Quote} \/ d[Len(d)] = Blank)
  <2>1. v = d
    BY <1>2 DEF NcvEncodeDiskDescription
  <2>2. Trim(d) = d
    BY <1>0, <1>2, TrimNothing
  <2>3. Len(d) # 0 /\ d[1] # Quote /\ Len(d) <= MaxText
    BY <1>0, <1>2
  <2>4. CopyDiskDescription(d) = {t \in {d} : Len(d) <= MaxText}
    BY <2>3, Zenon DEF CopyDiskDescription
  <2> QED BY <2>1, <2>2, <2>3, <2>4
<1> QED BY <1>1, <1>2

-----------------------------------------------------------------------------
(* Lines, and the section each is in.                                      *)

LineNames  == {None} \cup Targets \cup DOMAIN Keys \cup UNION Range(Keys)
LineValues == {None, "false"} \cup Addresses \cup Seq(Characters) \cup UNION Range(Values)
Returns    == {None, "before", "within"}
Line == [kind : {"section", "key", "note"}, name : LineNames, value : LineValues, cr : Returns]

IsKey(line, name)     == line.kind = "key" /\ line.name = name
IsSection(line, name) == line.kind = "section" /\ line.name = name
IsTargetKey(line)     == line.kind = "key" /\ line.name \in Targets

\* The settings in the first n lines, but for the targets.
KeptLines(lines, n) == {k \in 1 .. n : lines[k].kind = "key" /\ lines[k].name \notin Targets}
Kept(lines, n)      == {<<lines[k].name, lines[k].value>> : k \in KeptLines(lines, n)}

\* A nonempty set of line numbers has a greatest element.
LEMMA GreatestOf ==
  ASSUME NEW n \in Nat, NEW S \in SUBSET (1 .. n), S # {}
  PROVE  \E m \in S : \A k \in S : k <= m
<1> DEFINE T == {x \in 0 .. n : n - x \in S}
<1>1. T \in SUBSET Nat
  OBVIOUS
<1>2. T # {}
  <2>1. PICK s \in S : TRUE
    OBVIOUS
  <2>2. n - s \in 0 .. n /\ n - (n - s) = s
    BY <2>1
  <2> QED BY <2>1, <2>2
<1>3. PICK x \in T : \A y \in T : x <= y
  <2> HIDE DEF T
  <2> QED BY <1>1, <1>2, LeastOf
<1>4. \A k \in S : k <= n - x
  <2> SUFFICES ASSUME NEW k \in S PROVE k <= n - x
    OBVIOUS
  <2>1. n - k \in 0 .. n /\ n - (n - k) = k
    OBVIOUS
  <2>2. n - k \in T
    BY <2>1
  <2>3. x <= n - k /\ x \in 0 .. n
    BY <1>3, <2>2
  <2> QED BY <2>3
<1> QED BY <1>3, <1>4

\* The section at a line is the name of the last section line so far.
LEMMA SectionIs ==
  ASSUME NEW lines, NEW k \in Nat
  PROVE  \/ SectionsTo(lines, k) = {} /\ SectionAt(lines, k) = None
         \/ \E j \in SectionsTo(lines, k) :
              SectionAt(lines, k) = lines[j].name /\ \A o \in SectionsTo(lines, k) : o <= j
<1> DEFINE S == SectionsTo(lines, k)
           c == CHOOSE j \in S : \A o \in S : o <= j
<1>1. SectionAt(lines, k) = IF S = {} THEN None ELSE lines[c].name
  BY DEF SectionAt
<1>2. S \in SUBSET (1 .. k)
  BY DEF SectionsTo
<1> HIDE DEF S
<1>3. S # {} => c \in S /\ \A o \in S : o <= c
  <2> SUFFICES ASSUME S # {} PROVE \E j \in S : \A o \in S : o <= j
    BY Zenon
  <2> QED BY <1>2, GreatestOf
<1> HIDE DEF c
<1> QED BY <1>1, <1>3 DEF S

\* The section only depends on the lines above.
LEMMA SectionSame ==
  ASSUME NEW l, NEW m, NEW k \in Nat, \A j \in 1 .. k : l[j] = m[j]
  PROVE  SectionAt(l, k) = SectionAt(m, k)
<1>1. SectionsTo(l, k) = SectionsTo(m, k)
  BY DEF SectionsTo
<1>2. SectionsTo(l, k) \subseteq 1 .. k
  BY DEF SectionsTo
<1>3. CASE SectionsTo(l, k) = {}
  BY <1>1, <1>3 DEF SectionAt
<1>4. CASE SectionsTo(l, k) # {}
  <2>1. PICK i \in SectionsTo(l, k) : SectionAt(l, k) = l[i].name /\ \A o \in SectionsTo(l, k) : o <= i
    BY <1>4, SectionIs
  <2>2. PICK j \in SectionsTo(l, k) : SectionAt(m, k) = m[j].name /\ \A o \in SectionsTo(l, k) : o <= j
    BY <1>1, <1>4, SectionIs
  <2>3. i = j /\ l[i] = m[i]
    BY <1>2, <2>1, <2>2
  <2> QED BY <2>1, <2>2, <2>3
<1> QED BY <1>3, <1>4

\* A section line opens its section, any other leaves the section as it is.
LEMMA SectionStep ==
  ASSUME NEW lines, NEW k \in Nat
  PROVE  SectionAt(lines, k + 1) =
           IF lines[k + 1].kind = "section" THEN lines[k + 1].name ELSE SectionAt(lines, k)
<1> DEFINE S == SectionsTo(lines, k)
           T == SectionsTo(lines, k + 1)
<1>0. S \subseteq 1 .. k /\ T \subseteq 1 .. k + 1
  BY DEF SectionsTo
<1>1. CASE lines[k + 1].kind = "section"
  <2>1. k + 1 \in T
    BY <1>1 DEF SectionsTo
  <2>2. PICK j \in T : SectionAt(lines, k + 1) = lines[j].name /\ \A o \in T : o <= j
    <3>1. k + 1 \in Nat /\ T # {}
      BY <2>1
    <3> QED BY <3>1, SectionIs
  <2>3. j = k + 1
    BY <1>0, <2>1, <2>2
  <2> QED BY <1>1, <2>2, <2>3
<1>2. CASE lines[k + 1].kind # "section"
  <2>1. T = S
    BY <1>2 DEF SectionsTo
  <2>2. CASE S = {}
    BY <1>2, <2>1, <2>2 DEF SectionAt
  <2>3. CASE S # {}
    <3>1. PICK i \in S : SectionAt(lines, k) = lines[i].name /\ \A o \in S : o <= i
      BY <2>3, SectionIs
    <3>2. PICK j \in S : SectionAt(lines, k + 1) = lines[j].name /\ \A o \in S : o <= j
      <4>1. k + 1 \in Nat /\ T # {}
        BY <2>1, <2>3
      <4>2. \E j \in T : SectionAt(lines, k + 1) = lines[j].name /\ \A o \in T : o <= j
        BY <4>1, SectionIs
      <4> QED BY <2>1, <4>2
    <3>3. i = j
      BY <1>0, <3>1, <3>2
    <3> QED BY <1>2, <3>1, <3>2, <3>3
  <2> QED BY <2>2, <2>3
<1> QED BY <1>1, <1>2

\* A section that is in force was opened.
LEMMA SectionOpened ==
  ASSUME NEW lines, NEW k \in Nat, SectionAt(lines, k) # None
  PROVE  \E j \in 1 .. k : IsSection(lines[j], SectionAt(lines, k))
<1>1. PICK j \in SectionsTo(lines, k) : SectionAt(lines, k) = lines[j].name
  BY SectionIs
<1> QED BY <1>1 DEF SectionsTo, IsSection

-----------------------------------------------------------------------------
(* The parser, on a file that grows by a line.                             *)

\* A line that may come next.
GoodNext(lines, line) ==
  /\ line.kind = "section" => line.name \in DOMAIN Keys
  /\ line.kind = "key" =>
       /\ SectionAt(lines, Len(lines)) # None /\ line.name \in Keys[SectionAt(lines, Len(lines))]
       /\ SetKeyValue(line.name, line.value) # {}
  /\ line.kind # "note" =>
       \A j \in 1 .. Len(lines) : ~(lines[j].kind = line.kind /\ lines[j].name = line.name)

\* A file with one more line.
LEMMA Appended ==
  ASSUME NEW lines \in Seq(Line), NEW line \in Line
  PROVE  /\ Append(lines, line) \in Seq(Line) /\ Len(Append(lines, line)) = Len(lines) + 1
         /\ \A j \in 1 .. Len(lines) : Append(lines, line)[j] = lines[j]
         /\ Append(lines, line)[Len(lines) + 1] = line
         /\ Len(lines) \in Nat /\ DOMAIN lines = 1 .. Len(lines)
         /\ DOMAIN Append(lines, line) = 1 .. Len(lines) + 1
OBVIOUS

\* One more line changes no section above it.
LEMMA AppendedSection ==
  ASSUME NEW lines \in Seq(Line), NEW line \in Line
  PROVE  /\ \A k \in 0 .. Len(lines) : SectionAt(Append(lines, line), k) = SectionAt(lines, k)
         /\ SectionAt(Append(lines, line), Len(lines) + 1) =
              IF line.kind = "section" THEN line.name ELSE SectionAt(lines, Len(lines))
<1> DEFINE new == Append(lines, line)
           n   == Len(lines)
<1>1. n \in Nat /\ new[n + 1] = line /\ \A j \in 1 .. n : new[j] = lines[j]
  BY Appended
<1> HIDE DEF new, n
<1>2. \A k \in 0 .. n : SectionAt(new, k) = SectionAt(lines, k)
  <2> SUFFICES ASSUME NEW k \in 0 .. n PROVE SectionAt(new, k) = SectionAt(lines, k)
    OBVIOUS
  <2>1. k \in Nat /\ \A j \in 1 .. k : new[j] = lines[j]
    BY <1>1
  <2> QED BY <2>1, SectionSame
<1>3. SectionAt(new, n + 1) = IF line.kind = "section" THEN line.name ELSE SectionAt(new, n)
  BY <1>1, SectionStep
<1>4. SectionAt(new, n) = SectionAt(lines, n)
  BY <1>1, <1>2
<1> QED BY <1>2, <1>3, <1>4 DEF new, n

\* A file that parses still parses with a line that may come next.
LEMMA AppendedOk ==
  ASSUME NEW lines \in Seq(Line), NEW line \in Line,
         LinesAreGood(lines), GoodNext(lines, line)
  PROVE  LinesAreGood(Append(lines, line))
<1> DEFINE new == Append(lines, line)
           n   == Len(lines)
<1>1. /\ n \in Nat /\ DOMAIN new = 1 .. n + 1 /\ DOMAIN lines = 1 .. n
      /\ new[n + 1] = line /\ \A j \in 1 .. n : new[j] = lines[j]
  BY Appended
<1>2. /\ \A k \in 0 .. n : SectionAt(new, k) = SectionAt(lines, k)
      /\ SectionAt(new, n + 1) = IF line.kind = "section" THEN line.name ELSE SectionAt(lines, n)
  BY AppendedSection
<1>3. \A k \in 1 .. n : LineIsGood(lines, k)
  BY <1>1 DEF LinesAreGood
<1> SUFFICES \A k \in 1 .. n + 1 : LineIsGood(new, k)
  BY <1>1 DEF LinesAreGood
<1> HIDE DEF new
<1>4. \A k \in 1 .. n : LineIsGood(new, k)
  <2> SUFFICES ASSUME NEW k \in 1 .. n PROVE LineIsGood(new, k)
    OBVIOUS
  <2>1. new[k] = lines[k] /\ SectionAt(new, k) = SectionAt(lines, k) /\ LineIsGood(lines, k)
    BY <1>1, <1>2, <1>3
  <2>2. \A j \in 1 .. k - 1 : new[j] = lines[j]
    BY <1>1
  <2> HIDE DEF n
  <2> QED BY <2>1, <2>2 DEF LineIsGood
<1>5. LineIsGood(new, n + 1)
  <2>1. \A j \in 1 .. (n + 1) - 1 : new[j] = lines[j] /\ j \in 1 .. n
    BY <1>1
  <2>2. line.kind = "key" => SectionAt(new, n + 1) = SectionAt(lines, n)
    BY <1>2
  <2> QED BY <1>1, <2>1, <2>2 DEF GoodNext, LineIsGood
<1> QED BY <1>1, <1>4, <1>5

\* A file that parses has no line twice.
LEMMA NoTwice ==
  ASSUME NEW lines \in Seq(Line), LinesAreGood(lines),
         NEW k \in 1 .. Len(lines), NEW j \in 1 .. Len(lines), j # k, lines[k].kind # "note"
  PROVE  ~(lines[j].kind = lines[k].kind /\ lines[j].name = lines[k].name)
<1>1. LineIsGood(lines, j) /\ LineIsGood(lines, k)
  BY DEF LinesAreGood
<1>2. CASE j < k
  <2>1. j \in 1 .. k - 1
    BY <1>2
  <2>2. <<lines[j].kind, lines[j].name>> # <<lines[k].kind, lines[k].name>>
    BY <1>1, <2>1, Zenon DEF LineIsGood
  <2> QED BY <2>2
<1>3. CASE k < j
  <2> SUFFICES ASSUME lines[j].kind = lines[k].kind, lines[j].name = lines[k].name PROVE FALSE
    OBVIOUS
  <2>1. k \in 1 .. j - 1 /\ lines[j].kind # "note"
    BY <1>3
  <2>2. <<lines[k].kind, lines[k].name>> # <<lines[j].kind, lines[j].name>>
    BY <1>1, <2>1, Zenon DEF LineIsGood
  <2> QED BY <2>2
<1>4. j < k \/ k < j
  <2>1. j \in Nat /\ k \in Nat
    OBVIOUS
  <2> QED BY <2>1
<1> QED BY <1>2, <1>3, <1>4

\* In a file that parses a section is known, and a key is in its section with
\* a value it accepts.
LEMMA GoodKey ==
  ASSUME NEW lines \in Seq(Line), LinesAreGood(lines), NEW k \in 1 .. Len(lines)
  PROVE  /\ lines[k].kind = "section" => lines[k].name \in DOMAIN Keys
         /\ lines[k].kind = "key" =>
              /\ SectionAt(lines, k) # None /\ lines[k].name \in Keys[SectionAt(lines, k)]
              /\ SetKeyValue(lines[k].name, lines[k].value) # {}
<1>1. LineIsGood(lines, k)
  BY DEF LinesAreGood
<1> QED BY <1>1, Zenon DEF LineIsGood

\* What the parser stores comes from the line of a key.
LEMMA ValueIs ==
  ASSUME NEW lines, NEW name, NEW value
  PROVE  <<name, value>> \in NcvParseConfigStrict(lines).values <=>
           \E k \in KeyLines(lines) :
             lines[k].name = name /\ value \in SetKeyValue(lines[k].name, lines[k].value)
BY DEF NcvParseConfigStrict, Stored

\* The parser stores pairs of a name and a value.
LEMMA ValueIsPair ==
  ASSUME NEW lines, NEW set \in NcvParseConfigStrict(lines).values
  PROVE  set = <<set[1], set[2]>>
BY DEF NcvParseConfigStrict, Stored

\* In a file with good lines a key, other than the description, has one value.
LEMMA ValueUnique ==
  ASSUME NEW lines \in Seq(Line), LinesAreGood(lines),
         NEW set \in NcvParseConfigStrict(lines).values, NEW other \in NcvParseConfigStrict(lines).values,
         set[1] = other[1], set[1] # "TargetBbsDescription"
  PROVE  set = other
<1> DEFINE V == NcvParseConfigStrict(lines).values
<1>0. DOMAIN lines = 1 .. Len(lines)
  OBVIOUS
<1>1. set = <<set[1], set[2]>> /\ other = <<set[1], other[2]>>
  BY ValueIsPair
<1>2. <<set[1], set[2]>> \in V /\ <<set[1], other[2]>> \in V
  BY <1>1
<1>3. PICK k \in KeyLines(lines) :
        lines[k].name = set[1] /\ set[2] \in SetKeyValue(lines[k].name, lines[k].value)
  BY <1>2, ValueIs
<1>4. PICK j \in KeyLines(lines) :
        lines[j].name = set[1] /\ other[2] \in SetKeyValue(lines[j].name, lines[j].value)
  BY <1>2, ValueIs
<1>5. k \in 1 .. Len(lines) /\ j \in 1 .. Len(lines) /\ lines[k].kind = "key" /\ lines[j].kind = "key"
  BY <1>0, <1>3, <1>4 DEF KeyLines
<1>6. j = k
  BY <1>3, <1>4, <1>5, NoTwice
<1>7. SetKeyValue(lines[k].name, lines[k].value) = {lines[k].value}
  BY <1>3 DEF SetKeyValue
<1>8. set[2] = other[2]
  BY <1>3, <1>4, <1>6, <1>7
<1> QED BY <1>1, <1>8

-----------------------------------------------------------------------------
(* The settings that are no targets.                                       *)

NewKept(line) ==
  IF line.kind = "key" /\ line.name \notin Targets THEN {<<line.name, line.value>>} ELSE {}

\* The settings kept of one line more.
LEMMA KeptStep ==
  ASSUME NEW lines, NEW k \in Nat
  PROVE  Kept(lines, k + 1) = Kept(lines, k) \cup NewKept(lines[k + 1])
<1>1. KeptLines(lines, k + 1) =
        KeptLines(lines, k) \cup
        (IF lines[k + 1].kind = "key" /\ lines[k + 1].name \notin Targets THEN {k + 1} ELSE {})
  BY DEF KeptLines
<1> QED BY <1>1 DEF Kept, NewKept

\* The settings kept depend on the lines they are in.
LEMMA KeptSame ==
  ASSUME NEW l, NEW m, NEW k \in Nat, \A j \in 1 .. k : l[j] = m[j]
  PROVE  Kept(l, k) = Kept(m, k)
<1>1. KeptLines(l, k) = KeptLines(m, k) /\ \A j \in KeptLines(l, k) : l[j] = m[j]
  BY DEF KeptLines
<1> QED BY <1>1 DEF Kept

\* The settings kept of a file with one more line.
LEMMA KeptAppended ==
  ASSUME NEW lines \in Seq(Line), NEW line \in Line
  PROVE  Kept(Append(lines, line), Len(Append(lines, line))) =
           Kept(lines, Len(lines)) \cup NewKept(line)
<1> DEFINE new == Append(lines, line)
           n   == Len(lines)
<1>1. /\ n \in Nat /\ Len(new) = n + 1
      /\ new[n + 1] = line /\ \A j \in 1 .. n : new[j] = lines[j]
  BY Appended
<1> HIDE DEF new, n
<1>2. Kept(new, n) = Kept(lines, n)
  BY <1>1, KeptSame
<1>3. Kept(new, n + 1) = Kept(new, n) \cup NewKept(new[n + 1])
  BY <1>1, KeptStep
<1>4. Kept(new, Len(new)) = Kept(lines, n) \cup NewKept(line)
  BY <1>1, <1>2, <1>3
<1> QED BY <1>4 DEF new, n

\* The settings other than targets that a parse stores are those of the lines.
LEMMA RetainedIs ==
  ASSUME NEW lines \in Seq(Line)
  PROVE  Retained(NcvParseConfigStrict(lines)) = Kept(lines, Len(lines))
<1> DEFINE V == NcvParseConfigStrict(lines).values
           K == Kept(lines, Len(lines))
<1>0. DOMAIN lines = 1 .. Len(lines)
  OBVIOUS
<1>1. \A name, value : name \notin Targets => (<<name, value>> \in V <=> <<name, value>> \in K)
  <2> SUFFICES ASSUME NEW name, NEW value, name \notin Targets
               PROVE  <<name, value>> \in V <=> <<name, value>> \in K
    OBVIOUS
  <2>1. <<name, value>> \in V <=>
          \E k \in KeyLines(lines) :
            lines[k].name = name /\ value \in SetKeyValue(lines[k].name, lines[k].value)
    BY ValueIs
  <2>2. \A v : SetKeyValue(name, v) = {v}
    BY DEF SetKeyValue, Targets, Devices
  <2>3. <<name, value>> \in K <=>
          \E k \in KeptLines(lines, Len(lines)) : <<name, value>> = <<lines[k].name, lines[k].value>>
    BY DEF Kept
  <2>4. KeptLines(lines, Len(lines)) = {k \in KeyLines(lines) : lines[k].name \notin Targets}
    BY <1>0 DEF KeptLines, KeyLines
  <2> HIDE DEF V, K
  <2> QED BY <2>1, <2>2, <2>3, <2>4
<1>2. \A set \in V : set = <<set[1], set[2]>>
  BY ValueIsPair
<1>3. \A set \in K : set = <<set[1], set[2]>> /\ set[1] \notin Targets
  BY DEF Kept, KeptLines
<1>4. Retained(NcvParseConfigStrict(lines)) = {set \in V : set[1] \notin Targets}
  BY DEF Retained
<1> HIDE DEF V, K
<1>5. \A set : set \in V /\ set[1] \notin Targets <=> set \in K
  BY <1>1, <1>2, <1>3
<1> QED BY <1>4, <1>5 DEF K

-----------------------------------------------------------------------------
(* Types.                                                                  *)

Stages == {"typing", "edit", "format", "verify", "published", "unverified", "invalid", "capacity"}

TextType ==
  /\ stage \in Stages
  /\ file \in Seq(Line) /\ output \in Seq(Line)
  /\ description \in Seq(Characters)
  /\ address \in [Devices -> Addresses \cup {None}]
  /\ position \in Nat \ {0}
  /\ seen \subseteq Targets

ExactInv ==
  /\ stage = "typing" => output = << >> /\ position = 1 /\ section = None /\ seen = {}
  /\ stage = "format" => file = << >>
  /\ stage = "edit" =>
       position <= Len(file) + 1 /\ Kept(output, Len(output)) = Kept(file, position - 1)
  /\ stage \in {"verify", "published"} /\ file # << >> =>
       Kept(output, Len(output)) = Kept(file, Len(file))
  /\ stage = "published" => VerifyGeneratedBytes(output)

\* Every description of a disk is a text.
LEMMA TextsType ==
  ASSUME NEW t \in Texts \cup EditTexts
  PROVE  t \in Seq(Characters)
<1> DEFINE C == UNION {Range(u) : u \in Texts \cup EditTexts}
<1>1. t \in Seq(C)
  BY TextAssumption
<1>2. C \subseteq Characters
  BY DEF Characters
<1> HIDE DEF C
<1> QED BY <1>1, <1>2, SeqMonotonic

\* So is what is written for it.
LEMMA EncodedType ==
  ASSUME NEW t \in Seq(Characters)
  PROVE  NcvEncodeDiskDescription(t) \in Seq(Characters)
<1>1. Escaped(t) \in Seq(Characters)
  BY PuttingType DEF Escaped
<1>2. <<Quote>> \o Escaped(t) \o <<Quote>> \in Seq(Characters)
  BY <1>1, Quoted
<1> QED BY <1>2, Zenon DEF NcvEncodeDiskDescription

\* A target is written as a line with its key.
LEMMA WrittenType ==
  ASSUME description \in Seq(Characters), address \in [Devices -> Addresses \cup {None}], NEW t \in Targets
  PROVE  Written(t) \in Line /\ Written(t).kind = "key" /\ Written(t).name = t
<1> DEFINE v == IF t = "TargetBbsDescription" THEN NcvEncodeDiskDescription(description) ELSE address[t]
<1>0. NcvEncodeDiskDescription(description) \in Seq(Characters)
  BY EncodedType
<1>1. v \in LineValues /\ t \in LineNames
  <2>1. t # "TargetBbsDescription" => address[t] \in Addresses \cup {None}
    BY DEF Targets, Devices
  <2> QED BY <1>0, <2>1, Zenon DEF LineValues, LineNames
<1>2. Written(t) = [kind |-> "key", name |-> t, value |-> v, cr |-> None]
  BY DEF Written, Setting
<1> HIDE DEF v
<1> QED BY <1>1, <1>2 DEF Line, Returns

\* A section, a note and a setting are lines.
LEMMA SectionType ==
  /\ \A s \in DOMAIN Keys : Section(s) \in Line
  /\ Note \in Line /\ Setting("Probe", "false") \in Line /\ Setting("Enabled", "false") \in Line
<1>1. "Probe" \in UNION Range(Keys) /\ "Enabled" \in UNION Range(Keys)
  BY TextAssumption DEF Range
<1>2. None \in LineValues /\ "false" \in LineValues /\ None \in Returns
  BY Zenon DEF LineValues, Returns
<1> QED BY <1>1, <1>2 DEF Section, Note, Setting, Line, LineNames

\* What the user types is a line.
LEMMA LinesType == Lines \subseteq Line
<1>1. \A k \in DOMAIN Values : \A v \in Values[k] : Setting(k, v) \in Line
  <2> SUFFICES ASSUME NEW k \in DOMAIN Values, NEW v \in Values[k] PROVE Setting(k, v) \in Line
    OBVIOUS
  <2>1. k \in LineNames
    BY TextAssumption DEF LineNames
  <2>2. v \in UNION Range(Values)
    BY DEF Range
  <2>3. v \in LineValues /\ None \in Returns
    BY <2>2, Zenon DEF LineValues, Returns
  <2> QED BY <2>1, <2>3 DEF Setting, Line
<1> QED BY <1>1, SectionType DEF Lines

-----------------------------------------------------------------------------
(* Files that parse, built line by line.                                   *)

\* A text made by appending lines that the parser accepts: the section it is
\* in, the sections and keys it has, and some of its settings.
Built(lines, sec, used, sets) ==
  /\ lines \in Seq(Line) /\ LinesAreGood(lines)
  /\ SectionAt(lines, Len(lines)) = sec
  /\ \A k \in 1 .. Len(lines) : lines[k].kind # "note" => <<lines[k].kind, lines[k].name>> \in used
  /\ sets \subseteq NcvParseConfigStrict(lines).values

\* The empty file parses and stores nothing.
LEMMA BuiltNothing == Built(<< >>, None, {}, {})
<1> DEFINE e == << >>
<1>1. e \in Seq(Line) /\ Len(e) = 0 /\ DOMAIN e = {}
  OBVIOUS
<1> HIDE DEF e
<1>2. LinesAreGood(e)
  BY <1>1 DEF LinesAreGood
<1>3. SectionAt(e, 0) = None
  BY DEF SectionAt, SectionsTo
<1>4. \A k \in 1 .. Len(e) : e[k].kind # "note" => <<e[k].kind, e[k].name>> \in {}
  BY <1>1
<1> QED BY <1>1, <1>2, <1>3, <1>4 DEF Built, e

\* One more line removes no stored value.
LEMMA ValuesGrow ==
  ASSUME NEW lines \in Seq(Line), NEW line \in Line
  PROVE  NcvParseConfigStrict(lines).values \subseteq NcvParseConfigStrict(Append(lines, line)).values
<1> DEFINE new == Append(lines, line)
<1>1. /\ DOMAIN lines = 1 .. Len(lines) /\ DOMAIN new = 1 .. Len(lines) + 1 /\ Len(lines) \in Nat
      /\ \A j \in 1 .. Len(lines) : new[j] = lines[j]
  BY Appended
<1> HIDE DEF new
<1>2. \A k \in KeyLines(lines) : k \in KeyLines(new) /\ new[k] = lines[k]
  BY <1>1 DEF KeyLines
<1>3. NcvParseConfigStrict(lines).values \subseteq NcvParseConfigStrict(new).values
  BY <1>2 DEF NcvParseConfigStrict, Stored
<1> QED BY <1>3 DEF new

\* A line that may come next in such a text; v is the value of a key.
MayFollow(line, sec, used, v) ==
  /\ line.kind = "section" => line.name \in DOMAIN Keys
  /\ line.kind = "key" => sec # None /\ line.name \in Keys[sec] /\ SetKeyValue(line.name, line.value) = {v}
  /\ line.kind # "note" => <<line.kind, line.name>> \notin used

\* A file that parses, with a line that may follow, parses and stores its value.
LEMMA BuiltNext ==
  ASSUME NEW lines, NEW sec, NEW used, NEW sets, Built(lines, sec, used, sets),
         NEW line \in Line, NEW v, MayFollow(line, sec, used, v)
  PROVE  Built(Append(lines, line),
               IF line.kind = "section" THEN line.name ELSE sec,
               IF line.kind = "note" THEN used ELSE used \cup {<<line.kind, line.name>>},
               IF line.kind = "key" THEN sets \cup {<<line.name, v>>} ELSE sets)
<1> DEFINE new == Append(lines, line)
           n   == Len(lines)
           after == IF line.kind = "note" THEN used ELSE used \cup {<<line.kind, line.name>>}
           more  == IF line.kind = "key" THEN sets \cup {<<line.name, v>>} ELSE sets
<1>0. lines \in Seq(Line)
  BY DEF Built
<1>1. /\ new \in Seq(Line) /\ n \in Nat /\ Len(new) = n + 1 /\ DOMAIN new = 1 .. n + 1
      /\ new[n + 1] = line /\ \A j \in 1 .. n : new[j] = lines[j]
  BY <1>0, Appended
<1>1a. n \in Nat
  BY <1>1
<1>2. GoodNext(lines, line)
  BY <1>0 DEF Built, GoodNext, MayFollow
<1>3. LinesAreGood(new)
  BY <1>0, <1>2, AppendedOk DEF Built
<1>4. SectionAt(new, n + 1) = IF line.kind = "section" THEN line.name ELSE sec
  BY <1>0, AppendedSection DEF Built
<1>5. NcvParseConfigStrict(lines).values \subseteq NcvParseConfigStrict(new).values
  BY <1>0, ValuesGrow
<1> HIDE DEF new, n
<1>6. \A k \in 1 .. n + 1 : new[k].kind # "note" => <<new[k].kind, new[k].name>> \in after
  <2> SUFFICES ASSUME NEW k \in 1 .. n + 1, new[k].kind # "note"
               PROVE  <<new[k].kind, new[k].name>> \in after
    OBVIOUS
  <2>1. CASE k = n + 1
    BY <1>1, <2>1
  <2>2. CASE k # n + 1
    <3>0. k \in 1 .. n
      BY <1>1a, <2>2
    <3>1. k \in 1 .. n /\ new[k] = lines[k]
      BY <1>1, <3>0
    <3> QED BY <3>1 DEF Built, n
  <2> QED BY <2>1, <2>2
<1>7. more \subseteq NcvParseConfigStrict(new).values
  <2>1. sets \subseteq NcvParseConfigStrict(new).values
    BY <1>5 DEF Built
  <2>2. line.kind = "key" => <<line.name, v>> \in NcvParseConfigStrict(new).values
    <3>1. n + 1 \in DOMAIN new
      BY <1>1a, <1>1
    <3>2. line.kind = "key" => n + 1 \in KeyLines(new)
      BY <1>1, <3>1 DEF KeyLines
    <3>3. line.kind = "key" => v \in SetKeyValue(line.name, line.value)
      BY DEF MayFollow
    <3> QED BY <1>1, <3>2, <3>3, ValueIs
  <2> QED BY <2>1, <2>2
<1> HIDE DEF after, more
<1>8. Built(new, IF line.kind = "section" THEN line.name ELSE sec, after, more)
  BY <1>1, <1>3, <1>4, <1>6, <1>7 DEF Built
<1> QED BY <1>8 DEF new, after, more

\* The same for a note,
LEMMA BuiltNote ==
  ASSUME NEW lines, NEW sec, NEW used, NEW sets, Built(lines, sec, used, sets)
  PROVE  Built(Append(lines, Note), sec, used, sets)
<1>1. Note \in Line /\ Note.kind = "note"
  BY SectionType DEF Note
<1>2. MayFollow(Note, sec, used, None)
  BY <1>1 DEF MayFollow
<1> QED BY <1>1, <1>2, BuiltNext

\* for a section,
LEMMA BuiltSection ==
  ASSUME NEW lines, NEW sec, NEW used, NEW sets, Built(lines, sec, used, sets),
         NEW s \in DOMAIN Keys, <<"section", s>> \notin used
  PROVE  Built(Append(lines, Section(s)), s, used \cup {<<"section", s>>}, sets)
<1> DEFINE l == Section(s)
<1>1. l \in Line /\ l.kind = "section" /\ l.name = s
  BY SectionType DEF Section
<1> HIDE DEF l
<1>3. MayFollow(l, sec, used, None)
  BY <1>1 DEF MayFollow
<1>2. Built(Append(lines, l),
            IF l.kind = "section" THEN l.name ELSE sec,
            IF l.kind = "note" THEN used ELSE used \cup {<<l.kind, l.name>>},
            IF l.kind = "key" THEN sets \cup {<<l.name, None>>} ELSE sets)
  BY <1>1, <1>3, BuiltNext, Zenon
<1>4. l.kind # "note" /\ l.kind # "key"
  BY <1>1
<1>5. Built(Append(lines, l), s, used \cup {<<"section", s>>}, sets)
  BY <1>1, <1>2, <1>4, Zenon
<1> QED BY <1>5 DEF l

\* and for a key.
LEMMA BuiltKey ==
  ASSUME NEW lines, NEW sec, NEW used, NEW sets, Built(lines, sec, used, sets),
         NEW line \in Line, line.kind = "key", NEW key, line.name = key, NEW v,
         SetKeyValue(key, line.value) = {v},
         sec # None, key \in Keys[sec], <<"key", key>> \notin used
  PROVE  Built(Append(lines, line), sec, used \cup {<<"key", key>>}, sets \cup {<<key, v>>})
<1>1. MayFollow(line, sec, used, v)
  BY DEF MayFollow
<1>2. Built(Append(lines, line),
            IF line.kind = "section" THEN line.name ELSE sec,
            IF line.kind = "note" THEN used ELSE used \cup {<<line.kind, line.name>>},
            IF line.kind = "key" THEN sets \cup {<<line.name, v>>} ELSE sets)
  BY <1>1, BuiltNext, Zenon
<1> QED BY <1>2

\* Two lines at the end are one after the other.
LEMMA AppendTwo ==
  ASSUME NEW s \in Seq(Line), NEW a \in Line, NEW b \in Line
  PROVE  s \o <<a, b>> = Append(Append(s, a), b)
OBVIOUS

\* So are three.
LEMMA AppendThree ==
  ASSUME NEW s \in Seq(Line), NEW a \in Line, NEW b \in Line, NEW c \in Line
  PROVE  s \o (<<a>> \o <<b, c>>) = Append(Append(Append(s, a), b), c)
<1> DEFINE p == <<a>>
           q == <<b, c>>
<1>1. p \in Seq(Line) /\ q \in Seq(Line)
  OBVIOUS
<1>2. s \o p = Append(s, a) /\ Append(s, a) \in Seq(Line)
  OBVIOUS
<1> HIDE DEF p, q
<1>3. s \o (p \o q) = (s \o p) \o q
  BY <1>1, ConcatAssociative
<1>4. Append(s, a) \o q = Append(Append(Append(s, a), b), c)
  BY <1>2, AppendTwo DEF q
<1> QED BY <1>2, <1>3, <1>4 DEF p, q

-----------------------------------------------------------------------------
(* The lines NcvFormatCandidateIni writes.                                 *)

\* The value a target is to have.
TargetValue(t) == IF t = "TargetBbsDescription" THEN description ELSE address[t]

CanWrite ==
  /\ description \in Seq(Characters) /\ NcvIniValueIsExactlyRepresentable(description)
  /\ address \in [Devices -> Addresses \cup {None}]

\* The parser stores for a written target the value it is to have.
LEMMA WrittenValue ==
  ASSUME CanWrite, NEW t \in Targets
  PROVE  SetKeyValue(t, Written(t).value) = {TargetValue(t)}
<1>1. CASE t = "TargetBbsDescription"
  <2>1. Written(t).value = NcvEncodeDiskDescription(description)
    BY <1>1 DEF Written, Setting
  <2> QED BY <1>1, <2>1, RoundTrip DEF CanWrite, TargetValue
<1>2. CASE t # "TargetBbsDescription"
  BY <1>2 DEF Written, Setting, SetKeyValue, TargetValue
<1> QED BY <1>1, <1>2

\* A target that is written in its section is stored.
LEMMA BuiltTarget ==
  ASSUME CanWrite, NEW lines, NEW sec, NEW used, NEW sets, Built(lines, sec, used, sets),
         NEW t \in Targets, sec \in DOMAIN Keys, t \in Keys[sec], <<"key", t>> \notin used
  PROVE  Built(Append(lines, Written(t)), sec, used \cup {<<"key", t>>}, sets \cup {<<t, TargetValue(t)>>})
<1> DEFINE l == Written(t)
<1>1. l \in Line /\ l.kind = "key" /\ l.name = t
  BY WrittenType DEF CanWrite
<1>2. SetKeyValue(t, l.value) = {TargetValue(t)} /\ sec # None
  BY WrittenValue, TextAssumption
<1> HIDE DEF l
<1>3. Built(Append(lines, l), sec, used \cup {<<"key", t>>}, sets \cup {<<t, TargetValue(t)>>})
  BY <1>1, <1>2, BuiltKey
<1> QED BY <1>3 DEF l

\* A display that is not selected adds comments only,
LEMMA DisplayPlain ==
  ASSUME NEW lines, NEW sec, NEW used, NEW sets, Built(lines, sec, used, sets)
  PROVE  Built(lines \o FormatDisplay(FALSE), sec, used, sets)
<1>1. FormatDisplay(FALSE) = <<Note, Note>>
  BY DEF FormatDisplay
<1>2. lines \o <<Note, Note>> = Append(Append(lines, Note), Note)
  BY AppendTwo, SectionType DEF Built
<1>3. Built(Append(Append(lines, Note), Note), sec, used, sets)
  BY BuiltNote
<1> QED BY <1>1, <1>2, <1>3

\* and so does a disk.
LEMMA StoragePlain ==
  ASSUME NEW lines, NEW sec, NEW used, NEW sets, Built(lines, sec, used, sets)
  PROVE  Built(lines \o FormatStorage(FALSE), sec, used, sets)
<1>1. FormatStorage(FALSE) = <<Note>> \o <<Note, Note>>
  BY DEF FormatStorage
<1>2. lines \o (<<Note>> \o <<Note, Note>>) = Append(Append(Append(lines, Note), Note), Note)
  BY AppendThree, SectionType DEF Built
<1>3. Built(Append(Append(Append(lines, Note), Note), Note), sec, used, sets)
  BY BuiltNote
<1> QED BY <1>1, <1>2, <1>3

\* The selected display adds its target,
LEMMA DisplaySelected ==
  ASSUME CanWrite, NEW lines, NEW used, NEW sets, Built(lines, "Video", used, sets),
         <<"key", "TargetPci">> \notin used
  PROVE  Built(lines \o FormatDisplay(TRUE), "Video",
               used \cup {<<"key", "TargetPci">>}, sets \cup {<<"TargetPci", address["TargetPci"]>>})
<1> DEFINE t == "TargetPci"
<1>1. t \in Targets /\ "Video" \in DOMAIN Keys /\ t \in Keys["Video"] /\ TargetValue(t) = address[t]
  BY TextAssumption DEF Targets, Devices, TargetValue
<1>2. FormatDisplay(TRUE) = <<Note, Written(t)>>
  BY DEF FormatDisplay
<1>3. lines \o <<Note, Written(t)>> = Append(Append(lines, Note), Written(t))
  BY <1>1, AppendTwo, SectionType, WrittenType DEF Built, CanWrite
<1>4. Built(Append(lines, Note), "Video", used, sets)
  BY BuiltNote
<1>5. Built(Append(Append(lines, Note), Written(t)), "Video",
            used \cup {<<"key", t>>}, sets \cup {<<t, TargetValue(t)>>})
  BY <1>1, <1>4, BuiltTarget
<1> QED BY <1>1, <1>2, <1>3, <1>5

\* and the selected disk its two.
LEMMA StorageSelected ==
  ASSUME CanWrite, NEW lines, NEW used, NEW sets, Built(lines, "Boot", used, sets),
         <<"key", "TargetControllerPci">> \notin used, <<"key", "TargetBbsDescription">> \notin used
  PROVE  Built(lines \o FormatStorage(TRUE), "Boot",
               (used \cup {<<"key", "TargetControllerPci">>}) \cup {<<"key", "TargetBbsDescription">>},
               (sets \cup {<<"TargetControllerPci", address["TargetControllerPci"]>>}) \cup {<<"TargetBbsDescription", description>>})
<1> DEFINE t == "TargetControllerPci"
           u == "TargetBbsDescription"
           x == Append(Append(lines, Note), Written(t))
<1>1. /\ t \in Targets /\ u \in Targets /\ "Boot" \in DOMAIN Keys
      /\ t \in Keys["Boot"] /\ u \in Keys["Boot"]
      /\ TargetValue(t) = address[t] /\ TargetValue(u) = description
  BY TextAssumption DEF Targets, Devices, TargetValue
<1>2. FormatStorage(TRUE) = <<Note>> \o <<Written(t), Written(u)>>
  BY DEF FormatStorage
<1>3. lines \o (<<Note>> \o <<Written(t), Written(u)>>) = Append(x, Written(u))
  BY <1>1, AppendThree, SectionType, WrittenType DEF Built, CanWrite
<1>4. Built(Append(lines, Note), "Boot", used, sets)
  BY BuiltNote
<1>5. Built(x, "Boot", used \cup {<<"key", t>>}, sets \cup {<<t, TargetValue(t)>>})
  BY <1>1, <1>4, BuiltTarget
<1>6. <<"key", u>> \notin used \cup {<<"key", t>>}
  OBVIOUS
<1> HIDE DEF x
<1>7. Built(Append(x, Written(u)), "Boot", (used \cup {<<"key", t>>}) \cup {<<"key", u>>},
            (sets \cup {<<t, TargetValue(t)>>}) \cup {<<u, TargetValue(u)>>})
  BY <1>1, <1>5, <1>6, BuiltTarget
<1> QED BY <1>1, <1>2, <1>3, <1>7

\* The text of a new file, for a choice of display and disk.
FreshText(g, d) ==
  <<Note, Section("Marker"), Setting("Enabled", "false"),
    Section("Behavior"), Setting("Probe", "false"), Section("Video")>>
  \o FormatDisplay(g = 1) \o FormatDisplay(g = 2) \o <<Section("Boot")>>
  \o FormatStorage(d = 1) \o FormatStorage(d = 2)

FreshSets ==
  ({<<"Enabled", "false">>, <<"Probe", "false">>, <<"TargetPci", address["TargetPci"]>>} \cup {<<"TargetControllerPci", address["TargetControllerPci"]>>})
  \cup {<<"TargetBbsDescription", description>>}

\* A new file parses and stores the targets and the mode, whichever display and
\* disk are selected.
LEMMA FreshBuilt ==
  ASSUME CanWrite, NEW g \in 1 .. 2, NEW d \in 1 .. 2
  PROVE  \E used : Built(FreshText(g, d), "Boot", used, FreshSets)
<1> DEFINE v1 == {<<"section", "Marker">>}
           v2 == v1 \cup {<<"key", "Enabled">>}
           u1 == v2 \cup {<<"section", "Behavior">>}
           u2 == u1 \cup {<<"key", "Probe">>}
           u3 == u2 \cup {<<"section", "Video">>}
           u4 == u3 \cup {<<"key", "TargetPci">>}
           u5 == u4 \cup {<<"section", "Boot">>}
           u7 == (u5 \cup {<<"key", "TargetControllerPci">>}) \cup {<<"key", "TargetBbsDescription">>}
           s0 == {<<"Enabled", "false">>}
           s1 == s0 \cup {<<"Probe", "false">>}
           s2 == s1 \cup {<<"TargetPci", address["TargetPci"]>>}
           enabled == Setting("Enabled", "false")
           probe   == Setting("Probe", "false")
           h0 == Append(<< >>, Note)
           g1 == Append(h0, Section("Marker"))
           g2 == Append(g1, enabled)
           h1 == Append(g2, Section("Behavior"))
           h2 == Append(h1, probe)
           h3 == Append(h2, Section("Video"))
<1>0. /\ {"Video", "Boot", "Behavior", "Marker"} \subseteq DOMAIN Keys
      /\ "Probe" \in Keys["Behavior"] /\ "Enabled" \in Keys["Marker"]
      /\ "Behavior" # None /\ "Marker" # None
  BY TextAssumption
<1>0a. /\ enabled \in Line /\ enabled.kind = "key" /\ enabled.name = "Enabled" /\ enabled.value = "false"
       /\ probe \in Line /\ probe.kind = "key" /\ probe.name = "Probe" /\ probe.value = "false"
  BY SectionType DEF Setting
<1>0b. SetKeyValue("Enabled", enabled.value) = {"false"} /\ SetKeyValue("Probe", probe.value) = {"false"}
  BY <1>0a DEF SetKeyValue
<1>1. Built(h0, None, {}, {})
  BY BuiltNothing, BuiltNote
<1>1a. Built(g1, "Marker", v1, {})
  <2> HIDE DEF h0
  <2>1. Built(g1, "Marker", {} \cup v1, {})
    BY <1>0, <1>1, BuiltSection
  <2>2. {} \cup v1 = v1
    OBVIOUS
  <2> QED BY <2>1, <2>2
<1>1b. Built(g2, "Marker", v2, s0)
  <2>1. <<"key", "Enabled">> \notin v1
    OBVIOUS
  <2> HIDE DEF g1, enabled, v1
  <2>2. Built(g2, "Marker", v2, {} \cup s0)
    BY <1>0, <1>0a, <1>0b, <1>1a, <2>1, BuiltKey
  <2>3. {} \cup s0 = s0
    OBVIOUS
  <2> QED BY <2>2, <2>3
<1>2. Built(h1, "Behavior", u1, s0)
  <2>1. <<"section", "Behavior">> \notin v2
    OBVIOUS
  <2> HIDE DEF g2, v2, s0
  <2> QED BY <1>0, <1>1b, <2>1, BuiltSection
<1>3. Built(h2, "Behavior", u2, s1)
  <2>1. <<"key", "Probe">> \notin u1
    OBVIOUS
  <2> HIDE DEF h1, probe, u1, s0
  <2> QED BY <1>0, <1>0a, <1>0b, <1>2, <2>1, BuiltKey
<1>4. Built(h3, "Video", u3, s1)
  <2>1. <<"section", "Video">> \notin u2
    OBVIOUS
  <2> HIDE DEF h2, u2, s1
  <2> QED BY <1>0, <1>3, <2>1, BuiltSection
<1>5. <<Note, Section("Marker"), enabled, Section("Behavior"), probe, Section("Video")>> = h3
  <2> DEFINE a == Section("Marker")
             b == Section("Behavior")
             c == Section("Video")
  <2>1. Note \in Line /\ a \in Line /\ b \in Line /\ c \in Line
    BY SectionType, <1>0
  <2> HIDE DEF a, b, c, enabled, probe
  <2> QED BY <1>0a, <2>1
<1> DEFINE x == h3 \o FormatDisplay(g = 1) \o FormatDisplay(g = 2)
<1>6. Built(x, "Video", u4, s2)
  <2>1. <<"key", "TargetPci">> \notin u3
    OBVIOUS
  <2> HIDE DEF h3, u3, s1
  <2>2. CASE g = 1
    <3>1. (g = 1) = TRUE /\ (g = 2) = FALSE
      BY <2>2
    <3>2. Built(h3 \o FormatDisplay(TRUE), "Video", u4, s2)
      BY <1>4, <2>1, DisplaySelected
    <3>3. Built((h3 \o FormatDisplay(TRUE)) \o FormatDisplay(FALSE), "Video", u4, s2)
      BY <3>2, DisplayPlain
    <3> QED BY <3>1, <3>3
  <2>3. CASE g = 2
    <3>1. (g = 1) = FALSE /\ (g = 2) = TRUE
      BY <2>3
    <3>2. Built(h3 \o FormatDisplay(FALSE), "Video", u3, s1)
      BY <1>4, DisplayPlain
    <3>3. Built((h3 \o FormatDisplay(FALSE)) \o FormatDisplay(TRUE), "Video", u4, s2)
      BY <2>1, <3>2, DisplaySelected
    <3> QED BY <3>1, <3>3
  <2> QED BY <2>2, <2>3
<1> DEFINE y == x \o <<Section("Boot")>>
<1>7. Built(y, "Boot", u5, s2)
  <2>1. <<"section", "Boot">> \notin u4
    OBVIOUS
  <2> HIDE DEF x, u4, s2
  <2>2. y = Append(x, Section("Boot"))
    <3>1. x \in Seq(Line) /\ Section("Boot") \in Line
      BY <1>0, <1>6, SectionType DEF Built
    <3> QED BY <3>1, AppendIsConcat
  <2>3. Built(Append(x, Section("Boot")), "Boot", u5, s2)
    BY <1>0, <1>6, <2>1, BuiltSection
  <2> QED BY <2>2, <2>3
<1> DEFINE z == y \o FormatStorage(d = 1) \o FormatStorage(d = 2)
           s4 == (s2 \cup {<<"TargetControllerPci", address["TargetControllerPci"]>>}) \cup {<<"TargetBbsDescription", description>>}
<1>8. Built(z, "Boot", u7, s4)
  <2>1. <<"key", "TargetControllerPci">> \notin u5 /\ <<"key", "TargetBbsDescription">> \notin u5
    OBVIOUS
  <2> HIDE DEF y, u5, s2
  <2>2. CASE d = 1
    <3>1. (d = 1) = TRUE /\ (d = 2) = FALSE
      BY <2>2
    <3>2. Built(y \o FormatStorage(TRUE), "Boot", u7, s4)
      BY <1>7, <2>1, StorageSelected
    <3>3. Built((y \o FormatStorage(TRUE)) \o FormatStorage(FALSE), "Boot", u7, s4)
      BY <3>2, StoragePlain
    <3> QED BY <3>1, <3>3
  <2>3. CASE d = 2
    <3>1. (d = 1) = FALSE /\ (d = 2) = TRUE
      BY <2>3
    <3>2. Built(y \o FormatStorage(FALSE), "Boot", u5, s2)
      BY <1>7, StoragePlain
    <3>3. Built((y \o FormatStorage(FALSE)) \o FormatStorage(TRUE), "Boot", u7, s4)
      BY <2>1, <3>2, StorageSelected
    <3> QED BY <3>1, <3>3
  <2> QED BY <2>2, <2>3
<1>9. FreshSets = s4
  BY DEF FreshSets
<1>10. FreshText(g, d) = z
  <2> HIDE DEF h3
  <2> QED BY <1>5, Zenon DEF FreshText
<1> HIDE DEF z, u7, s4
<1> QED BY <1>8, <1>9, <1>10

\* Two different devices have been chosen.
TwoDevices == address["TargetPci"] # address["TargetControllerPci"]

\* A text with good lines that stores two chosen devices, the mode and a valid
\* marker passes VerifyGeneratedBytes.
LEMMA SetsVerify ==
  ASSUME TwoDevices, NEW lines \in Seq(Line), LinesAreGood(lines),
         Chosen \subseteq NcvParseConfigStrict(lines).values,
         <<"Probe", "false">> \in NcvParseConfigStrict(lines).values,
         MarkerConfigIsValid(NcvParseConfigStrict(lines).values)
  PROVE  VerifyGeneratedBytes(lines)
<1> DEFINE p == NcvParseConfigStrict(lines)
           V == p.values
           display == <<"TargetPci", address["TargetPci"]>>
           disks   == <<"TargetControllerPci", address["TargetControllerPci"]>>
<1>1. display \in V /\ disks \in V
  BY DEF Chosen, Devices
<1>2. \A set, other \in V : set[1] = other[1] /\ set[1] # "TargetBbsDescription" => set = other
  BY ValueUnique
<1>3. p.ok <=> LinesAreGood(lines) /\ MarkerConfigIsValid(V) /\ ~SameDevice(V)
  BY DEF NcvParseConfigStrict
<1> HIDE DEF p, V
<1>4. ~SameDevice(V)
  <2> SUFFICES ASSUME NEW set \in V, NEW other \in V,
                      set[1] = "TargetPci", other[1] = "TargetControllerPci", set[2] = other[2]
               PROVE  FALSE
    BY DEF SameDevice
  <2>1. set = display /\ other = disks
    BY <1>1, <1>2
  <2> QED BY <2>1 DEF TwoDevices
<1>5. Has(p, "TargetPci") /\ Has(p, "TargetControllerPci")
  BY <1>1 DEF Has, V
<1>6. p.ok
  BY <1>3, <1>4 DEF p, V
<1>7. BootReady(p)
  BY <1>5, <1>6 DEF BootReady, Devices, p
<1> QED BY <1>7 DEF p, VerifyGeneratedBytes

\* So a new file passes.
LEMMA FreshVerifies ==
  ASSUME CanWrite, NEW g \in 1 .. 2, NEW d \in 1 .. 2
  PROVE  FreshText(g, d) \in Seq(Line) /\ (TwoDevices => VerifyGeneratedBytes(FreshText(g, d)))
<1> DEFINE f == FreshText(g, d)
           V == NcvParseConfigStrict(f).values
<1>1. PICK used : Built(f, "Boot", used, FreshSets)
  BY FreshBuilt
<1>2. f \in Seq(Line) /\ LinesAreGood(f) /\ FreshSets \subseteq V
  BY <1>1 DEF Built
<1> HIDE DEF f
<1>3. Chosen \subseteq V /\ <<"Probe", "false">> \in V /\ <<"Enabled", "false">> \in V
  <2> HIDE DEF V
  <2> QED BY <1>2 DEF Chosen, FreshSets, Devices
<1>4. MarkerConfigIsValid(V)
  <2> HIDE DEF V
  <2> QED BY <1>3 DEF MarkerConfigIsValid
<1>5. TwoDevices => VerifyGeneratedBytes(f)
  BY <1>2, <1>3, <1>4, SetsVerify
<1> QED BY <1>2, <1>5 DEF f

-----------------------------------------------------------------------------
(* Steps: types and kept settings.                                         *)

\* Every step keeps the types.
LEMMA TextTypeStep ==
  ASSUME TextType, [TextNext]_textVars
  PROVE  TextType'
<1> USE DEF TextType, Stages
<1>1. "TargetBbsDescription" \in Targets
  BY DEF Targets, Devices
<1>2. \A t \in Targets : Written(t) \in Line
  BY WrittenType
<1>3. AppendDescription(output) \in Seq(Line)
  BY <1>1, <1>2 DEF AppendDescription
<1>4. CASE TypeLine
  <2>1. PICK line \in Lines, cr \in Returns : file' = Append(file, [line EXCEPT !.cr = cr])
    BY <1>4 DEF TypeLine, Returns
  <2>2. [line EXCEPT !.cr = cr] \in Line
    BY LinesType DEF Line
  <2> QED BY <1>4, <2>1, <2>2 DEF TypeLine
<1>5. CASE StartEdit
  BY <1>5, TextsType DEF StartEdit
<1>6. CASE EditLine
  <2>1. file[position] \in Line
    BY <1>6 DEF EditLine
  <2>2. CASE EditSection(file[position])
    <3> DEFINE o == IF EndsBoot THEN AppendDescription(output) ELSE output
    <3>1. o \in Seq(Line) /\ output' = Append(o, file[position])
      BY <1>3, <2>2 DEF EditSection
    <3> HIDE DEF o
    <3>2. output' \in Seq(Line)
      BY <2>1, <3>1
    <3>3. seen' \subseteq Targets /\ stage' \in Stages
      BY <1>1, <2>2 DEF EditSection
    <3> QED BY <1>6, <3>2, <3>3 DEF EditLine
  <2>3. CASE EditTarget(file[position])
    <3>1. file[position].name \in Targets
      BY <2>3 DEF EditTarget, IsTarget, Targets, Devices
    <3>2. Written(file[position].name) \in Line
      BY <1>2, <3>1
    <3>3. output' \in Seq(Line)
      <4> DEFINE w == Written(file[position].name)
      <4>1. w \in Line /\ output \in Seq(Line)
        BY <3>2
      <4>2. output' \in {output, Append(output, w)}
        BY <2>3, Zenon DEF EditTarget
      <4> HIDE DEF w
      <4>3. Append(output, w) \in Seq(Line)
        BY <4>1
      <4> QED BY <4>1, <4>2, <4>3, Zenon
    <3>4. seen' \subseteq Targets /\ stage' \in Stages
      BY <2>3, <3>1 DEF EditTarget
    <3> QED BY <1>6, <3>3, <3>4 DEF EditLine
  <2>4. CASE CopyLine(file[position])
    BY <1>6, <2>1, <2>4 DEF EditLine, CopyLine
  <2> QED BY <1>6, <2>2, <2>3, <2>4 DEF EditLine
<1>7. CASE OutOfRoom
  BY <1>7 DEF OutOfRoom
<1>8. CASE EditEnd
  BY <1>1, <1>3, <1>8 DEF EditEnd
<1>9. CASE SelectFresh
  BY <1>9, TextsType DEF SelectFresh
<1>10. CASE NcvFormatCandidateIni
  <2>1. PICK g \in 1 .. 2, d \in 1 .. 2 : output' = FreshText(g, d)
    BY <1>10 DEF NcvFormatCandidateIni, FreshText
  <2>2. FreshText(g, d) \in Seq(Line)
    BY <1>10, FreshVerifies DEF NcvFormatCandidateIni, CanWrite
  <2> QED BY <1>10, <2>1, <2>2 DEF NcvFormatCandidateIni
<1>11. CASE Verify
  BY <1>11 DEF Verify
<1>12. CASE Done
  BY <1>12 DEF Done, textVars
<1>13. CASE UNCHANGED textVars
  BY <1>13 DEF textVars
<1> QED BY <1>4, <1>5, <1>6, <1>7, <1>8, <1>9, <1>10, <1>11, <1>12, <1>13 DEF TextNext

\* Adding the description changes no other setting.
LEMMA DescriptionKept ==
  ASSUME TextType
  PROVE  /\ AppendDescription(output) \in Seq(Line)
         /\ Kept(AppendDescription(output), Len(AppendDescription(output))) = Kept(output, Len(output))
<1> DEFINE w == Written("TargetBbsDescription")
<1>1. w \in Line /\ w.name \in Targets
  BY WrittenType DEF TextType, Targets, Devices
<1>2. output \in Seq(Line) /\ AppendDescription(output) = Append(output, w)
  BY DEF TextType, AppendDescription
<1> HIDE DEF w
<1>3. NewKept(w) = {}
  BY <1>1 DEF NewKept
<1>4. Append(output, w) \in Seq(Line)
  BY <1>1, <1>2
<1>5. Kept(Append(output, w), Len(Append(output, w))) = Kept(output, Len(output)) \cup NewKept(w)
  BY <1>1, <1>2, KeptAppended, Zenon
<1>6. \A S : S \cup {} = S
  OBVIOUS
<1>7. Kept(Append(output, w), Len(Append(output, w))) = Kept(output, Len(output))
  BY <1>3, <1>5, <1>6, Zenon
<1> QED BY <1>2, <1>4, <1>7, Zenon

\* Every step keeps the settings that are no targets.
LEMMA ExactStep ==
  ASSUME TextType, ExactInv, [TextNext]_textVars
  PROVE  ExactInv'
<1>0. /\ file \in Seq(Line) /\ output \in Seq(Line) /\ position \in Nat \ {0} /\ Len(file) \in Nat
  BY DEF TextType
<1>1. CASE TypeLine
  BY <1>1 DEF TypeLine, ExactInv
<1>2. CASE StartEdit
  <2>1. Kept(<< >>, Len(<< >>)) = {} /\ Kept(file, 1 - 1) = {}
    BY DEF Kept, KeptLines
  <2>2. output = << >> /\ position = 1
    BY <1>2 DEF StartEdit, ExactInv
  <2>3. stage' = "edit" /\ output' = << >> /\ file' = file /\ position' = 1
    BY <1>2, <2>2 DEF StartEdit
  <2>4. Kept(output', Len(output')) = Kept(file', position' - 1)
    BY <2>1, <2>3, Zenon
  <2>5. position' <= Len(file') + 1
    BY <1>0, <2>3
  <2> QED BY <2>3, <2>4, <2>5 DEF ExactInv
<1>3. CASE EditLine
  <2> DEFINE line == file[position]
  <2>1. /\ stage = "edit" /\ position \in 1 .. Len(file) /\ position' = position + 1
        /\ file' = file /\ line \in Line
    BY <1>0, <1>3 DEF EditLine
  <2>2. Kept(output, Len(output)) = Kept(file, position - 1)
    BY <2>1 DEF ExactInv
  <2>3. Kept(file, position) = Kept(file, position - 1) \cup NewKept(line)
    <3>1. position - 1 \in Nat /\ (position - 1) + 1 = position
      BY <1>0
    <3>2. Kept(file, (position - 1) + 1) = Kept(file, position - 1) \cup NewKept(file[(position - 1) + 1])
      BY <3>1, KeptStep
    <3> QED BY <3>1, <3>2
  <2> SUFFICES ASSUME stage' = "edit"
               PROVE  Kept(output', Len(output')) = Kept(output, Len(output)) \cup NewKept(line)
    <3>1. stage' \in {"edit", "invalid"}
      BY <1>3, <2>1 DEF EditLine, EditSection, EditTarget, CopyLine
    <3>2. position' - 1 = position /\ position' <= Len(file') + 1
      BY <1>0, <2>1
    <3> HIDE DEF line
    <3> QED BY <2>1, <2>2, <2>3, <3>1, <3>2 DEF ExactInv
  <2>4. CASE EditSection(line)
    <3> DEFINE o == IF EndsBoot THEN AppendDescription(output) ELSE output
    <3>1. o \in Seq(Line) /\ Kept(o, Len(o)) = Kept(output, Len(output))
      BY <1>0, DescriptionKept
    <3>2. output' = Append(o, line)
      BY <2>4 DEF EditSection
    <3> HIDE DEF o, line
    <3> QED BY <2>1, <3>1, <3>2, KeptAppended
  <2>5. CASE EditTarget(line)
    <3>1. line.name \in Targets /\ line.name \notin seen /\ output' = Append(output, Written(line.name))
      BY <2>1, <2>5 DEF EditTarget, IsTarget, Targets, Devices
    <3> DEFINE w == Written(line.name)
    <3>2. w \in Line /\ w.name \in Targets
      BY <3>1, WrittenType DEF TextType
    <3>3. NewKept(w) = {} /\ NewKept(line) = {}
      BY <3>1, <3>2 DEF NewKept
    <3> HIDE DEF w
    <3>4. output' = Append(output, w)
      BY <3>1 DEF w
    <3> QED BY <1>0, <3>2, <3>3, <3>4, KeptAppended
  <2>6. CASE CopyLine(line)
    <3>1. output' = Append(output, line)
      BY <2>6 DEF CopyLine
    <3> HIDE DEF line
    <3> QED BY <1>0, <2>1, <3>1, KeptAppended
  <2> QED BY <1>3, <2>4, <2>5, <2>6 DEF EditLine
<1>4. CASE OutOfRoom
  BY <1>4 DEF OutOfRoom, ExactInv
<1>5. CASE EditEnd
  <2>1. /\ stage = "edit" /\ position > Len(file) /\ file' = file /\ stage' \in {"verify", "invalid"}
        /\ output' = (IF EndsBoot THEN AppendDescription(output) ELSE output)
    BY <1>5 DEF EditEnd
  <2>2. position - 1 = Len(file)
    BY <1>0, <2>1 DEF ExactInv
  <2>3. Kept(output', Len(output')) = Kept(output, Len(output))
    BY <2>1, DescriptionKept
  <2>4. Kept(output, Len(output)) = Kept(file, position - 1)
    BY <2>1 DEF ExactInv
  <2> QED BY <2>1, <2>2, <2>3, <2>4 DEF ExactInv
<1>6. CASE SelectFresh
  BY <1>6 DEF SelectFresh, ExactInv
<1>7. CASE NcvFormatCandidateIni
  BY <1>7 DEF NcvFormatCandidateIni, ExactInv
<1>8. CASE Verify
  <2>1. stage' \in {"published", "unverified"} /\ stage = "verify"
        /\ (stage' = "published" => VerifyGeneratedBytes(output))
        /\ output' = output /\ file' = file /\ description' = description /\ address' = address
    BY <1>8 DEF Verify
  <2>2. VerifyGeneratedBytes(output)' <=> VerifyGeneratedBytes(output)
    BY <2>1 DEF VerifyGeneratedBytes, Chosen
  <2> QED BY <2>1, <2>2 DEF ExactInv
<1>9. CASE Done \/ UNCHANGED textVars
  <2>1. UNCHANGED textVars
    BY <1>9 DEF Done
  <2>2. VerifyGeneratedBytes(output)' <=> VerifyGeneratedBytes(output)
    BY <2>1 DEF VerifyGeneratedBytes, Chosen, textVars
  <2> QED BY <2>1, <2>2 DEF ExactInv, textVars
<1> QED BY <1>1, <1>2, <1>3, <1>4, <1>5, <1>6, <1>7, <1>8, <1>9 DEF TextNext

-----------------------------------------------------------------------------
(* The editor and the parser on the same file.                             *)

\* The sections whose keys the editor looks at.
EditorSection(name) == IF name \in {"Video", "Boot"} THEN name ELSE None

BootOpened(n) == \E k \in 1 .. n : IsSection(file[k], "Boot")
BootClosed(n) == BootOpened(n) /\ SectionAt(file, n) # "Boot"

\* After n lines a target counts as seen when its line has been passed, and the
\* description also when [Boot] has ended without one.
SeenOk(S, n) ==
  /\ \A k \in 1 .. n : IsTargetKey(file[k]) => file[k].name \in S
  /\ \A t \in S : (\E k \in 1 .. n : IsKey(file[k], t)) \/ (t = "TargetBbsDescription" /\ BootClosed(n))
  /\ BootClosed(n) => "TargetBbsDescription" \in S

\* Where a line of the output comes from.
CameFrom(line, S, n) ==
  \/ line.kind = "note"
  \/ line.kind = "key" /\ line.name \in S
  \/ ~IsTargetKey(line) /\ \E k \in 1 .. n : file[k] = line

OutputOk(out, S, n) ==
  /\ out \in Seq(Line) /\ LinesAreGood(out)
  /\ SectionAt(out, Len(out)) = SectionAt(file, n)
  /\ \A t \in S : \E j \in 1 .. Len(out) : out[j] = Written(t)
  /\ \A j \in 1 .. Len(out) : CameFrom(out[j], S, n)

EditorInv ==
  /\ BootReady(NcvParseConfigStrict(file)) /\ NcvIniValueIsExactlyRepresentable(description)
  /\ section = EditorSection(SectionAt(file, position - 1))
  /\ SeenOk(seen, position - 1) /\ OutputOk(output, seen, position - 1)

AcceptInv ==
  Strays = {} =>
    /\ stage # "invalid"
    /\ TwoDevices => stage # "unverified" /\ (stage = "verify" => VerifyGeneratedBytes(output))
    /\ stage = "edit" => EditorInv

-----------------------------------------------------------------------------
(* Sections of a file that parses.                                         *)

GoodFile == file \in Seq(Line) /\ LinesAreGood(file)

\* A section in force is one the parser knows.
LEMMA SectionKnown ==
  ASSUME GoodFile, NEW n \in 0 .. Len(file), SectionAt(file, n) # None
  PROVE  SectionAt(file, n) \in DOMAIN Keys
<1> DEFINE m == Len(file)
<1>0. file \in Seq(Line)
  BY DEF GoodFile
<1>1. m \in Nat /\ n \in 0 .. m
  BY <1>0
<1> HIDE DEF m
<1>1a. n \in Nat
  BY <1>1
<1>2. PICK j \in 1 .. n : IsSection(file[j], SectionAt(file, n))
  BY <1>1a, SectionOpened
<1>3. j \in 1 .. m
  BY <1>1
<1> QED BY <1>2, <1>3, GoodKey DEF GoodFile, IsSection, m

\* A target is in its section.
LEMMA TargetHome ==
  ASSUME GoodFile, NEW k \in 1 .. Len(file), IsTargetKey(file[k])
  PROVE  /\ SectionAt(file, k) \in DOMAIN Keys /\ file[k].name \in Keys[SectionAt(file, k)]
         /\ file[k].name = "TargetPci" <=> SectionAt(file, k) = "Video"
         /\ file[k].name \in {"TargetControllerPci", "TargetBbsDescription"} <=> SectionAt(file, k) = "Boot"
<1>1. k \in 0 .. Len(file)
  BY DEF GoodFile
<1>2. SectionAt(file, k) # None /\ file[k].name \in Keys[SectionAt(file, k)]
  BY GoodKey DEF GoodFile, IsTargetKey
<1>3. SectionAt(file, k) \in DOMAIN Keys
  BY <1>1, <1>2, SectionKnown
<1>4. file[k].name \in Targets
  BY DEF IsTargetKey
<1> HIDE DEF IsTargetKey
<1> QED BY <1>2, <1>3, <1>4, TextAssumption DEF Targets, Devices

\* The line after the first n.
LEMMA NextLine ==
  ASSUME GoodFile, NEW n \in Nat, n + 1 <= Len(file)
  PROVE  /\ n + 1 \in 1 .. Len(file) /\ file[n + 1] \in Line
         /\ \A k \in 1 .. n + 1 : k \in 1 .. n \/ k = n + 1
         /\ \A k \in 1 .. n : k \in 1 .. n + 1 /\ k \in 1 .. Len(file) /\ k # n + 1
         /\ SectionAt(file, n + 1) =
              IF file[n + 1].kind = "section" THEN file[n + 1].name ELSE SectionAt(file, n)
<1>1. Len(file) \in Nat /\ file \in Seq(Line)
  BY DEF GoodFile
<1>2. n + 1 \in 1 .. Len(file) /\ file[n + 1] \in Line
  BY <1>1
<1>3. \A k \in 1 .. n : k \in 1 .. n + 1 /\ k \in 1 .. Len(file) /\ k # n + 1
  BY <1>1
<1>4. \A k \in 1 .. n + 1 : k \in 1 .. n \/ k = n + 1
  OBVIOUS
<1>5. SectionAt(file, n + 1) =
        IF file[n + 1].kind = "section" THEN file[n + 1].name ELSE SectionAt(file, n)
  BY SectionStep
<1> QED BY <1>2, <1>3, <1>4, <1>5

\* The next section or key is none of those passed.
LEMMA NotTwice ==
  ASSUME GoodFile, NEW n \in Nat, n + 1 <= Len(file), file[n + 1].kind # "note", NEW k \in 1 .. n
  PROVE  ~(file[k].kind = file[n + 1].kind /\ file[k].name = file[n + 1].name)
<1>1. n + 1 \in 1 .. Len(file) /\ k \in 1 .. Len(file) /\ k # n + 1
  BY NextLine
<1> QED BY <1>1, NoTwice DEF GoodFile

-----------------------------------------------------------------------------
(* What the editor has seen.                                               *)

\* A target that is passed has not been seen.
LEMMA TargetUnseen ==
  ASSUME GoodFile, NEW n \in Nat, n + 1 <= Len(file), NEW S, SeenOk(S, n), IsTargetKey(file[n + 1])
  PROVE  file[n + 1].name \notin S
<1> DEFINE l == file[n + 1]
<1> SUFFICES ASSUME l.name \in S PROVE FALSE
  OBVIOUS
<1>1. l.kind = "key" /\ l.name \in Targets
  BY DEF IsTargetKey
<1>2. n + 1 \in 1 .. Len(file) /\ SectionAt(file, n + 1) = SectionAt(file, n)
  BY <1>1, NextLine
<1>3. CASE \E k \in 1 .. n : IsKey(file[k], l.name)
  BY <1>1, <1>3, NotTwice DEF IsKey
<1>4. CASE l.name = "TargetBbsDescription" /\ BootClosed(n)
  <2>1. SectionAt(file, n + 1) = "Boot"
    BY <1>2, <1>4, TargetHome
  <2> QED BY <1>2, <1>4, <2>1 DEF BootClosed
<1> QED BY <1>3, <1>4 DEF SeenOk

\* [Boot] has been opened when it was, or when this line opens it.
LEMMA BootOpenedNext ==
  ASSUME GoodFile, NEW n \in Nat, n + 1 <= Len(file)
  PROVE  BootOpened(n + 1) <=> BootOpened(n) \/ IsSection(file[n + 1], "Boot")
<1>1. /\ \A k \in 1 .. n + 1 : k \in 1 .. n \/ k = n + 1
      /\ \A k \in 1 .. n : k \in 1 .. n + 1
      /\ n + 1 \in 1 .. n + 1
  BY NextLine
<1> QED BY <1>1 DEF BootOpened

\* What has been seen after a section line: the description too, if it was
\* [Boot] that ended.
LEMMA SeenSection ==
  ASSUME GoodFile, NEW n \in Nat, n + 1 <= Len(file), NEW S, SeenOk(S, n),
         file[n + 1].kind = "section", NEW T,
         T = IF SectionAt(file, n) = "Boot" THEN S \cup {"TargetBbsDescription"} ELSE S
  PROVE  SeenOk(T, n + 1)
<1> DEFINE l == file[n + 1]
           D == "TargetBbsDescription"
<1>1. /\ \A k \in 1 .. n + 1 : k \in 1 .. n \/ k = n + 1
      /\ \A k \in 1 .. n : k \in 1 .. n + 1
      /\ SectionAt(file, n + 1) = l.name
  BY NextLine
<1>2. BootOpened(n) => l.name # "Boot"
  <2>1. \A k \in 1 .. n : ~(file[k].kind = l.kind /\ file[k].name = l.name)
    BY NotTwice
  <2> QED BY <2>1 DEF BootOpened, IsSection
<1>3. BootOpened(n + 1) <=> BootOpened(n) \/ l.name = "Boot"
  BY BootOpenedNext DEF IsSection
<1>4. SectionAt(file, n) = "Boot" => BootOpened(n)
  <2>1. "Boot" # None
    BY TextAssumption
  <2> QED BY <2>1, SectionOpened DEF BootOpened
<1>5. BootClosed(n + 1) <=> BootOpened(n)
  BY <1>1, <1>2, <1>3 DEF BootClosed
<1>6. \A k \in 1 .. n + 1 : IsTargetKey(file[k]) => file[k].name \in T
  BY <1>1 DEF SeenOk, IsTargetKey
<1>7. \A t \in T : (\E k \in 1 .. n + 1 : IsKey(file[k], t)) \/ (t = D /\ BootClosed(n + 1))
  <2> SUFFICES ASSUME NEW t \in T
               PROVE  (\E k \in 1 .. n + 1 : IsKey(file[k], t)) \/ (t = D /\ BootClosed(n + 1))
    OBVIOUS
  <2>1. CASE t \in S
    BY <1>1, <1>5, <2>1 DEF SeenOk, BootClosed
  <2>2. CASE t \notin S
    BY <1>4, <1>5, <2>2
  <2> QED BY <2>1, <2>2
<1>8. BootClosed(n + 1) => D \in T
  BY <1>5 DEF SeenOk, BootClosed
<1> QED BY <1>6, <1>7, <1>8 DEF SeenOk

\* What has been seen after the line of a target.
LEMMA SeenTarget ==
  ASSUME GoodFile, NEW n \in Nat, n + 1 <= Len(file), NEW S, SeenOk(S, n), IsTargetKey(file[n + 1])
  PROVE  SeenOk(S \cup {file[n + 1].name}, n + 1)
<1> DEFINE l == file[n + 1]
<1>0. l.kind = "key" /\ IsKey(l, l.name) /\ n + 1 \in 1 .. n + 1
  BY DEF IsTargetKey, IsKey
<1>1. /\ \A k \in 1 .. n + 1 : k \in 1 .. n \/ k = n + 1
      /\ \A k \in 1 .. n : k \in 1 .. n + 1
      /\ SectionAt(file, n + 1) = SectionAt(file, n)
  BY <1>0, NextLine
<1>2. BootClosed(n + 1) <=> BootClosed(n)
  BY <1>0, <1>1, BootOpenedNext DEF BootClosed, IsSection
<1>3. \A k \in 1 .. n + 1 : IsTargetKey(file[k]) => file[k].name \in S \cup {l.name}
  BY <1>1 DEF SeenOk
<1>4. \A t \in S \cup {l.name} :
        (\E k \in 1 .. n + 1 : IsKey(file[k], t)) \/ (t = "TargetBbsDescription" /\ BootClosed(n + 1))
  BY <1>0, <1>1, <1>2 DEF SeenOk
<1>5. BootClosed(n + 1) => "TargetBbsDescription" \in S \cup {l.name}
  BY <1>2 DEF SeenOk
<1> QED BY <1>3, <1>4, <1>5 DEF SeenOk

\* Any other line shows no target.
LEMMA SeenOther ==
  ASSUME GoodFile, NEW n \in Nat, n + 1 <= Len(file), NEW S, SeenOk(S, n),
         ~IsTargetKey(file[n + 1]), file[n + 1].kind # "section"
  PROVE  SeenOk(S, n + 1)
<1>1. /\ \A k \in 1 .. n + 1 : k \in 1 .. n \/ k = n + 1
      /\ \A k \in 1 .. n : k \in 1 .. n + 1
      /\ SectionAt(file, n + 1) = SectionAt(file, n)
  BY NextLine
<1>2. BootClosed(n + 1) <=> BootClosed(n)
  BY <1>1, BootOpenedNext DEF BootClosed, IsSection
<1>3. \A k \in 1 .. n + 1 : IsTargetKey(file[k]) => file[k].name \in S
  BY <1>1 DEF SeenOk
<1>4. \A t \in S :
        (\E k \in 1 .. n + 1 : IsKey(file[k], t)) \/ (t = "TargetBbsDescription" /\ BootClosed(n + 1))
  BY <1>1, <1>2 DEF SeenOk
<1>5. BootClosed(n + 1) => "TargetBbsDescription" \in S
  BY <1>2 DEF SeenOk
<1> QED BY <1>3, <1>4, <1>5 DEF SeenOk

\* At the end of a file with its targets all of them have been seen, except for
\* a description that [Boot] at the end of the file does not have.
LEMMA SeenAll ==
  ASSUME GoodFile, BootReady(NcvParseConfigStrict(file)), NEW S, SeenOk(S, Len(file)),
         NEW T, S \subseteq T, T \subseteq Targets,
         SectionAt(file, Len(file)) = "Boot" => "TargetBbsDescription" \in T
  PROVE  T = Targets
<1> DEFINE p == NcvParseConfigStrict(file)
<1>0. DOMAIN file = 1 .. Len(file) /\ Len(file) \in Nat
  BY DEF GoodFile
<1>1. \A t \in {"TargetPci", "TargetControllerPci"} : \E k \in 1 .. Len(file) : IsKey(file[k], t)
  <2> SUFFICES ASSUME NEW t \in {"TargetPci", "TargetControllerPci"}
               PROVE  \E k \in 1 .. Len(file) : IsKey(file[k], t)
    OBVIOUS
  <2>1. PICK set \in p.values : set[1] = t
    <3> HIDE DEF p
    <3> QED BY DEF BootReady, Has, Devices, p
  <2>2. <<set[1], set[2]>> \in p.values
    BY <2>1, ValueIsPair
  <2>3. \E k \in KeyLines(file) : file[k].name = set[1]
    BY <2>2, ValueIs
  <2> QED BY <1>0, <2>1, <2>3 DEF KeyLines, IsKey
<1>2. "TargetPci" \in S /\ "TargetControllerPci" \in S
  BY <1>1 DEF SeenOk, IsKey, IsTargetKey, Targets, Devices
<1>3. PICK k \in 1 .. Len(file) : IsKey(file[k], "TargetControllerPci")
  BY <1>1
<1>4. SectionAt(file, k) = "Boot"
  BY <1>3, TargetHome DEF IsKey, IsTargetKey, Targets, Devices
<1>5. BootOpened(Len(file))
  <2>1. k \in Nat /\ "Boot" # None
    BY <1>0, TextAssumption
  <2>2. PICK j \in 1 .. k : IsSection(file[j], "Boot")
    BY <1>4, <2>1, SectionOpened
  <2>3. j \in 1 .. Len(file)
    BY <1>0
  <2> QED BY <2>2, <2>3 DEF BootOpened
<1>6. "TargetBbsDescription" \in T
  BY <1>5 DEF SeenOk, BootClosed
<1> QED BY <1>2, <1>6 DEF Targets, Devices

-----------------------------------------------------------------------------
(* What the editor has written.                                            *)

\* Where a line came from stays true as the editor moves on.
LEMMA CameFromMore ==
  ASSUME NEW n \in Nat, NEW line, NEW S, CameFrom(line, S, n), NEW T, S \subseteq T, NEW m \in {n, n + 1}
  PROVE  CameFrom(line, T, m)
<1>1. \A k \in 1 .. n : k \in 1 .. m
  OBVIOUS
<1> QED BY <1>1 DEF CameFrom

\* A target is written where its section is.
LEMMA OutputTarget ==
  ASSUME CanWrite, NEW n \in Nat, NEW out, NEW S, OutputOk(out, S, n),
         NEW t \in Targets, t \notin S,
         SectionAt(file, n) \in DOMAIN Keys, t \in Keys[SectionAt(file, n)]
  PROVE  OutputOk(Append(out, Written(t)), S \cup {t}, n)
<1> DEFINE w   == Written(t)
           new == Append(out, w)
           m   == Len(out)
<1>1. w \in Line /\ w.kind = "key" /\ w.name = t /\ SetKeyValue(t, w.value) # {}
  BY WrittenType, WrittenValue DEF CanWrite
<1>2. out \in Seq(Line) /\ LinesAreGood(out) /\ SectionAt(out, m) = SectionAt(file, n)
  BY DEF OutputOk
<1> HIDE DEF w
<1>3. /\ new \in Seq(Line) /\ Len(new) = m + 1 /\ m \in Nat
      /\ new[m + 1] = w /\ \A j \in 1 .. m : new[j] = out[j]
  BY <1>1, <1>2, Appended
<1>4. \A j \in 1 .. m : ~(out[j].kind = "key" /\ out[j].name = t)
  BY DEF OutputOk, CameFrom, IsTargetKey
<1>5. SectionAt(file, n) # None
  BY TextAssumption
<1>6. GoodNext(out, w)
  BY <1>1, <1>2, <1>4, <1>5 DEF GoodNext
<1>7. LinesAreGood(new)
  BY <1>1, <1>2, <1>6, AppendedOk
<1>8. SectionAt(new, m + 1) = SectionAt(file, n)
  BY <1>1, <1>2, AppendedSection
<1> HIDE DEF new, m
<1>9. /\ \A j \in 1 .. m : j \in 1 .. m + 1
      /\ \A j \in 1 .. m + 1 : j \in 1 .. m \/ j = m + 1
      /\ m + 1 \in 1 .. m + 1
  BY <1>3
<1>10. \A u \in S \cup {t} : \E j \in 1 .. m + 1 : new[j] = Written(u)
  <2>1. \A u \in S : \E j \in 1 .. m : out[j] = Written(u)
    BY DEF OutputOk, m
  <2>2. new[m + 1] = Written(t)
    BY <1>3 DEF w
  <2> QED BY <1>3, <1>9, <2>1, <2>2
<1>11. \A j \in 1 .. m + 1 : CameFrom(new[j], S \cup {t}, n)
  <2>1. \A j \in 1 .. m : CameFrom(out[j], S, n)
    BY DEF OutputOk, m
  <2>2. \A j \in 1 .. m : CameFrom(out[j], S \cup {t}, n)
    BY <2>1, CameFromMore
  <2>3. CameFrom(w, S \cup {t}, n)
    BY <1>1 DEF CameFrom
  <2> QED BY <1>3, <1>9, <2>2, <2>3
<1>12. OutputOk(new, S \cup {t}, n)
  BY <1>3, <1>7, <1>8, <1>10, <1>11 DEF OutputOk
<1> QED BY <1>12 DEF new, w

\* Passing a line that is not a section changes nothing.
LEMMA OutputPass ==
  ASSUME GoodFile, NEW n \in Nat, n + 1 <= Len(file), file[n + 1].kind # "section",
         NEW out, NEW S, OutputOk(out, S, n)
  PROVE  OutputOk(out, S, n + 1)
<1>1. SectionAt(file, n + 1) = SectionAt(file, n)
  BY NextLine
<1>2. \A j \in 1 .. Len(out) : CameFrom(out[j], S, n + 1)
  BY CameFromMore DEF OutputOk
<1> QED BY <1>1, <1>2 DEF OutputOk

\* A line that is no target may be copied.
LEMMA OutputCopy ==
  ASSUME GoodFile, NEW n \in Nat, n + 1 <= Len(file), ~IsTargetKey(file[n + 1]),
         NEW out, NEW S, S \subseteq Targets, OutputOk(out, S, n)
  PROVE  OutputOk(Append(out, file[n + 1]), S, n + 1)
<1> DEFINE l   == file[n + 1]
           new == Append(out, l)
           m   == Len(out)
<1>1. /\ l \in Line /\ n + 1 \in 1 .. Len(file)
      /\ SectionAt(file, n + 1) = IF l.kind = "section" THEN l.name ELSE SectionAt(file, n)
  BY NextLine
<1>2. out \in Seq(Line) /\ LinesAreGood(out) /\ SectionAt(out, m) = SectionAt(file, n)
  BY DEF OutputOk
<1>3. /\ l.kind = "section" => l.name \in DOMAIN Keys
      /\ l.kind = "key" =>
           /\ SectionAt(file, n + 1) # None /\ l.name \in Keys[SectionAt(file, n + 1)]
           /\ SetKeyValue(l.name, l.value) # {}
  BY <1>1, GoodKey DEF GoodFile
<1>4. l.kind # "note" => \A k \in 1 .. n : ~(file[k].kind = l.kind /\ file[k].name = l.name)
  BY NotTwice
<1>5. \E k \in 1 .. n + 1 : file[k] = l
  OBVIOUS
<1>6. ~(l.kind = "key" /\ l.name \in Targets)
  BY DEF IsTargetKey
<1> HIDE DEF l
<1>7. l.kind # "note" => \A j \in 1 .. m : ~(out[j].kind = l.kind /\ out[j].name = l.name)
  <2> SUFFICES ASSUME l.kind # "note", NEW j \in 1 .. m, out[j].kind = l.kind, out[j].name = l.name
               PROVE  FALSE
    OBVIOUS
  <2>1. CameFrom(out[j], S, n)
    BY DEF OutputOk
  <2>2. ~(out[j].kind = "key" /\ out[j].name \in S)
    BY <1>6
  <2>3. \E k \in 1 .. n : file[k] = out[j]
    BY <2>1, <2>2 DEF CameFrom
  <2> QED BY <1>4, <2>3
<1>8. GoodNext(out, l)
  BY <1>1, <1>2, <1>3, <1>7 DEF GoodNext
<1>9. /\ new \in Seq(Line) /\ Len(new) = m + 1 /\ m \in Nat
      /\ new[m + 1] = l /\ \A j \in 1 .. m : new[j] = out[j]
  BY <1>1, <1>2, Appended
<1>10. LinesAreGood(new)
  BY <1>1, <1>2, <1>8, AppendedOk
<1>11. SectionAt(new, m + 1) = SectionAt(file, n + 1)
  BY <1>1, <1>2, AppendedSection
<1> HIDE DEF new, m
<1>12. /\ \A j \in 1 .. m : j \in 1 .. m + 1
       /\ \A j \in 1 .. m + 1 : j \in 1 .. m \/ j = m + 1
  BY <1>9
<1>13. \A u \in S : \E j \in 1 .. m + 1 : new[j] = Written(u)
  <2>1. \A u \in S : \E j \in 1 .. m : out[j] = Written(u)
    BY DEF OutputOk, m
  <2> QED BY <1>9, <1>12, <2>1
<1>14. \A j \in 1 .. m + 1 : CameFrom(new[j], S, n + 1)
  <2>1. \A j \in 1 .. m : CameFrom(out[j], S, n)
    BY DEF OutputOk, m
  <2>2. \A j \in 1 .. m : CameFrom(out[j], S, n + 1)
    BY <2>1, CameFromMore
  <2>3. CameFrom(l, S, n + 1)
    BY <1>5, <1>6 DEF CameFrom, IsTargetKey
  <2> QED BY <1>9, <1>12, <2>2, <2>3
<1>15. OutputOk(new, S, n + 1)
  BY <1>9, <1>10, <1>11, <1>13, <1>14 DEF OutputOk
<1> QED BY <1>15 DEF new, l

\* On a line that is no stray the editor and the parser agree what is a target.
LEMMA EditorAgrees ==
  ASSUME GoodFile, NEW n \in Nat, n + 1 <= Len(file), n + 1 \notin Strays,
         section = EditorSection(SectionAt(file, n))
  PROVE  IsTarget(file[n + 1]) <=> IsTargetKey(file[n + 1])
<1> DEFINE l == file[n + 1]
           s == SectionAt(file, n)
<1>1. n + 1 \in 1 .. Len(file) /\ (l.kind = "key" => SectionAt(file, n + 1) = s)
  BY NextLine
<1>2. CASE IsTarget(l)
  BY <1>2 DEF IsTarget, IsTargetKey, Targets, Devices
<1>3. CASE IsTargetKey(l)
  <2>1. l.kind = "key" /\ l.name \in Targets
    BY <1>3 DEF IsTargetKey
  <2>1a. l.cr = None
    <3>1. n + 1 \in DOMAIN file
      BY <1>1 DEF GoodFile
    <3> QED BY <2>1, <3>1 DEF Strays
  <2>2. /\ l.name = "TargetPci" <=> s = "Video"
        /\ l.name \in {"TargetControllerPci", "TargetBbsDescription"} <=> s = "Boot"
    BY <1>1, <1>3, <2>1, TargetHome
  <2>3. section = EditorSection(s)
    OBVIOUS
  <2> HIDE DEF l, s
  <2>4. \/ l.name = "TargetPci" /\ section = "Video"
        \/ l.name \in {"TargetControllerPci", "TargetBbsDescription"} /\ section = "Boot"
    BY <2>1, <2>2, <2>3 DEF EditorSection, Targets, Devices
  <2>5. IsTarget(l)
    BY <2>1, <2>1a, <2>4 DEF IsTarget
  <2> QED BY <1>3, <2>5 DEF l
<1> QED BY <1>2, <1>3

\* The marker is as valid after an edit as it was before.
LEMMA MarkerSame ==
  ASSUME NEW V, NEW W, MarkerConfigIsValid(V),
         {set \in V : set[1] \notin Targets} = {set \in W : set[1] \notin Targets}
  PROVE  MarkerConfigIsValid(W)
<1> DEFINE M == Keys["Marker"]
           N == {"Partition", "Signature", "Start", "Sectors"}
<1>1. M \cap Targets = {} /\ N \cap Targets = {}
  BY TextAssumption DEF Targets, Devices
<1>2. "Enabled" \notin Targets
  BY DEF Targets, Devices
<1>3. \A set : set[1] \notin Targets => (set \in V <=> set \in W)
  OBVIOUS
<1>4. \A v : <<"Enabled", v>>[1] = "Enabled"
  OBVIOUS
<1>5. \A v : <<"Enabled", v>> \in V <=> <<"Enabled", v>> \in W
  BY <1>2, <1>3, <1>4
<1> HIDE DEF M, N
<1>6. {set[1] : set \in V} \cap M = {set[1] : set \in W} \cap M
  BY <1>1, <1>3
<1>7. (\A set \in V : set[1] \in N => set[2] # "0") => (\A set \in W : set[1] \in N => set[2] # "0")
  BY <1>1, <1>3
<1> QED BY <1>5, <1>6, <1>7 DEF MarkerConfigIsValid, M, N

\* Output with every target, and with every other setting, passes
\* VerifyGeneratedBytes.
LEMMA OutputVerifies ==
  ASSUME CanWrite, GoodFile, TwoDevices, BootReady(NcvParseConfigStrict(file)),
         NEW n, NEW out, OutputOk(out, Targets, n), Kept(out, Len(out)) = Kept(file, Len(file))
  PROVE  VerifyGeneratedBytes(out)
<1> DEFINE p == NcvParseConfigStrict(out)
           q == NcvParseConfigStrict(file)
<1>1. out \in Seq(Line) /\ LinesAreGood(out) /\ DOMAIN out = 1 .. Len(out)
  BY DEF OutputOk
<1>2. \A t \in Targets : <<t, TargetValue(t)>> \in p.values
  <2> SUFFICES ASSUME NEW t \in Targets PROVE <<t, TargetValue(t)>> \in p.values
    OBVIOUS
  <2>1. PICK j \in 1 .. Len(out) : out[j] = Written(t)
    BY DEF OutputOk
  <2>2. Written(t).kind = "key" /\ Written(t).name = t
    BY WrittenType DEF CanWrite
  <2>3. TargetValue(t) \in SetKeyValue(t, Written(t).value)
    BY WrittenValue
  <2>4. j \in KeyLines(out)
    BY <1>1, <2>1, <2>2 DEF KeyLines
  <2> QED BY <2>1, <2>2, <2>3, <2>4, ValueIs
<1>3. Chosen \subseteq p.values
  BY <1>2 DEF Chosen, Targets, Devices, TargetValue
<1>4. Retained(p) = Retained(q)
  BY <1>1, RetainedIs DEF GoodFile
<1>5. <<"Probe", "false">> \in q.values /\ MarkerConfigIsValid(q.values)
  <2>1. q.ok => MarkerConfigIsValid(q.values)
    BY DEF NcvParseConfigStrict
  <2> HIDE DEF q
  <2>2. q.ok /\ <<"Probe", "false">> \in q.values
    BY DEF BootReady, q
  <2> QED BY <2>1, <2>2
<1>6. <<"Probe", "false">> \in p.values /\ MarkerConfigIsValid(p.values)
  <2> DEFINE V == q.values
             W == p.values
  <2>1. {set \in V : set[1] \notin Targets} = {set \in W : set[1] \notin Targets}
    BY <1>4 DEF Retained
  <2> HIDE DEF p, q
  <2>2. MarkerConfigIsValid(W)
    <3> HIDE DEF V, W
    <3> QED BY <1>5, <2>1, MarkerSame DEF V
  <2>3. <<"Probe", "false">>[1] \notin Targets
    BY DEF Targets, Devices
  <2> QED BY <1>5, <2>1, <2>2, <2>3
<1> QED BY <1>1, <1>3, <1>6, SetsVerify

\* EditorInv of the next state, from what the step makes of it.
LEMMA EditorInvNext ==
  ASSUME file' = file, description' = description, address' = address,
         NEW S, S = seen', NEW n, n = position' - 1, NEW out, out = output',
         BootReady(NcvParseConfigStrict(file)), NcvIniValueIsExactlyRepresentable(description),
         section' = EditorSection(SectionAt(file, n)), SeenOk(S, n), OutputOk(out, S, n)
  PROVE  EditorInv'
<1>1. SeenOk(seen, position - 1)'
  BY DEF SeenOk, BootClosed, BootOpened
<1>2. OutputOk(output, seen, position - 1)'
  BY DEF OutputOk, CameFrom, Written
<1> QED BY <1>1, <1>2 DEF EditorInv

\* One line of the editor, or the end of the file, on a file without stray
\* carriage returns.
Editing == TextType /\ ExactInv /\ Strays = {} /\ stage = "edit" /\ EditorInv

\* What an edit in progress may rely on.
LEMMA EditingFacts ==
  ASSUME Editing
  PROVE  /\ GoodFile /\ CanWrite /\ position - 1 \in Nat /\ seen \subseteq Targets
         /\ EndsBoot <=> SectionAt(file, position - 1) = "Boot" /\ "TargetBbsDescription" \notin seen
<1>0. LinesAreGood(file)
  <2>1. NcvParseConfigStrict(file).ok => LinesAreGood(file)
    BY DEF NcvParseConfigStrict
  <2> QED BY <2>1 DEF Editing, EditorInv, BootReady
<1>1. GoodFile /\ CanWrite /\ position - 1 \in Nat /\ seen \subseteq Targets
  BY <1>0 DEF Editing, TextType, EditorInv, GoodFile, CanWrite
<1>2. section = "Boot" <=> SectionAt(file, position - 1) = "Boot"
  BY TextAssumption DEF Editing, EditorInv, EditorSection
<1> QED BY <1>1, <1>2 DEF EndsBoot

\* The description that [Boot] lacks is added before [Boot] ends.
LEMMA EndBoot ==
  ASSUME Editing, NEW o, o = IF EndsBoot THEN AppendDescription(output) ELSE output,
         NEW T, T = IF EndsBoot THEN seen \cup {"TargetBbsDescription"} ELSE seen
  PROVE  OutputOk(o, T, position - 1)
<1>1. OutputOk(output, seen, position - 1)
  BY DEF Editing, EditorInv
<1>2. CASE EndsBoot
  <2> DEFINE D == "TargetBbsDescription"
  <2>1. D \in Targets /\ "Boot" \in DOMAIN Keys /\ D \in Keys["Boot"]
    BY TextAssumption DEF Targets, Devices
  <2>2. SectionAt(file, position - 1) = "Boot" /\ D \notin seen /\ CanWrite /\ position - 1 \in Nat
    BY <1>2, EditingFacts
  <2>3. OutputOk(Append(output, Written(D)), seen \cup {D}, position - 1)
    BY <1>1, <2>1, <2>2, OutputTarget
  <2> QED BY <1>2, <2>3 DEF AppendDescription
<1>3. CASE ~EndsBoot
  BY <1>1, <1>3
<1> QED BY <1>2, <1>3

-----------------------------------------------------------------------------
(* Steps: acceptance.                                                      *)

\* The editor closes a section: the description that [Boot] lacks is added.
LEMMA EditSectionStep ==
  ASSUME Editing, EditLine, EditSection(file[position])
  PROVE  EditorInv'
<1> DEFINE n == position - 1
           o == IF EndsBoot THEN AppendDescription(output) ELSE output
           T == IF EndsBoot THEN seen \cup {"TargetBbsDescription"} ELSE seen
<1>1. /\ GoodFile /\ CanWrite /\ n \in Nat /\ seen \subseteq Targets
      /\ EndsBoot <=> SectionAt(file, n) = "Boot" /\ "TargetBbsDescription" \notin seen
  BY EditingFacts
<1>2. n + 1 = position /\ n + 1 <= Len(file) /\ position' = position + 1 /\ position \in Nat
  BY <1>1 DEF EditLine, Editing, TextType
<1>3. OutputOk(o, T, n)
  BY EndBoot
<1>4. T = IF SectionAt(file, n) = "Boot" THEN seen \cup {"TargetBbsDescription"} ELSE seen
  BY <1>1
<1>5. T \subseteq Targets
  BY <1>1 DEF Targets, Devices
<1>6. /\ file[n + 1].kind = "section" /\ output' = Append(o, file[n + 1]) /\ seen' = T
      /\ section' = EditorSection(file[n + 1].name)
  <2>1. position \in DOMAIN file /\ position \notin Strays
    BY <1>2 DEF Editing, TextType
  <2>2. file[position].name \in {"Video", "Boot"} => file[position].cr = None
    BY <2>1 DEF Strays
  <2> QED BY <1>2, <2>2 DEF EditSection, EditorSection
<1>7. /\ file' = file /\ description' = description /\ address' = address
      /\ BootReady(NcvParseConfigStrict(file)) /\ NcvIniValueIsExactlyRepresentable(description)
      /\ SeenOk(seen, n)
  BY DEF EditLine, Editing, EditorInv
<1>8. n + 1 = position' - 1
  BY <1>1, <1>2
<1> HIDE DEF n, o, T
<1>9. ~IsTargetKey(file[n + 1])
  BY <1>6 DEF IsTargetKey
<1>10. SeenOk(T, n + 1)
  BY <1>1, <1>2, <1>4, <1>6, <1>7, SeenSection
<1>11. OutputOk(Append(o, file[n + 1]), T, n + 1)
  BY <1>1, <1>2, <1>3, <1>5, <1>9, OutputCopy
<1>12. SectionAt(file, n + 1) = file[n + 1].name
  BY <1>1, <1>2, <1>6, NextLine
<1> DEFINE m   == n + 1
           out == Append(o, file[n + 1])
<1>13. /\ m = position' - 1 /\ out = output' /\ T = seen'
       /\ section' = EditorSection(SectionAt(file, m)) /\ SeenOk(T, m) /\ OutputOk(out, T, m)
  BY <1>6, <1>8, <1>10, <1>11, <1>12
<1> HIDE DEF m, out
<1> QED BY <1>7, <1>13, EditorInvNext

\* The editor writes a target over its line, and meets no target twice.
LEMMA EditTargetStep ==
  ASSUME Editing, EditLine, EditTarget(file[position])
  PROVE  EditorInv' /\ stage' = "edit"
<1> DEFINE n == position - 1
           t == file[n + 1].name
           T == seen \cup {t}
           out == Append(output, Written(t))
<1>1. GoodFile /\ CanWrite /\ n \in Nat /\ seen \subseteq Targets
  BY EditingFacts
<1>2. n + 1 = position /\ n + 1 <= Len(file) /\ position' = position + 1 /\ position \in Nat
  BY <1>1 DEF EditLine, Editing, TextType
<1>3. /\ file' = file /\ description' = description /\ address' = address
      /\ BootReady(NcvParseConfigStrict(file)) /\ NcvIniValueIsExactlyRepresentable(description)
      /\ SeenOk(seen, n) /\ OutputOk(output, seen, n) /\ section = EditorSection(SectionAt(file, n))
  BY DEF EditLine, Editing, EditorInv
<1>4. n + 1 = position' - 1
  BY <1>1, <1>2
<1>5. IsTarget(file[n + 1]) /\ n + 1 \notin Strays /\ section' = section
  BY <1>2 DEF EditTarget, Editing
<1>6. t \notin seen => seen' = T /\ output' = out /\ stage' = stage
  BY <1>2 DEF EditTarget
<1>7. stage = "edit"
  BY DEF Editing
<1> HIDE DEF n
<1>8. IsTargetKey(file[n + 1])
  BY <1>1, <1>2, <1>3, <1>5, EditorAgrees
<1>9. t \notin seen
  BY <1>1, <1>2, <1>3, <1>8, TargetUnseen
<1>10. /\ n + 1 \in 1 .. Len(file) /\ SectionAt(file, n + 1) = SectionAt(file, n)
       /\ file[n + 1].kind # "section" /\ t \in Targets
  BY <1>1, <1>2, <1>8, NextLine DEF IsTargetKey
<1>11. SectionAt(file, n) \in DOMAIN Keys /\ t \in Keys[SectionAt(file, n)]
  BY <1>1, <1>8, <1>10, TargetHome
<1>12. SeenOk(T, n + 1)
  BY <1>1, <1>2, <1>3, <1>8, SeenTarget
<1> HIDE DEF t
<1>13. OutputOk(out, T, n)
  BY <1>1, <1>3, <1>9, <1>10, <1>11, OutputTarget
<1> HIDE DEF T, out
<1>14. OutputOk(out, T, n + 1)
  BY <1>1, <1>2, <1>10, <1>13, OutputPass
<1> DEFINE m == n + 1
<1>15. /\ m = position' - 1 /\ out = output' /\ T = seen'
       /\ section' = EditorSection(SectionAt(file, m)) /\ SeenOk(T, m) /\ OutputOk(out, T, m)
  BY <1>3, <1>4, <1>5, <1>6, <1>9, <1>10, <1>12, <1>14
<1> HIDE DEF m
<1>16. EditorInv'
  BY <1>3, <1>15, EditorInvNext
<1> QED BY <1>6, <1>7, <1>9, <1>16

\* What the editor copies is no target of the parser's either.
LEMMA CopyLineStep ==
  ASSUME Editing, EditLine, CopyLine(file[position])
  PROVE  EditorInv'
<1> DEFINE n == position - 1
           out == Append(output, file[n + 1])
<1>1. GoodFile /\ CanWrite /\ n \in Nat /\ seen \subseteq Targets
  BY EditingFacts
<1>2. n + 1 = position /\ n + 1 <= Len(file) /\ position' = position + 1 /\ position \in Nat
  BY <1>1 DEF EditLine, Editing, TextType
<1>3. /\ file' = file /\ description' = description /\ address' = address
      /\ BootReady(NcvParseConfigStrict(file)) /\ NcvIniValueIsExactlyRepresentable(description)
      /\ SeenOk(seen, n) /\ OutputOk(output, seen, n) /\ section = EditorSection(SectionAt(file, n))
  BY DEF EditLine, Editing, EditorInv
<1>4. n + 1 = position' - 1
  BY <1>1, <1>2
<1>5. /\ ~IsTarget(file[n + 1]) /\ n + 1 \notin Strays /\ file[n + 1].kind # "section"
      /\ section' = section /\ seen' = seen /\ output' = out
  <2>1. position \in DOMAIN file /\ position \notin Strays
    BY <1>2 DEF Editing, TextType
  <2>2. ~(file[position].kind = "section" /\ file[position].cr = "before")
    BY <2>1 DEF Strays
  <2> QED BY <1>2, <2>1, <2>2 DEF CopyLine
<1> HIDE DEF n
<1>6. ~IsTargetKey(file[n + 1])
  BY <1>1, <1>2, <1>3, <1>5, EditorAgrees
<1>7. SeenOk(seen, n + 1)
  BY <1>1, <1>2, <1>3, <1>5, <1>6, SeenOther
<1>8. OutputOk(out, seen, n + 1)
  BY <1>1, <1>2, <1>3, <1>6, OutputCopy
<1>9. SectionAt(file, n + 1) = SectionAt(file, n)
  BY <1>1, <1>2, <1>5, NextLine
<1> HIDE DEF out
<1> DEFINE m == n + 1
<1>10. /\ m = position' - 1 /\ out = output' /\ seen = seen'
       /\ section' = EditorSection(SectionAt(file, m)) /\ SeenOk(seen, m) /\ OutputOk(out, seen, m)
  BY <1>3, <1>4, <1>5, <1>7, <1>8, <1>9
<1> HIDE DEF m
<1> QED BY <1>3, <1>10, EditorInvNext

\* At the end of the file every target has been written, and the output passes
\* the verification it is about to meet.
LEMMA EditEndStep ==
  ASSUME Editing, EditEnd
  PROVE  stage' = "verify" /\ (TwoDevices => VerifyGeneratedBytes(output)')
<1> DEFINE n == position - 1
           o == IF EndsBoot THEN AppendDescription(output) ELSE output
           T == IF EndsBoot THEN seen \cup {"TargetBbsDescription"} ELSE seen
<1>1. /\ GoodFile /\ CanWrite /\ n \in Nat /\ seen \subseteq Targets
      /\ EndsBoot <=> SectionAt(file, n) = "Boot" /\ "TargetBbsDescription" \notin seen
  BY EditingFacts
<1>2. n = Len(file)
  BY <1>1 DEF Editing, ExactInv, EditEnd, TextType
<1>3. OutputOk(o, T, n)
  BY EndBoot
<1>4. BootReady(NcvParseConfigStrict(file)) /\ SeenOk(seen, n)
  BY DEF Editing, EditorInv
<1>5. /\ seen \subseteq T /\ T \subseteq Targets
      /\ SectionAt(file, n) = "Boot" => "TargetBbsDescription" \in T
  BY <1>1 DEF Targets, Devices
<1>6. o = output' /\ T = seen' /\ description' = description /\ address' = address
      /\ stage' = (IF T = Targets THEN "verify" ELSE "invalid")
  BY DEF EditEnd
<1>7. Kept(o, Len(o)) = Kept(output, Len(output))
  BY DescriptionKept DEF Editing
<1>8. Kept(output, Len(output)) = Kept(file, n)
  BY DEF Editing, ExactInv
<1> HIDE DEF n, o, T
<1>9. T = Targets
  BY <1>1, <1>2, <1>4, <1>5, SeenAll
<1>10. TwoDevices => VerifyGeneratedBytes(o)
  BY <1>1, <1>2, <1>3, <1>4, <1>7, <1>8, <1>9, OutputVerifies
<1>11. TwoDevices => VerifyGeneratedBytes(output)'
  BY <1>6, <1>10 DEF VerifyGeneratedBytes, Chosen
<1> QED BY <1>6, <1>9, <1>11

\* Before its first line the editor knows nothing and has written nothing.
LEMMA StartEditStep ==
  ASSUME TextType, ExactInv, StartEdit
  PROVE  EditorInv'
<1>1. /\ output' = << >> /\ position' = 1 /\ section' = None /\ seen' = {} /\ file' = file
      /\ BootReady(NcvParseConfigStrict(file)) /\ NcvIniValueIsExactlyRepresentable(description')
  BY DEF StartEdit, ExactInv
<1> DEFINE e == << >>
           n == position' - 1
<1>2. Built(e, None, {}, {})
  BY BuiltNothing
<1>3. e \in Seq(Line) /\ LinesAreGood(e) /\ SectionAt(e, Len(e)) = None /\ Len(e) = 0
  BY <1>2 DEF Built
<1>4. n = 0 /\ output' = e
  BY <1>1
<1>5. SectionAt(file, 0) = None /\ EditorSection(None) = None
  BY DEF SectionAt, SectionsTo, EditorSection
<1> HIDE DEF e, n
<1>6. \A k \in 1 .. n : FALSE
  BY <1>4
<1>7. SeenOk(seen, position - 1)'
  BY <1>1, <1>6 DEF SeenOk, BootClosed, BootOpened, n
<1>8. OutputOk(output, seen, position - 1)'
  BY <1>1, <1>3, <1>4, <1>5 DEF OutputOk, n
<1> QED BY <1>1, <1>4, <1>5, <1>7, <1>8 DEF EditorInv, n

\* Every step keeps AcceptInv.
LEMMA AcceptStep ==
  ASSUME TextType, ExactInv, AcceptInv, [TextNext]_textVars
  PROVE  AcceptInv'
<1> SUFFICES ASSUME Strays' = {}
             PROVE  /\ stage' # "invalid"
                    /\ TwoDevices' => /\ stage' # "unverified"
                                      /\ stage' = "verify" => VerifyGeneratedBytes(output)'
                    /\ stage' = "edit" => EditorInv'
  BY DEF AcceptInv
<1>1. file' = file => Strays = {}
  BY DEF Strays
<1>2. CASE TypeLine
  BY <1>2 DEF TypeLine
<1>3. CASE StartEdit
  BY <1>3, StartEditStep DEF StartEdit
<1>4. CASE EditLine
  <2>1. stage = "edit" /\ file' = file /\ position \in 1 .. Len(file)
    BY <1>4 DEF EditLine, TextType
  <2>2. Editing
    BY <1>1, <2>1 DEF Editing, AcceptInv
  <2>4. CASE EditSection(file[position])
    BY <1>4, <2>1, <2>2, <2>4, EditSectionStep DEF EditSection
  <2>5. CASE EditTarget(file[position])
    BY <1>4, <2>2, <2>5, EditTargetStep
  <2>6. CASE CopyLine(file[position])
    BY <1>4, <2>1, <2>2, <2>6, CopyLineStep DEF CopyLine
  <2> QED BY <1>4, <2>4, <2>5, <2>6 DEF EditLine
<1>5. CASE OutOfRoom
  BY <1>5 DEF OutOfRoom
<1>6. CASE EditEnd
  <2>1. Editing
    BY <1>1, <1>6 DEF EditEnd, Editing, AcceptInv
  <2>2. TwoDevices' <=> TwoDevices
    BY <1>6 DEF EditEnd, TwoDevices
  <2> QED BY <1>6, <2>1, <2>2, EditEndStep
<1>7. CASE SelectFresh
  BY <1>7 DEF SelectFresh
<1>8. CASE NcvFormatCandidateIni
  <2>1. PICK g \in 1 .. 2, d \in 1 .. 2 : output' = FreshText(g, d)
    BY <1>8 DEF NcvFormatCandidateIni, FreshText
  <2>2. TwoDevices => VerifyGeneratedBytes(FreshText(g, d))
    BY <1>8, FreshVerifies DEF NcvFormatCandidateIni, CanWrite, TextType
  <2>3. stage' = "verify" /\ description' = description /\ address' = address
    BY <1>8 DEF NcvFormatCandidateIni
  <2> DEFINE f == FreshText(g, d)
  <2> HIDE DEF f
  <2>4. output' = f /\ (TwoDevices => VerifyGeneratedBytes(f))
    BY <2>1, <2>2 DEF f
  <2>5. TwoDevices' => VerifyGeneratedBytes(output)'
    BY <2>3, <2>4 DEF VerifyGeneratedBytes, Chosen, TwoDevices
  <2> QED BY <2>3, <2>5
<1>9. CASE Verify
  <2>1. TwoDevices => VerifyGeneratedBytes(output)
    BY <1>1, <1>9 DEF Verify, AcceptInv
  <2>2. TwoDevices' <=> TwoDevices
    BY <1>9 DEF Verify, TwoDevices
  <2> QED BY <1>9, <2>1, <2>2 DEF Verify
<1>10. CASE Done \/ UNCHANGED textVars
  <2>1. /\ stage' = stage /\ file' = file /\ description' = description /\ address' = address /\ position' = position
        /\ section' = section /\ seen' = seen /\ output' = output
    BY <1>10 DEF Done, textVars
  <2>2. VerifyGeneratedBytes(output)' <=> VerifyGeneratedBytes(output)
    BY <2>1 DEF VerifyGeneratedBytes, Chosen
  <2>3. ASSUME EditorInv PROVE EditorInv'
    <3> DEFINE n == position - 1
    <3>1. /\ n = position' - 1 /\ section' = EditorSection(SectionAt(file, n))
          /\ BootReady(NcvParseConfigStrict(file)) /\ NcvIniValueIsExactlyRepresentable(description)
          /\ SeenOk(seen, n) /\ OutputOk(output, seen, n)
      BY <2>1, <2>3 DEF EditorInv
    <3> HIDE DEF n
    <3> QED BY <2>1, <3>1, EditorInvNext
  <2>4. TwoDevices' <=> TwoDevices
    BY <2>1 DEF TwoDevices
  <2> QED BY <1>1, <2>1, <2>2, <2>3, <2>4 DEF AcceptInv
<1> QED BY <1>2, <1>3, <1>4, <1>5, <1>6, <1>7, <1>8, <1>9, <1>10 DEF TextNext

-----------------------------------------------------------------------------
(* Theorems.                                                               *)

\* The inductive invariant.
TextInv == TextType /\ ExactInv /\ AcceptInv

\* An empty file is where a user starts.
LEMMA TextInitial == TextInit => TextInv
<1> SUFFICES ASSUME TextInit PROVE TextInv
  OBVIOUS
<1> DEFINE e == << >>
<1>1. e \in Seq(Line) /\ e \in Seq(Characters)
  OBVIOUS
<1>2. /\ stage = "typing" /\ file = e /\ description = e /\ address = [key \in Devices |-> None]
      /\ position = 1 /\ section = None /\ seen = {} /\ output = e
  BY DEF TextInit
<1>3. ExactInv
  BY <1>2 DEF ExactInv
<1> HIDE DEF e
<1>4. TextType
  BY <1>1, <1>2 DEF TextType, Stages
<1>5. AcceptInv
  BY <1>2 DEF AcceptInv
<1> QED BY <1>3, <1>4, <1>5 DEF TextInv

\* Types, kept settings and acceptance hold throughout an edit or the formatting
\* of a new file, for any keys, descriptions and length of file.
THEOREM TextInvariant == TextSpec => []TextInv
<1>1. ASSUME TextInv, [TextNext]_textVars
      PROVE  TextInv'
  BY <1>1, TextTypeStep, ExactStep, AcceptStep DEF TextInv
<1> QED BY <1>1, TextInitial, PTL DEF TextSpec

\* NcvEditConfigTargets and NcvFormatCandidateIni: a text that is published
\* selects the chosen targets, and an edited file keeps every other setting.
THEOREM EditIsExact == TextSpec => []EditExact
<1>1. ASSUME TextInv
      PROVE  EditExact
  <2> SUFFICES ASSUME stage = "published"
               PROVE  LET new == NcvParseConfigStrict(output)
                      IN /\ new.ok /\ Chosen \subseteq new.values
                         /\ file # << >> => Retained(new) = Retained(NcvParseConfigStrict(file))
    BY DEF EditExact
  <2> DEFINE new == NcvParseConfigStrict(output)
  <2>1. VerifyGeneratedBytes(output)
    BY <1>1 DEF TextInv, ExactInv
  <2>2. new.ok /\ Chosen \subseteq new.values
    BY <2>1 DEF VerifyGeneratedBytes, BootReady
  <2>3. ASSUME file # << >>
        PROVE  Retained(new) = Retained(NcvParseConfigStrict(file))
    <3>1. Kept(output, Len(output)) = Kept(file, Len(file))
      BY <1>1, <2>3 DEF TextInv, ExactInv
    <3>2. file \in Seq(Line) /\ output \in Seq(Line)
      BY <1>1 DEF TextInv, TextType
    <3> QED BY <3>1, <3>2, RetainedIs
  <2> QED BY <2>2, <2>3
<1> QED BY <1>1, TextInvariant, PTL

\* The editor refuses no file that NcvParseConfigStrict accepts, and
\* VerifyGeneratedBytes no output of the editor or of the formatter, unless a
\* carriage return hides a section or a target from the editor, or one device is
\* chosen as the display and as the controller.
THEOREM EditIsAccepted == TextSpec => []EditAccepts
<1>1. ASSUME TextInv
      PROVE  EditAccepts
  BY <1>1 DEF TextInv, AcceptInv, EditAccepts, TwoDevices
<1> QED BY <1>1, TextInvariant, PTL

=============================================================================
