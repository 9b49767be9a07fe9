----------------------------- MODULE BootSession ----------------------------
(***************************************************************************)
(* One start of the application: the dispatcher UefiMain and what it runs, *)
(* setup, the boot attempt, the countdown, the menu marker, the error and  *)
(* recovery screens, and the state these leave behind in static variables  *)
(* for the next pass of the dispatcher's loop.                             *)
(*                                                                         *)
(* The hardware part of a boot attempt is any behaviour of HandoffContract *)
(* (BootHandoff implements it).  Loading and saving settings is reduced to *)
(* its outcome (ConfigStore has the steps).  Any call may fail, any time.  *)
(***************************************************************************)
EXTENDS Naturals, FiniteSets

CONSTANTS
  Targets,   \* the display and disk selections a user can save
  Seconds,   \* the length of both countdowns (5 in the code)
  None       \* stands for "no settings"

ASSUME SessionAssumption == Seconds \in Nat /\ None \notin [target : Targets,
          auto : BOOLEAN, marker : BOOLEAN, probe : BOOLEAN]

\* Config.ini: the targets, AutoBoot, whether a menu marker is configured, and
\* whether the file asks for discovery (Probe=true).
Settings == [target : Targets, auto : BOOLEAN, marker : BOOLEAN, probe : BOOLEAN]

\* EFI_STATUS.  A failing firmware call may return any of the errors.
Failures == {"aborted", "unsupported", "error"}
Statuses == Failures \cup {"ok"}

Resources == {"files", "log", "plan", "guard", "dispatch"}

Contents == {"original", "profile", "torn"}

VARIABLES
  pc,
  saved,          \* the settings on disk
  config,         \* the settings in memory
  probe,          \* Config.Probe (and DiscoveryMode)
  firstRun,       \* Config.FirstRun
  editing,        \* Editing of ProbeConfig.c
  prepared, continueSelected, cleanReturn, action,   \* BootCountdown.c
  left,           \* seconds left of a countdown
  pending,        \* Recovery.Pending of RomRecovery.c
  held,           \* what a boot attempt has opened, allocated or borrowed
  marker,         \* the menu marker file
  original,       \* Original[] of Marker.c
  attempted,      \* Attempted of Marker.c
  status, cleanup, markerStatus,
  hardware, outcome,   \* the variables of HandoffContract
  seen            \* history: what happened in this attempt

countdown == <<prepared, continueSelected, cleanReturn, action>>
settings == <<saved, config, probe, firstRun, editing>>
markers == <<marker, original, attempted>>
results == <<status, cleanup, markerStatus>>
machine == <<hardware, outcome>>
vars == <<pc, settings, countdown, left, pending, held, markers, results, machine, seen>>

Handoff == INSTANCE HandoffContract

Labels ==
  {"start", "load", "loop", "setup", "reload", "window", "open", "plan", "reserve",
   "countdown", "marker", "barrier", "handoff", "release", "finish", "restore",
   "take", "recovery", "assessed", "hold", "after", "exit", "stuck"}

\* overlap: the ROM guard of this attempt found an overlap; asked: the user
\* pressed Esc; shown: an error screen was up; ran: a boot attempt was made;
\* proceeded: a countdown before the handoff has ever run out.
Events == {"overlap", "asked", "shown", "ran", "proceeded"}

TypeOK ==
  /\ pc \in Labels
  /\ saved \in Settings \cup {None} /\ config \in Settings \cup {None}
  /\ probe \in BOOLEAN /\ firstRun \in BOOLEAN /\ editing \in BOOLEAN
  /\ prepared \in BOOLEAN /\ continueSelected \in BOOLEAN /\ cleanReturn \in BOOLEAN
  /\ action \in {"no", "edit", "cancel"}
  /\ left \in 0 .. Seconds
  /\ pending \in BOOLEAN /\ held \subseteq Resources
  /\ marker \in Contents /\ original \in Contents /\ attempted \in BOOLEAN
  /\ status \in Statuses /\ cleanup \in Statuses /\ markerStatus \in Statuses
  /\ hardware \in {"original", "changed", "rolledBack"}
  /\ outcome \in {"running", "returned", "halted", "booting"}
  /\ seen \subseteq Events

Init ==
  /\ pc = "start"
  /\ saved \in Settings \cup {None}
  /\ config = None /\ probe = FALSE /\ firstRun = FALSE /\ editing = FALSE
  /\ prepared = FALSE /\ continueSelected = FALSE /\ cleanReturn = FALSE /\ action = "no"
  /\ left = 0 /\ pending = FALSE /\ held = {}
  /\ marker = "original" /\ original = "original" /\ attempted = FALSE
  /\ status = "ok" /\ cleanup = "ok" /\ markerStatus = "ok"
  /\ Handoff!Init
  /\ seen = {}

-----------------------------------------------------------------------------
(* Starting, loading and setup.                                            *)

\* The resets at the top of UefiMain change nothing in a fresh image; the
\* inherited watchdog must be disabled first.
Start ==
  /\ pc = "start"
  /\ \/ pc' = "load" /\ UNCHANGED status
     \/ status' \in Failures /\ pc' = "hold"
  /\ UNCHANGED <<settings, countdown, left, pending, held, markers, cleanup, markerStatus, machine, seen>>

\* ProbeConfigLoad: the user may have put back a recovery copy, or archived
\* everything; what is loaded is then what is on disk.  Configuring the marker
\* forgets an earlier attempt.
Loading ==
  /\ saved' \in Settings \cup {None}
  /\ config' = saved' /\ firstRun' = (saved' = None)
  /\ probe' = (saved' = None \/ saved'.probe)
  /\ attempted' = FALSE

\* AppFileInitialize, ProbeConfigLoad with its recovery screens, AppFileClose.
LoadConfig ==
  /\ pc = "load"
  /\ \/ Loading /\ pc' = "loop" /\ UNCHANGED <<held, status>>
     \/ /\ saved' \in Settings \cup {None} /\ status' \in Failures /\ pc' = "exit"
        /\ UNCHANGED <<config, firstRun, probe, held, attempted>>
     \/ Loading /\ status' \in Failures /\ held' = {"files"} /\ pc' = "hold"
  /\ UNCHANGED <<editing, countdown, left, pending, marker, original, cleanup, markerStatus, machine, seen>>

\* The top of the dispatcher's loop: setup if the settings ask for it, else
\* BootCountdownPrepare and, for AutoBoot, the setup window.
Dispatch ==
  /\ pc = "loop"
  /\ \/ probe /\ pc' = "setup" /\ UNCHANGED <<countdown, left>>
     \/ /\ ~probe
        /\ prepared' = TRUE /\ continueSelected' = FALSE /\ cleanReturn' = FALSE /\ action' = "no"
        /\ pc' = IF config.auto THEN "window" ELSE "open"
        /\ left' = Seconds
  /\ UNCHANGED <<settings, pending, held, markers, results, machine, seen>>

\* What setup saves: new targets in the settings that are there, or a complete
\* new file with default policies.
SavedBySetup(t) ==
  IF editing /\ saved # None THEN [saved EXCEPT !.target = t]
  ELSE [target |-> t, auto |-> TRUE, marker |-> FALSE, probe |-> FALSE]

\* Mutant: edited settings are not reloaded before the boot.
SetupWithoutReload ==
  /\ pc = "setup"
  /\ editing' = FALSE
  /\ \/ firstRun /\ \E t \in Targets : saved' = SavedBySetup(t)
        /\ probe' = FALSE /\ pc' = "loop" /\ UNCHANGED status
        /\ config' = IF config = None THEN saved' ELSE config
     \/ ~editing /\ status' = "ok" /\ pc' = "exit" /\ UNCHANGED <<saved, probe, config>>
     \/ status' \in Failures /\ pc' = "exit" /\ UNCHANGED <<saved, probe, config>>
  /\ UNCHANGED <<firstRun, countdown, left, pending, held, markers, cleanup, markerStatus, machine, seen>>

\* NativeCsmVgaProbeRun and ProbeConfigEndEdit.  Boot is offered only when the
\* user confirmed targets; a report alone, or any failure, ends the session (a
\* failed save may have replaced the settings, or lost them to the recovery copy).
Setup ==
  /\ pc = "setup"
  /\ editing' = FALSE
  /\ \/ firstRun /\ \E t \in Targets : saved' = SavedBySetup(t)
        /\ pc' = "reload" /\ UNCHANGED <<status, held>>
     \/ ~editing /\ status' = "ok" /\ pc' = "exit" /\ UNCHANGED <<saved, held>>
     \/ /\ status' \in Failures /\ pc' = "exit" /\ held' \in SUBSET {"files", "log"}
        /\ saved' \in {saved, None} \cup {SavedBySetup(t) : t \in Targets}
  /\ UNCHANGED <<config, probe, firstRun, countdown, left, pending, markers,
                 cleanup, markerStatus, machine, seen>>

\* The rest of RunSetupAndReload: settings that still ask for setup, and a
\* failed close, end the session.
Reload ==
  /\ pc = "reload"
  /\ \/ Loading /\ ~probe' /\ ~firstRun' /\ pc' = "loop" /\ status' = "ok" /\ UNCHANGED held
     \/ Loading /\ status' \in Failures /\ pc' = "exit" /\ held' \in SUBSET {"files"}
     \/ /\ status' \in Failures /\ pc' = "exit"
        /\ UNCHANGED <<saved, config, firstRun, probe, attempted, held>>
  /\ UNCHANGED <<editing, countdown, left, pending, marker, original,
                 cleanup, markerStatus, machine, seen>>

\* ProbeConfigBeginEdit and the flags that lead back to setup.
BeginEdit == editing' = TRUE /\ probe' = TRUE /\ firstRun' = TRUE

\* BootSetupWindow: F2, Esc, an input or timer failure (the firmware's own
\* EFI_ABORTED is taken for Esc), a second without a key, the time is up.
SetupWindow ==
  /\ pc = "window"
  /\ \/ BeginEdit /\ pc' = "loop" /\ UNCHANGED <<status, left, seen>>
     \/ status' = "aborted" /\ pc' = "exit" /\ seen' = seen \cup {"asked"}
        /\ UNCHANGED <<editing, probe, firstRun, left>>
     \/ /\ status' \in Failures /\ pc' = IF status' = "aborted" THEN "exit" ELSE "hold"
        /\ UNCHANGED <<editing, probe, firstRun, left, seen>>
     \/ left > 0 /\ left' = left - 1 /\ UNCHANGED <<pc, editing, probe, firstRun, status, seen>>
     \/ left = 0 /\ pc' = "open" /\ UNCHANGED <<editing, probe, firstRun, status, left, seen>>
  /\ UNCHANGED <<saved, config, countdown, pending, held, markers, cleanup, markerStatus, machine>>

-----------------------------------------------------------------------------
(* NativeCsmVgaBootRun.                                                    *)

\* The files and the log.  These early returns skip BootCountdownFinish and
\* do not look at what closing reports.
OpenLog ==
  /\ pc = "open"
  /\ seen' = (seen \ {"overlap"}) \cup {"ran"}
  /\ \/ held' = {"files", "log"} /\ pc' = "plan" /\ UNCHANGED status
     \/ held' \in SUBSET {"files", "log"} /\ status' \in Failures /\ pc' = "restore"
  /\ UNCHANGED <<settings, countdown, left, pending, markers, cleanup, markerStatus, machine>>

\* NativeCsmVgaRuntimePlanBuild and ValidateBootReadiness: only reads.  The ROM
\* guard records an overlap it can describe, and borrows a plan that passed.
PlanBuild ==
  /\ pc = "plan"
  /\ \/ /\ status' \in Failures /\ pc' = "release" /\ pending' \in {pending, FALSE} /\ UNCHANGED seen
        /\ held' \in {held \cup {"plan"}, held \cup {"plan", "guard"}}
     \/ /\ status' = "unsupported" /\ pc' = "release" /\ seen' = seen \cup {"overlap"}
        /\ pending' \in BOOLEAN /\ held' = held \cup {"plan"}
     \/ /\ held' = held \cup {"plan", "guard"} /\ pending' = FALSE /\ status' = "ok"
        /\ pc' = IF config.auto THEN "reserve" ELSE "release"
        /\ UNCHANGED seen
  /\ UNCHANGED <<settings, countdown, left, markers, cleanup, markerStatus, machine>>

\* LegacyDispatchReserve and the log barrier before the countdown.  A page at
\* an unusable address is given back at once, or stays owned.
Reserve ==
  /\ pc = "reserve"
  /\ \/ "dispatch" \notin held /\ held' = held \cup {"dispatch"}
        /\ pc' = "countdown" /\ left' = Seconds /\ UNCHANGED status
     \/ held' \in {held, held \cup {"dispatch"}} /\ status' \in Failures
        /\ pc' = "release" /\ UNCHANGED left
  /\ UNCHANGED <<settings, countdown, pending, markers, cleanup, markerStatus, machine, seen>>

\* Mutant: a key that means nothing starts the countdown again.
CountdownWaitRestarts ==
  /\ pc = "countdown"
  /\ prepared /\ ~continueSelected /\ action = "no"
  /\ \/ left > 0 /\ left' \in {left - 1, Seconds} /\ UNCHANGED <<pc, continueSelected, seen>>
     \/ /\ left = 0 /\ continueSelected' = TRUE /\ seen' = seen \cup {"proceeded"}
        /\ pc' = "marker" /\ UNCHANGED left
  /\ UNCHANGED <<settings, prepared, cleanReturn, action, status, pending, held, markers,
                 cleanup, markerStatus, machine>>

\* BootCountdownWait.  Once the time is up the attempt can no longer be
\* edited, even if the log then fails.
CountdownWait ==
  /\ pc = "countdown"
  /\ prepared /\ ~continueSelected /\ action = "no"
  /\ \/ /\ action' \in {"edit", "cancel"} /\ status' = "aborted" /\ pc' = "release"
        /\ seen' = IF action' = "cancel" THEN seen \cup {"asked"} ELSE seen
        /\ UNCHANGED <<left, continueSelected>>
     \/ status' \in Failures /\ pc' = "release" /\ UNCHANGED <<left, continueSelected, action, seen>>
     \/ left > 0 /\ left' = left - 1 /\ UNCHANGED <<pc, continueSelected, action, status, seen>>
     \/ /\ left = 0 /\ continueSelected' = TRUE /\ seen' = seen \cup {"proceeded"}
        /\ \/ pc' = "marker" /\ UNCHANGED status
           \/ pc' = "release" /\ status' \in Failures
        /\ UNCHANGED <<left, action>>
  /\ UNCHANGED <<settings, prepared, cleanReturn, pending, held, markers,
                 cleanup, markerStatus, machine>>

\* Mutant: the attempt is noted only when the write has been verified.
MarkerApplyNotedLate ==
  /\ pc = "marker"
  /\ \/ ~config.marker /\ pc' = "barrier" /\ UNCHANGED <<status, markers>>
     \/ /\ config.marker /\ original' = marker
        /\ \/ marker' = "profile" /\ attempted' = TRUE /\ pc' = "barrier" /\ UNCHANGED status
           \/ /\ marker' \in {marker, "profile", "torn"} /\ UNCHANGED attempted
              /\ status' \in Failures /\ pc' = "release"
  /\ UNCHANGED <<settings, countdown, left, pending, held, cleanup, markerStatus, machine, seen>>

\* Opening and reading the marker may fail; then Attempted is set and the file
\* is overwritten, flushed, read back and closed.
MarkerApply ==
  /\ pc = "marker"
  /\ \/ ~config.marker /\ pc' = "barrier" /\ UNCHANGED <<status, markers>>
     \/ /\ config.marker /\ original' \in {original, marker}
        /\ status' \in Failures /\ pc' = "release" /\ UNCHANGED <<marker, attempted>>
     \/ /\ config.marker /\ original' = marker /\ attempted' = TRUE
        /\ \/ marker' = "profile" /\ pc' = "barrier" /\ UNCHANGED status
           \/ /\ marker' \in {marker, "profile", "torn"}
              /\ status' \in Failures /\ pc' = "release"
  /\ UNCHANGED <<settings, countdown, left, pending, held, cleanup, markerStatus, machine, seen>>

\* The last barrier before the active display is disconnected.
DisconnectBarrier ==
  /\ pc = "barrier"
  /\ \/ pc' = "handoff" /\ UNCHANGED status
     \/ pc' = "release" /\ status' \in Failures
  /\ UNCHANGED <<settings, countdown, left, pending, held, markers, cleanup, markerStatus, machine, seen>>

\* Steps of the handoff, as its contract allows them.
HandoffStep ==
  /\ pc = "handoff"
  /\ Handoff!Next
  /\ \/ outcome' = "returned" /\ pc' = "release" /\ status' \in Failures
     \/ outcome' # "returned" /\ UNCHANGED <<pc, status>>
  /\ UNCHANGED <<settings, countdown, left, pending, held, markers, cleanup, markerStatus, seen>>

\* NativeCsmVgaRuntimePlanRelease refuses while hardware is changed; otherwise
\* only giving the dispatch page back can fail.
PlanRelease ==
  /\ pc = "release"
  /\ pc' = "finish"
  /\ \/ hardware = "original" /\ cleanup' = "ok" /\ held' = held \ {"plan", "guard", "dispatch"}
     \/ "dispatch" \in held /\ cleanup' \in Failures
        /\ held' = IF hardware = "original" THEN held \ {"plan", "guard"} ELSE held
  /\ UNCHANGED <<settings, countdown, left, pending, markers, status, markerStatus, machine, seen>>

UserAction == ~continueSelected /\ action # "no" /\ status = "aborted"

\* Mutant: closing errors do not count against a user's edit or cancel.
FinishUnclosed ==
  /\ pc = "finish"
  /\ pc' = "restore"
  /\ held' \in {held \cap {"dispatch"}, held}
  /\ cleanReturn' = (prepared /\ ~continueSelected /\ cleanup = "ok")
  /\ UNCHANGED <<settings, prepared, continueSelected, action, left, pending, markers,
                 status, cleanup, markerStatus, machine, seen>>

\* Mutant: the countdown's end is not remembered.
FinishForgetful ==
  /\ pc = "finish"
  /\ pc' = "restore"
  /\ held' = held \ {"files", "log"}
  /\ status' = IF cleanup # "ok" THEN cleanup ELSE status
  /\ cleanReturn' = (prepared /\ cleanup = "ok")
  /\ UNCHANGED <<settings, prepared, continueSelected, action, left, pending, markers,
                 cleanup, markerStatus, machine, seen>>

\* BootCountdownFinish with BootReportFinishDetailed: flush and close log and
\* files (any of the three may fail), then decide what is reported.
Finish ==
  /\ pc = "finish"
  /\ pc' = "restore"
  /\ \E closed \in Statuses :
       LET primary == IF cleanup # "ok" THEN cleanup ELSE IF UserAction THEN "ok" ELSE status
           result  == IF primary = "ok" THEN closed ELSE primary
           clean   == prepared /\ ~continueSelected /\ cleanup = "ok" /\ closed = "ok"
           taken   == UserAction /\ result = "ok" /\ clean
       IN /\ held' \in IF closed = "ok" THEN {held \ {"files", "log"}}
                       ELSE {held \ h : h \in SUBSET {"files", "log"}}
          /\ cleanReturn' = clean
          /\ status' = IF taken THEN "aborted" ELSE result
          /\ action' = IF taken THEN action ELSE "no"
  /\ UNCHANGED <<settings, prepared, continueSelected, left, pending, markers,
                 cleanup, markerStatus, machine, seen>>

-----------------------------------------------------------------------------
(* Back in the dispatcher.                                                 *)

\* MarkerRestore; its failure is reported, and becomes the status of a run
\* that had none.
MarkerRestore ==
  /\ pc = "restore"
  /\ pc' = "take"
  /\ \/ ~attempted /\ markerStatus' = "ok" /\ UNCHANGED <<marker, attempted, status>>
     \/ attempted /\ marker' = original /\ attempted' = FALSE /\ markerStatus' = "ok"
        /\ UNCHANGED status
     \/ /\ attempted /\ marker' \in {marker, original, "torn"} /\ UNCHANGED attempted
        /\ markerStatus' \in Failures
        /\ status' = IF status = "ok" THEN markerStatus' ELSE status
  /\ UNCHANGED <<settings, countdown, left, pending, held, original, cleanup, machine, seen>>

\* BootReportReset, RomRecoveryReset and the way back to setup.
EditRestart ==
  BeginEdit /\ pending' = FALSE /\ pc' = "loop" /\ seen' = seen \cap {"proceeded"}

\* Mutant: the recovery menu asks for the status alone.
TakeUnrecorded ==
  /\ pc = "take"
  /\ action' = "no" /\ pc' = IF status = "unsupported" THEN "recovery" ELSE "hold"
  /\ seen' = seen \cup {"shown"}
  /\ UNCHANGED <<settings, prepared, continueSelected, cleanReturn, left, pending, held, markers,
                 results, machine>>

\* BootCountdownTakeCancel, the first BootCountdownTakeEdit, and the choice
\* between the ROM recovery menu and the error screen.
Take ==
  /\ pc = "take"
  /\ cleanReturn' = (cleanReturn /\ markerStatus = "ok")
  /\ action' = "no"
  /\ \/ /\ cleanReturn' /\ action = "cancel" /\ status = "aborted"
        /\ pc' = "exit" /\ UNCHANGED <<editing, probe, firstRun, pending, seen>>
     \/ cleanReturn' /\ action = "edit" /\ status # "ok" /\ EditRestart
     \/ /\ ~(cleanReturn' /\ action = "cancel" /\ status = "aborted")
        /\ ~(cleanReturn' /\ action = "edit" /\ status # "ok")
        /\ IF pending /\ status = "unsupported" /\ markerStatus = "ok"
           THEN pc' = "recovery" /\ seen' = seen \cup {"shown"} /\ UNCHANGED pending
           ELSE pc' = "hold" /\ pending' = FALSE /\ UNCHANGED seen
        /\ UNCHANGED <<editing, probe, firstRun>>
  /\ UNCHANGED <<saved, config, prepared, continueSelected, left, held, markers, results, machine>>

\* RomRecoveryOffer: assess once, writing a log of its own whose closing is only
\* reported; then F2 is no longer taken.
RomRecoveryOffer ==
  /\ pc \in {"recovery", "assessed"}
  /\ \/ /\ pc = "recovery" /\ pc' = "assessed" /\ UNCHANGED <<action, pending>>
        /\ \E leaked \in SUBSET {"files", "log"} : held' = held \cup leaked
     \/ /\ pc = "recovery" /\ cleanReturn /\ action' = "edit" /\ pending' = FALSE
        /\ pc' = "after" /\ UNCHANGED held
     \/ pc' = "after" /\ pending' = FALSE /\ UNCHANGED <<action, held>>
     \/ pc' = "stuck" /\ UNCHANGED <<action, pending, held>>
  /\ UNCHANGED <<settings, prepared, continueSelected, cleanReturn, left, markers,
                 results, machine, seen>>

\* BootReportHold: nothing for a success; else Enter, F2 if the return was
\* clean, or a keyboard failure that leaves the screen up for good.
Hold ==
  /\ pc = "hold"
  /\ seen' = IF status = "ok" THEN seen ELSE seen \cup {"shown"}
  /\ \/ pc' = "after" /\ UNCHANGED action
     \/ status # "ok" /\ cleanReturn /\ action' = "edit" /\ pc' = "after"
     \/ status # "ok" /\ pc' = "stuck" /\ UNCHANGED action
  /\ UNCHANGED <<settings, prepared, continueSelected, cleanReturn, left, pending, held, markers,
                 results, machine>>

\* The second BootCountdownTakeEdit.
TakeEdit ==
  /\ pc = "after"
  /\ action' = "no"
  /\ IF cleanReturn /\ action = "edit" /\ status # "ok" /\ markerStatus = "ok"
     THEN EditRestart
     ELSE pc' = "exit" /\ UNCHANGED <<editing, probe, firstRun, pending, seen>>
  /\ UNCHANGED <<saved, config, prepared, continueSelected, cleanReturn, left, held, markers,
                 results, machine>>

\* Back in the firmware, at a dead keyboard, halted, or in the legacy boot.
Ended ==
  \/ pc \in {"exit", "stuck"}
  \/ pc = "handoff" /\ outcome \in {"halted", "booting"}

Terminated == Ended /\ UNCHANGED vars

-----------------------------------------------------------------------------

Step ==
  \/ Start \/ LoadConfig \/ Dispatch \/ Setup \/ Reload \/ SetupWindow
  \/ OpenLog \/ PlanBuild \/ Reserve \/ CountdownWait \/ MarkerApply
  \/ DisconnectBarrier \/ HandoffStep \/ PlanRelease \/ Finish
  \/ MarkerRestore \/ Take \/ RomRecoveryOffer \/ Hold \/ TakeEdit

Next == Step \/ Terminated

Spec == Init /\ [][Next]_vars

\* The program runs on: its firmware calls return, and a second passes.
FairSpec == Spec /\ WF_vars(Step)

-----------------------------------------------------------------------------
(* Properties.                                                             *)

BeforeRun == {"load", "loop", "setup", "reload", "window", "open"}

\* "Every owning boot frame and its resources have returned before editing":
\* when setup, or another boot attempt, begins, the previous attempt has left
\* nothing open, allocated or borrowed, changed no hardware, and the marker
\* file is as it was.
SetupIsClean ==
  pc \in BeforeRun =>
    /\ held = {} /\ ~attempted /\ marker = "original"
    /\ hardware = "original" /\ outcome = "running"

\* Once the countdown before the handoff has run out, the session never offers
\* or begins setup or another attempt: "no returning setup request after
\* proceeding toward handoff".
NoSecondAttempt ==
  "proceeded" \in seen =>
    /\ pc \notin BeforeRun \cup {"plan", "reserve", "countdown", "recovery", "assessed"}
    /\ pc = "hold" => ~cleanReturn

\* A boot attempt works from the settings that are on disk, and only if these
\* no longer ask for setup; only AutoBoot settings get to the countdown.
BootsSavedSettings ==
  pc \in {"open", "plan", "reserve", "countdown", "marker", "barrier", "handoff"} =>
    /\ config = saved /\ config # None /\ ~config.probe
    /\ pc \notin {"open", "plan"} => config.auto

\* As long as the marker file differs from what it was, the bytes to put back
\* are in memory and the attempt is noted, and if the session ends that way
\* the failed restoration has been reported.
MarkerRecoverable ==
  marker # "original" =>
    /\ attempted /\ original = "original"
    /\ pc \in {"take", "hold", "after", "exit", "stuck"} =>
         markerStatus # "ok" /\ status # "ok" /\ ~(pc = "exit" /\ "shown" \notin seen)

\* The recovery menu says that an overlap was "detected before hardware
\* handoff": this very attempt found one, nothing was changed.
RecoveryMenuIsReal ==
  pc \in {"recovery", "assessed"} =>
    /\ "overlap" \in seen /\ hardware = "original"
    /\ marker = "original" /\ "dispatch" \notin held

\* An attempt that goes back to the firmware without an error screen either
\* succeeded or was cancelled with Esc, and everything is released.
SilentExitIsClean ==
  pc = "exit" /\ "ran" \in seen /\ "shown" \notin seen =>
    /\ held = {} /\ marker = "original" /\ hardware = "original"
    /\ status = "ok" \/ "asked" \in seen

\* A boot attempt always comes to an end, at a screen that waits for the user,
\* in the legacy boot, halted, or back in the dispatcher, without any key.
AttemptEnds ==
  pc = "open" ~> (Ended \/ pc \in {"hold", "recovery", "loop"})

=============================================================================
