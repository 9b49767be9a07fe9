-------------------------- MODULE BootSessionProofs -------------------------
(***************************************************************************)
(* One start of the application keeps its promises for any settings, any   *)
(* length of the countdowns and any number of rounds of the dispatcher.    *)
(***************************************************************************)
EXTENDS BootSession, TLAPS

-----------------------------------------------------------------------------
(* The inductive invariant.                                                *)

\* From the end of the countdown on there is only one way.
Committed ==
  {"marker", "barrier", "handoff", "release", "finish", "restore", "take", "hold", "after",
   "exit", "stuck"}

\* A round begins with nothing left over from the one before; hardware is
\* changed only in the handoff, which is entered after the countdown.
RoundInv ==
  /\ pc \in BeforeRun \cup {"start"} =>
       held = {} /\ seen = {} /\ outcome = "running" /\ ~attempted /\ ~pending
  /\ pc # "handoff" => hardware = "original"
  /\ outcome # "running" => "proceeded" \in seen
  /\ pc \in {"marker", "barrier", "handoff"} => "proceeded" \in seen

\* cleanReturn is decided at the end of an attempt, for an attempt that did not
\* get past its countdown.
CountdownInv ==
  /\ pc \in {"start", "load", "window", "open", "plan", "reserve", "countdown", "marker",
             "barrier", "handoff", "release", "finish"} => ~cleanReturn
  /\ pc \in {"start", "load", "window", "open", "plan", "reserve", "countdown", "marker",
             "barrier", "handoff", "hold", "recovery", "assessed"} => action = "no"
  /\ "proceeded" \in seen => pc \in Committed /\ continueSelected /\ ~cleanReturn
  /\ action = "cancel" /\ pc \in {"release", "finish", "restore", "take"} => "asked" \in seen

\* What is loaded is what is saved, until setup begins.
SettingsInv ==
  /\ pc = "loop" /\ ~probe => config = saved /\ config # None /\ ~config.probe
  /\ pc \in {"window", "open", "plan", "reserve", "countdown", "marker", "barrier", "handoff"} =>
       config = saved /\ config # None /\ ~config.probe
  /\ pc \in {"reserve", "countdown", "marker", "barrier", "handoff"} => config.auto

\* The marker file is as it was, or the attempt on it is noted; what is put
\* back is what it was.
MarkerInv ==
  /\ original = "original"
  /\ ~attempted => marker = "original"
  /\ attempted => pc \in Committed \ {"marker"}
  /\ attempted /\ pc \in {"take", "hold", "after", "exit", "stuck"} =>
       markerStatus # "ok" /\ status # "ok"
  /\ attempted /\ pc \in {"after", "exit"} => "shown" \in seen

\* An overlap is pending only in the attempt that found it, before anything
\* was done.
PendingInv ==
  /\ pending => /\ pc \in {"release", "finish", "restore", "take", "recovery", "assessed", "stuck"}
                /\ "overlap" \in seen /\ "proceeded" \notin seen /\ "dispatch" \notin held
                /\ ~attempted /\ action = "no"
  /\ pc \in {"recovery", "assessed"} => pending /\ "shown" \in seen

\* What an attempt still holds on its way back.
ReturnInv ==
  /\ pc = "plan" => held = {"files", "log"}
  /\ pc = "finish" /\ cleanup = "ok" => held \subseteq {"files", "log"}
  /\ pc \in {"restore", "take", "hold"} /\ (status = "ok" \/ cleanReturn) => held = {}
  /\ pc = "recovery" /\ cleanReturn => held = {}
  /\ pc \in {"hold", "recovery", "assessed", "after"} /\ cleanReturn => markerStatus = "ok"
  /\ pc = "after" /\ action = "edit" => cleanReturn /\ held = {}
  /\ pc = "after" /\ "shown" \notin seen => held = {} /\ status = "ok"
  /\ pc = "exit" /\ "ran" \in seen /\ "shown" \notin seen =>
       held = {} /\ (status = "ok" \/ "asked" \in seen)

SessionInv ==
  TypeOK /\ RoundInv /\ CountdownInv /\ SettingsInv /\ MarkerInv /\ PendingInv /\ ReturnInv

-----------------------------------------------------------------------------
(* The parts of the type invariant, one for each way to prove them.        *)

Flags ==
  /\ probe \in BOOLEAN /\ firstRun \in BOOLEAN /\ editing \in BOOLEAN
  /\ prepared \in BOOLEAN /\ continueSelected \in BOOLEAN /\ cleanReturn \in BOOLEAN
  /\ pending \in BOOLEAN /\ attempted \in BOOLEAN

Words ==
  /\ pc \in Labels
  /\ action \in {"no", "edit", "cancel"}
  /\ marker \in Contents /\ original \in Contents
  /\ status \in Statuses /\ cleanup \in Statuses /\ markerStatus \in Statuses
  /\ hardware \in {"original", "changed", "rolledBack"}
  /\ outcome \in {"running", "returned", "halted", "booting"}

Files == saved \in Settings \cup {None} /\ config \in Settings \cup {None}

Others == left \in 0 .. Seconds /\ held \subseteq Resources /\ seen \subseteq Events

-----------------------------------------------------------------------------
(* The steps of the program.                                               *)

\* The groups of variables that actions leave alone.
USE DEF settings, countdown, markers, results, machine

LEMMA Start_Inv == ASSUME SessionInv, Start PROVE SessionInv'
<1>1. TypeOK'
  <2>1. Flags'
    BY Zenon DEF SessionInv, TypeOK, Flags, Start
  <2>2. Words'
    BY DEF SessionInv, TypeOK, Words, Start, Labels, Statuses
  <2>3. Files'
    BY DEF SessionInv, TypeOK, Files, Start
  <2>4. Others'
    BY DEF SessionInv, TypeOK, Others, Start
  <2> QED BY <2>1, <2>2, <2>3, <2>4 DEF TypeOK, Flags, Words, Files, Others
<1>2. RoundInv'
  BY DEF SessionInv, RoundInv, Start
<1>3. CountdownInv'
  BY DEF SessionInv, CountdownInv, Start, Committed
<1>4. SettingsInv'
  BY DEF SessionInv, SettingsInv, Start
<1>5. MarkerInv'
  BY DEF SessionInv, MarkerInv, Start, Committed
<1>6. PendingInv'
  BY DEF SessionInv, PendingInv, Start
<1>7. ReturnInv'
  BY DEF SessionInv, ReturnInv, CountdownInv, RoundInv, Start
<1> QED BY <1>1, <1>2, <1>3, <1>4, <1>5, <1>6, <1>7 DEF SessionInv

LEMMA LoadConfig_Inv == ASSUME SessionInv, LoadConfig PROVE SessionInv'
<1>1. TypeOK'
  <2>1. Flags'
    BY Zenon DEF SessionInv, TypeOK, Flags, LoadConfig, Loading
  <2>2. Words'
    BY DEF SessionInv, TypeOK, Words, LoadConfig, Loading, Labels, Statuses
  <2>3. Files'
    BY DEF SessionInv, TypeOK, Files, LoadConfig, Loading
  <2>4. Others'
    BY DEF SessionInv, TypeOK, Others, LoadConfig, Loading, Resources
  <2> QED BY <2>1, <2>2, <2>3, <2>4 DEF TypeOK, Flags, Words, Files, Others
<1>2. RoundInv'
  BY DEF SessionInv, RoundInv, LoadConfig, Loading, BeforeRun
<1>3. CountdownInv'
  BY DEF SessionInv, CountdownInv, LoadConfig, Loading, Committed
<1>4. SettingsInv'
  BY DEF SessionInv, SettingsInv, LoadConfig, Loading
<1>5. MarkerInv'
  BY DEF SessionInv, MarkerInv, LoadConfig, Loading, Committed
<1>6. PendingInv'
  BY DEF SessionInv, PendingInv, LoadConfig, Loading
<1>7. ReturnInv'
  BY DEF SessionInv, ReturnInv, RoundInv, CountdownInv, LoadConfig, Loading, BeforeRun, Failures
<1> QED BY <1>1, <1>2, <1>3, <1>4, <1>5, <1>6, <1>7 DEF SessionInv

LEMMA Dispatch_Inv == ASSUME SessionInv, Dispatch PROVE SessionInv'
<1>1. TypeOK'
  <2>1. Flags'
    BY Zenon DEF SessionInv, TypeOK, Flags, Dispatch
  <2>2. Words'
    BY DEF SessionInv, TypeOK, Words, Dispatch, Labels
  <2>3. Files'
    BY DEF SessionInv, TypeOK, Files, Dispatch
  <2>4. Others'
    BY SessionAssumption DEF SessionInv, TypeOK, Others, Dispatch
  <2> QED BY <2>1, <2>2, <2>3, <2>4 DEF TypeOK, Flags, Words, Files, Others
<1>2. RoundInv'
  BY DEF SessionInv, RoundInv, Dispatch, BeforeRun
<1>3. CountdownInv'
  BY DEF SessionInv, CountdownInv, Dispatch, Committed
<1>4. SettingsInv'
  BY DEF SessionInv, SettingsInv, Dispatch
<1>5. MarkerInv'
  BY DEF SessionInv, MarkerInv, Dispatch, Committed
<1>6. PendingInv'
  BY DEF SessionInv, PendingInv, Dispatch
<1>7. ReturnInv'
  BY DEF SessionInv, ReturnInv, Dispatch
<1> QED BY <1>1, <1>2, <1>3, <1>4, <1>5, <1>6, <1>7 DEF SessionInv

\* Whatever setup saves has the type of settings.
LEMMA SavedBySetupType ==
  ASSUME TypeOK, NEW t \in Targets PROVE SavedBySetup(t) \in Settings
BY DEF TypeOK, SavedBySetup, Settings

LEMMA Setup_Inv == ASSUME SessionInv, Setup PROVE SessionInv'
<1>1. TypeOK'
  <2>1. Flags'
    BY Zenon DEF SessionInv, TypeOK, Flags, Setup, SavedBySetup
  <2>2. Words'
    BY DEF SessionInv, TypeOK, Words, Setup, SavedBySetup, Labels, Statuses
  <2>3. Files'
    <3>1. saved' \in {saved, None} \cup {SavedBySetup(t) : t \in Targets} /\ config' = config
      BY DEF Setup
    <3> QED BY <3>1, SavedBySetupType DEF SessionInv, TypeOK, Files
  <2>4. Others'
    BY DEF SessionInv, TypeOK, Others, Setup, SavedBySetup, Resources
  <2> QED BY <2>1, <2>2, <2>3, <2>4 DEF TypeOK, Flags, Words, Files, Others
<1>2. RoundInv'
  BY DEF SessionInv, RoundInv, Setup, SavedBySetup, BeforeRun
<1>3. CountdownInv'
  BY DEF SessionInv, CountdownInv, Setup, SavedBySetup, Committed
<1>4. SettingsInv'
  BY DEF SessionInv, SettingsInv, Setup, SavedBySetup
<1>5. MarkerInv'
  BY DEF SessionInv, MarkerInv, Setup, SavedBySetup, Committed
<1>6. PendingInv'
  BY DEF SessionInv, PendingInv, Setup, SavedBySetup
<1>7. ReturnInv'
  BY DEF SessionInv, ReturnInv, RoundInv, Setup, SavedBySetup, BeforeRun, Failures
<1> QED BY <1>1, <1>2, <1>3, <1>4, <1>5, <1>6, <1>7 DEF SessionInv

LEMMA Reload_Inv == ASSUME SessionInv, Reload PROVE SessionInv'
<1>1. TypeOK'
  <2>1. Flags'
    BY Zenon DEF SessionInv, TypeOK, Flags, Reload, Loading
  <2>2. Words'
    BY DEF SessionInv, TypeOK, Words, Reload, Loading, Labels, Statuses
  <2>3. Files'
    BY DEF SessionInv, TypeOK, Files, Reload, Loading
  <2>4. Others'
    BY DEF SessionInv, TypeOK, Others, Reload, Loading, Resources
  <2> QED BY <2>1, <2>2, <2>3, <2>4 DEF TypeOK, Flags, Words, Files, Others
<1>2. RoundInv'
  BY DEF SessionInv, RoundInv, Reload, Loading, BeforeRun
<1>3. CountdownInv'
  BY DEF SessionInv, CountdownInv, Reload, Loading, Committed
<1>4. SettingsInv'
  BY DEF SessionInv, SettingsInv, Reload, Loading
<1>5. MarkerInv'
  BY DEF SessionInv, MarkerInv, Reload, Loading, Committed
<1>6. PendingInv'
  BY DEF SessionInv, PendingInv, Reload, Loading
<1>7. ReturnInv'
  BY DEF SessionInv, ReturnInv, RoundInv, Reload, Loading, BeforeRun, Failures
<1> QED BY <1>1, <1>2, <1>3, <1>4, <1>5, <1>6, <1>7 DEF SessionInv

LEMMA SetupWindow_Inv == ASSUME SessionInv, SetupWindow PROVE SessionInv'
<1>1. TypeOK'
  <2>1. Flags'
    BY Zenon DEF SessionInv, TypeOK, Flags, SetupWindow, BeginEdit
  <2>2. Words'
    BY DEF SessionInv, TypeOK, Words, SetupWindow, BeginEdit, Labels, Statuses, Failures,
           Contents
  <2>3. Files'
    BY DEF SessionInv, TypeOK, Files, SetupWindow, BeginEdit
  <2>4. Others'
    <3>1. left' \in 0 .. Seconds
      BY SessionAssumption DEF SessionInv, TypeOK, SetupWindow
    <3>2. held' \subseteq Resources /\ seen' \subseteq Events
      BY DEF SessionInv, TypeOK, SetupWindow, Events
    <3> QED BY <3>1, <3>2 DEF Others
  <2> QED BY <2>1, <2>2, <2>3, <2>4 DEF TypeOK, Flags, Words, Files, Others
<1>2. RoundInv'
  BY DEF SessionInv, RoundInv, SetupWindow, BeginEdit, BeforeRun
<1>3. CountdownInv'
  BY DEF SessionInv, CountdownInv, SetupWindow, BeginEdit, Committed
<1>4. SettingsInv'
  BY DEF SessionInv, SettingsInv, SetupWindow, BeginEdit
<1>5. MarkerInv'
  BY DEF SessionInv, MarkerInv, SetupWindow, BeginEdit, Committed
<1>6. PendingInv'
  BY DEF SessionInv, PendingInv, SetupWindow, BeginEdit
<1>7. ReturnInv'
  BY DEF SessionInv, ReturnInv, RoundInv, CountdownInv, SetupWindow, BeginEdit, BeforeRun,
         Failures
<1> QED BY <1>1, <1>2, <1>3, <1>4, <1>5, <1>6, <1>7 DEF SessionInv

LEMMA OpenLog_Inv == ASSUME SessionInv, OpenLog PROVE SessionInv'
<1>1. TypeOK'
  <2>1. Flags'
    BY Zenon DEF SessionInv, TypeOK, Flags, OpenLog
  <2>2. Words'
    BY DEF SessionInv, TypeOK, Words, OpenLog, Labels, Statuses
  <2>3. Files'
    BY DEF SessionInv, TypeOK, Files, OpenLog
  <2>4. Others'
    BY DEF SessionInv, TypeOK, Others, OpenLog, Resources, Events
  <2> QED BY <2>1, <2>2, <2>3, <2>4 DEF TypeOK, Flags, Words, Files, Others
<1>2. RoundInv'
  BY DEF SessionInv, RoundInv, OpenLog, BeforeRun
<1>3. CountdownInv'
  BY DEF SessionInv, CountdownInv, OpenLog, Committed
<1>4. SettingsInv'
  BY DEF SessionInv, SettingsInv, OpenLog
<1>5. MarkerInv'
  BY DEF SessionInv, MarkerInv, OpenLog, Committed
<1>6. PendingInv'
  BY DEF SessionInv, PendingInv, OpenLog
<1>7. ReturnInv'
  BY DEF SessionInv, ReturnInv, CountdownInv, OpenLog, Failures
<1> QED BY <1>1, <1>2, <1>3, <1>4, <1>5, <1>6, <1>7 DEF SessionInv

\* What the ROM guard finds it finds before anything is reserved or changed.
LEMMA PlanBuild_Inv == ASSUME SessionInv, PlanBuild PROVE SessionInv'
<1>1. TypeOK'
  <2>1. Flags'
    BY Zenon DEF SessionInv, TypeOK, Flags, PlanBuild
  <2>2. Words'
    <3>1. pc' \in {"release", "reserve"} /\ status' \in Statuses
      BY DEF PlanBuild, Statuses, Failures
    <3>2. UNCHANGED <<action, marker, original, cleanup, markerStatus, hardware, outcome>>
      BY DEF PlanBuild
    <3> QED BY <3>1, <3>2 DEF SessionInv, TypeOK, Words, Labels
  <2>3. Files'
    BY DEF SessionInv, TypeOK, Files, PlanBuild
  <2>4. Others'
    BY DEF SessionInv, TypeOK, Others, PlanBuild, Resources, Events
  <2> QED BY <2>1, <2>2, <2>3, <2>4 DEF TypeOK, Flags, Words, Files, Others
<1>2. RoundInv'
  BY DEF SessionInv, RoundInv, PlanBuild, BeforeRun
<1>3. CountdownInv'
  BY DEF SessionInv, CountdownInv, PlanBuild, Committed
<1>4. SettingsInv'
  BY DEF SessionInv, SettingsInv, PlanBuild
<1>5. MarkerInv'
  BY DEF SessionInv, MarkerInv, PlanBuild, Committed
<1>6. PendingInv'
  <2>1. ~pending /\ held = {"files", "log"}
    BY DEF SessionInv, PendingInv, ReturnInv, PlanBuild
  <2>2. CASE "overlap" \in seen' /\ held' = held \cup {"plan"} /\ pc' = "release"
    BY <2>1, <2>2 DEF SessionInv, CountdownInv, MarkerInv, PendingInv, PlanBuild, Committed
  <2>3. CASE ~pending'
    BY <2>3 DEF PendingInv, PlanBuild
  <2>4. \/ pending' \in {pending, FALSE}
        \/ seen' = seen \cup {"overlap"} /\ held' = held \cup {"plan"} /\ pc' = "release"
        \/ pending' = FALSE
    BY DEF PlanBuild
  <2> QED BY <2>1, <2>2, <2>3, <2>4, Zenon
<1>7. ReturnInv'
  BY DEF SessionInv, ReturnInv, PlanBuild
<1> QED BY <1>1, <1>2, <1>3, <1>4, <1>5, <1>6, <1>7 DEF SessionInv

LEMMA Reserve_Inv == ASSUME SessionInv, Reserve PROVE SessionInv'
<1>1. TypeOK'
  <2>1. Flags'
    BY Zenon DEF SessionInv, TypeOK, Flags, Reserve
  <2>2. Words'
    BY DEF SessionInv, TypeOK, Words, Reserve, Labels, Statuses
  <2>3. Files'
    BY DEF SessionInv, TypeOK, Files, Reserve
  <2>4. Others'
    <3>1. left' \in 0 .. Seconds
      BY SessionAssumption DEF SessionInv, TypeOK, Reserve
    <3>2. held' \subseteq Resources /\ seen' \subseteq Events
      BY DEF SessionInv, TypeOK, Reserve, Resources
    <3> QED BY <3>1, <3>2 DEF Others
  <2> QED BY <2>1, <2>2, <2>3, <2>4 DEF TypeOK, Flags, Words, Files, Others
<1>2. RoundInv'
  BY DEF SessionInv, RoundInv, Reserve, BeforeRun
<1>3. CountdownInv'
  BY DEF SessionInv, CountdownInv, Reserve, Committed
<1>4. SettingsInv'
  BY DEF SessionInv, SettingsInv, Reserve
<1>5. MarkerInv'
  BY DEF SessionInv, MarkerInv, Reserve, Committed
<1>6. PendingInv'
  BY DEF SessionInv, PendingInv, Reserve
<1>7. ReturnInv'
  BY DEF SessionInv, ReturnInv, Reserve
<1> QED BY <1>1, <1>2, <1>3, <1>4, <1>5, <1>6, <1>7 DEF SessionInv

\* The only step that commits the attempt.
LEMMA CountdownWait_Inv == ASSUME SessionInv, CountdownWait PROVE SessionInv'
<1>1. TypeOK'
  <2>1. Flags'
    BY Zenon DEF SessionInv, TypeOK, Flags, CountdownWait
  <2>2. Words'
    BY DEF SessionInv, TypeOK, Words, CountdownWait, Labels, Statuses, Failures, Contents
  <2>3. Files'
    BY DEF SessionInv, TypeOK, Files, CountdownWait
  <2>4. Others'
    <3>1. left' \in 0 .. Seconds
      BY SessionAssumption DEF SessionInv, TypeOK, CountdownWait
    <3>2. held' \subseteq Resources /\ seen' \subseteq Events
      BY DEF SessionInv, TypeOK, CountdownWait, Events
    <3> QED BY <3>1, <3>2 DEF Others
  <2> QED BY <2>1, <2>2, <2>3, <2>4 DEF TypeOK, Flags, Words, Files, Others
<1>2. RoundInv'
  BY DEF SessionInv, RoundInv, CountdownWait, BeforeRun
<1>3. CountdownInv'
  BY DEF SessionInv, CountdownInv, CountdownWait, Committed
<1>4. SettingsInv'
  BY DEF SessionInv, SettingsInv, CountdownWait
<1>5. MarkerInv'
  BY DEF SessionInv, MarkerInv, CountdownWait, Committed
<1>6. PendingInv'
  BY DEF SessionInv, PendingInv, CountdownWait
<1>7. ReturnInv'
  BY DEF SessionInv, ReturnInv, CountdownWait
<1> QED BY <1>1, <1>2, <1>3, <1>4, <1>5, <1>6, <1>7 DEF SessionInv

\* The file is as it was, so what is remembered of it is the original.
LEMMA MarkerApply_Inv == ASSUME SessionInv, MarkerApply PROVE SessionInv'
<1>1. TypeOK'
  <2>1. Flags'
    BY Zenon DEF SessionInv, TypeOK, Flags, MarkerApply
  <2>2. Words'
    BY DEF SessionInv, TypeOK, Words, MarkerApply, Labels, Statuses, Failures, Contents
  <2>3. Files'
    BY DEF SessionInv, TypeOK, Files, MarkerApply
  <2>4. Others'
    BY DEF SessionInv, TypeOK, Others, MarkerApply
  <2> QED BY <2>1, <2>2, <2>3, <2>4 DEF TypeOK, Flags, Words, Files, Others
<1>2. RoundInv'
  BY DEF SessionInv, RoundInv, MarkerApply, BeforeRun
<1>3. CountdownInv'
  BY DEF SessionInv, CountdownInv, MarkerApply, Committed
<1>4. SettingsInv'
  BY DEF SessionInv, SettingsInv, MarkerApply
<1>5. MarkerInv'
  BY DEF SessionInv, MarkerInv, MarkerApply, Committed
<1>6. PendingInv'
  BY DEF SessionInv, PendingInv, MarkerApply
<1>7. ReturnInv'
  BY DEF SessionInv, ReturnInv, MarkerApply
<1> QED BY <1>1, <1>2, <1>3, <1>4, <1>5, <1>6, <1>7 DEF SessionInv

LEMMA DisconnectBarrier_Inv == ASSUME SessionInv, DisconnectBarrier PROVE SessionInv'
<1>1. TypeOK'
  <2>1. Flags'
    BY Zenon DEF SessionInv, TypeOK, Flags, DisconnectBarrier
  <2>2. Words'
    BY DEF SessionInv, TypeOK, Words, DisconnectBarrier, Labels, Statuses
  <2>3. Files'
    BY DEF SessionInv, TypeOK, Files, DisconnectBarrier
  <2>4. Others'
    BY DEF SessionInv, TypeOK, Others, DisconnectBarrier
  <2> QED BY <2>1, <2>2, <2>3, <2>4 DEF TypeOK, Flags, Words, Files, Others
<1>2. RoundInv'
  BY DEF SessionInv, RoundInv, DisconnectBarrier, BeforeRun
<1>3. CountdownInv'
  BY DEF SessionInv, CountdownInv, DisconnectBarrier, Committed
<1>4. SettingsInv'
  BY DEF SessionInv, SettingsInv, DisconnectBarrier
<1>5. MarkerInv'
  BY DEF SessionInv, MarkerInv, DisconnectBarrier, Committed
<1>6. PendingInv'
  BY DEF SessionInv, PendingInv, DisconnectBarrier
<1>7. ReturnInv'
  BY DEF SessionInv, ReturnInv, DisconnectBarrier
<1> QED BY <1>1, <1>2, <1>3, <1>4, <1>5, <1>6, <1>7 DEF SessionInv

\* The contract returns only with the hardware as it was.
LEMMA HandoffStep_Inv == ASSUME SessionInv, HandoffStep PROVE SessionInv'
<1>1. TypeOK'
  <2>1. Flags'
    BY Zenon DEF SessionInv, TypeOK, Flags, HandoffStep, Handoff!Next, Handoff!Return,
                 Handoff!Change, Handoff!RollBack, Handoff!Halt, Handoff!Boot
  <2>2. Words'
    BY DEF SessionInv, TypeOK, Words, HandoffStep, Handoff!Next, Handoff!Return,
           Handoff!Change, Handoff!RollBack, Handoff!Halt, Handoff!Boot, Labels, Statuses
  <2>3. Files'
    BY DEF SessionInv, TypeOK, Files, HandoffStep, Handoff!Next, Handoff!Return,
           Handoff!Change, Handoff!RollBack, Handoff!Halt, Handoff!Boot
  <2>4. Others'
    BY DEF SessionInv, TypeOK, Others, HandoffStep, Handoff!Next,
                             Handoff!Return, Handoff!Change, Handoff!RollBack,
                             Handoff!Halt, Handoff!Boot
  <2> QED BY <2>1, <2>2, <2>3, <2>4 DEF TypeOK, Flags, Words, Files, Others
<1>2. RoundInv'
  BY DEF SessionInv, RoundInv, HandoffStep, Handoff!Next, Handoff!Return, Handoff!Change,
         Handoff!RollBack, Handoff!Halt, Handoff!Boot, BeforeRun
<1>3. CountdownInv'
  BY DEF SessionInv, CountdownInv, HandoffStep, Handoff!Next, Handoff!Return, Handoff!Change,
         Handoff!RollBack, Handoff!Halt, Handoff!Boot, Committed
<1>4. SettingsInv'
  BY DEF SessionInv, SettingsInv, HandoffStep, Handoff!Next, Handoff!Return, Handoff!Change,
         Handoff!RollBack, Handoff!Halt, Handoff!Boot
<1>5. MarkerInv'
  BY DEF SessionInv, MarkerInv, HandoffStep, Handoff!Next, Handoff!Return, Handoff!Change,
         Handoff!RollBack, Handoff!Halt, Handoff!Boot, Committed
<1>6. PendingInv'
  BY DEF SessionInv, PendingInv, HandoffStep, Handoff!Next, Handoff!Return, Handoff!Change,
         Handoff!RollBack, Handoff!Halt, Handoff!Boot
<1>7. ReturnInv'
  BY DEF SessionInv, ReturnInv, HandoffStep, Handoff!Next, Handoff!Return, Handoff!Change,
         Handoff!RollBack, Handoff!Halt, Handoff!Boot
<1> QED BY <1>1, <1>2, <1>3, <1>4, <1>5, <1>6, <1>7 DEF SessionInv

LEMMA PlanRelease_Inv == ASSUME SessionInv, PlanRelease PROVE SessionInv'
<1>1. TypeOK'
  <2>1. Flags'
    BY Zenon DEF SessionInv, TypeOK, Flags, PlanRelease
  <2>2. Words'
    BY DEF SessionInv, TypeOK, Words, PlanRelease, Labels, Statuses
  <2>3. Files'
    BY DEF SessionInv, TypeOK, Files, PlanRelease
  <2>4. Others'
    BY DEF SessionInv, TypeOK, Others, PlanRelease
  <2> QED BY <2>1, <2>2, <2>3, <2>4 DEF TypeOK, Flags, Words, Files, Others
<1>2. RoundInv'
  BY DEF SessionInv, RoundInv, PlanRelease, BeforeRun
<1>3. CountdownInv'
  BY DEF SessionInv, CountdownInv, PlanRelease, Committed
<1>4. SettingsInv'
  BY DEF SessionInv, SettingsInv, PlanRelease
<1>5. MarkerInv'
  BY DEF SessionInv, MarkerInv, PlanRelease, Committed
<1>6. PendingInv'
  BY DEF SessionInv, PendingInv, PlanRelease
<1>7. ReturnInv'
  <2>1. cleanup' = "ok" => held' \subseteq {"files", "log"}
    BY DEF SessionInv, TypeOK, PlanRelease, Resources, Failures
  <2> QED BY <2>1 DEF ReturnInv, PlanRelease
<1> QED BY <1>1, <1>2, <1>3, <1>4, <1>5, <1>6, <1>7 DEF SessionInv

\* A return is clean only with everything closed and the countdown not over.
LEMMA Finish_Inv == ASSUME SessionInv, Finish PROVE SessionInv'
<1>1. TypeOK'
  <2>1. Flags'
    BY Zenon DEF SessionInv, TypeOK, Flags, Finish, UserAction
  <2>2. Words'
    BY DEF SessionInv, TypeOK, Words, Finish, UserAction, Labels
  <2>3. Files'
    BY DEF SessionInv, TypeOK, Files, Finish, UserAction
  <2>4. Others'
    BY DEF SessionInv, TypeOK, Others, Finish, UserAction
  <2> QED BY <2>1, <2>2, <2>3, <2>4 DEF TypeOK, Flags, Words, Files, Others
<1>2. RoundInv'
  BY DEF SessionInv, RoundInv, Finish, UserAction, BeforeRun
<1>3. CountdownInv'
  BY DEF SessionInv, CountdownInv, Finish, UserAction, Committed
<1>4. SettingsInv'
  BY DEF SessionInv, SettingsInv, Finish, UserAction
<1>5. MarkerInv'
  BY DEF SessionInv, MarkerInv, Finish, UserAction, Committed
<1>6. PendingInv'
  BY DEF SessionInv, PendingInv, Finish, UserAction
<1>7. ReturnInv'
  BY DEF SessionInv, ReturnInv, Finish, UserAction
<1> QED BY <1>1, <1>2, <1>3, <1>4, <1>5, <1>6, <1>7 DEF SessionInv

\* A marker that could not be put back spoils the status.
LEMMA MarkerRestore_Inv == ASSUME SessionInv, MarkerRestore PROVE SessionInv'
<1>1. TypeOK'
  <2>1. Flags'
    BY Zenon DEF SessionInv, TypeOK, Flags, MarkerRestore
  <2>2. Words'
    BY DEF SessionInv, TypeOK, Words, MarkerRestore, Labels, Statuses, Failures, Contents
  <2>3. Files'
    BY DEF SessionInv, TypeOK, Files, MarkerRestore
  <2>4. Others'
    BY DEF SessionInv, TypeOK, Others, MarkerRestore
  <2> QED BY <2>1, <2>2, <2>3, <2>4 DEF TypeOK, Flags, Words, Files, Others
<1>2. RoundInv'
  BY DEF SessionInv, RoundInv, MarkerRestore, BeforeRun
<1>3. CountdownInv'
  BY DEF SessionInv, CountdownInv, MarkerRestore, Committed
<1>4. SettingsInv'
  BY DEF SessionInv, SettingsInv, MarkerRestore
<1>5. MarkerInv'
  <2>1. CASE ~attempted
    BY <2>1 DEF SessionInv, MarkerInv, MarkerRestore
  <2>2. CASE attempted /\ marker' = original /\ attempted' = FALSE
    BY <2>2 DEF SessionInv, MarkerInv, MarkerRestore
  <2>3. CASE attempted /\ attempted' = attempted /\ markerStatus' \in Failures
    BY <2>3 DEF SessionInv, MarkerInv, MarkerRestore, Committed, Failures
  <2> QED BY <2>1, <2>2, <2>3 DEF MarkerRestore
<1>6. PendingInv'
  BY DEF SessionInv, PendingInv, MarkerRestore
<1>7. ReturnInv'
  BY DEF SessionInv, ReturnInv, MarkerRestore
<1> QED BY <1>1, <1>2, <1>3, <1>4, <1>5, <1>6, <1>7 DEF SessionInv

\* The way back to setup, without an error screen, needs a clean return.
LEMMA Take_Inv == ASSUME SessionInv, Take PROVE SessionInv'
<1>1. TypeOK'
  <2>1. Flags'
    BY Zenon DEF SessionInv, TypeOK, Flags, Take, BeginEdit, EditRestart
  <2>2. Words'
    BY DEF SessionInv, TypeOK, Words, Take, BeginEdit, EditRestart, Labels
  <2>3. Files'
    BY DEF SessionInv, TypeOK, Files, Take, BeginEdit, EditRestart
  <2>4. Others'
    BY DEF SessionInv, TypeOK, Others, Take, BeginEdit, EditRestart, Events
  <2> QED BY <2>1, <2>2, <2>3, <2>4 DEF TypeOK, Flags, Words, Files, Others
<1>2. RoundInv'
  BY DEF SessionInv, RoundInv, CountdownInv, MarkerInv, ReturnInv, Take, BeginEdit,
         EditRestart, BeforeRun
<1>3. CountdownInv'
  BY DEF SessionInv, CountdownInv, PendingInv, TypeOK, Take, BeginEdit, EditRestart, Committed
<1>4. SettingsInv'
  BY DEF SessionInv, SettingsInv, Take, BeginEdit, EditRestart
<1>5. MarkerInv'
  BY DEF SessionInv, MarkerInv, Take, BeginEdit, EditRestart, Committed
<1>6. PendingInv'
  BY DEF SessionInv, PendingInv, Take, BeginEdit, EditRestart
<1>7. ReturnInv'
  BY DEF SessionInv, ReturnInv, CountdownInv, TypeOK, Take, BeginEdit, EditRestart
<1> QED BY <1>1, <1>2, <1>3, <1>4, <1>5, <1>6, <1>7 DEF SessionInv

\* After the assessment, whose log may stay open, F2 is no longer taken.
LEMMA RomRecoveryOffer_Inv == ASSUME SessionInv, RomRecoveryOffer PROVE SessionInv'
<1>1. TypeOK'
  <2>1. Flags'
    BY Zenon DEF SessionInv, TypeOK, Flags, RomRecoveryOffer
  <2>2. Words'
    BY DEF SessionInv, TypeOK, Words, RomRecoveryOffer, Labels
  <2>3. Files'
    BY DEF SessionInv, TypeOK, Files, RomRecoveryOffer
  <2>4. Others'
    BY DEF SessionInv, TypeOK, Others, RomRecoveryOffer, Resources
  <2> QED BY <2>1, <2>2, <2>3, <2>4 DEF TypeOK, Flags, Words, Files, Others
<1>2. RoundInv'
  BY DEF SessionInv, RoundInv, RomRecoveryOffer, BeforeRun
<1>3. CountdownInv'
  BY DEF SessionInv, CountdownInv, RomRecoveryOffer, Committed
<1>4. SettingsInv'
  BY DEF SessionInv, SettingsInv, RomRecoveryOffer
<1>5. MarkerInv'
  BY DEF SessionInv, MarkerInv, RomRecoveryOffer, Committed
<1>6. PendingInv'
  BY DEF SessionInv, PendingInv, RomRecoveryOffer
<1>7. ReturnInv'
  BY DEF SessionInv, ReturnInv, CountdownInv, PendingInv, RomRecoveryOffer
<1> QED BY <1>1, <1>2, <1>3, <1>4, <1>5, <1>6, <1>7 DEF SessionInv

LEMMA Hold_Inv == ASSUME SessionInv, Hold PROVE SessionInv'
<1>1. TypeOK'
  <2>1. Flags'
    BY Zenon DEF SessionInv, TypeOK, Flags, Hold
  <2>2. Words'
    BY DEF SessionInv, TypeOK, Words, Hold, Labels
  <2>3. Files'
    BY DEF SessionInv, TypeOK, Files, Hold
  <2>4. Others'
    BY DEF SessionInv, TypeOK, Others, Hold, Events
  <2> QED BY <2>1, <2>2, <2>3, <2>4 DEF TypeOK, Flags, Words, Files, Others
<1>2. RoundInv'
  BY DEF SessionInv, RoundInv, Hold, BeforeRun
<1>3. CountdownInv'
  BY DEF SessionInv, CountdownInv, Hold, Committed
<1>4. SettingsInv'
  BY DEF SessionInv, SettingsInv, Hold
<1>5. MarkerInv'
  BY DEF SessionInv, MarkerInv, Hold, Committed
<1>6. PendingInv'
  BY DEF SessionInv, PendingInv, Hold
<1>7. ReturnInv'
  BY DEF SessionInv, ReturnInv, CountdownInv, Hold
<1> QED BY <1>1, <1>2, <1>3, <1>4, <1>5, <1>6, <1>7 DEF SessionInv

\* The way back to setup after an error screen or the recovery menu.
LEMMA TakeEdit_Inv == ASSUME SessionInv, TakeEdit PROVE SessionInv'
<1>1. TypeOK'
  <2>1. Flags'
    BY Zenon DEF SessionInv, TypeOK, Flags, TakeEdit, BeginEdit, EditRestart
  <2>2. Words'
    BY DEF SessionInv, TypeOK, Words, TakeEdit, BeginEdit, EditRestart, Labels
  <2>3. Files'
    BY DEF SessionInv, TypeOK, Files, TakeEdit, BeginEdit, EditRestart
  <2>4. Others'
    BY DEF SessionInv, TypeOK, Others, TakeEdit, BeginEdit, EditRestart
  <2> QED BY <2>1, <2>2, <2>3, <2>4 DEF TypeOK, Flags, Words, Files, Others
<1>2. RoundInv'
  BY DEF SessionInv, RoundInv, CountdownInv, MarkerInv, ReturnInv, TakeEdit, BeginEdit,
         EditRestart, BeforeRun
<1>3. CountdownInv'
  BY DEF SessionInv, CountdownInv, TakeEdit, BeginEdit, EditRestart, Committed
<1>4. SettingsInv'
  BY DEF SessionInv, SettingsInv, TakeEdit, BeginEdit, EditRestart
<1>5. MarkerInv'
  BY DEF SessionInv, MarkerInv, TakeEdit, BeginEdit, EditRestart, Committed
<1>6. PendingInv'
  BY DEF SessionInv, PendingInv, TakeEdit, BeginEdit, EditRestart
<1>7. ReturnInv'
  BY DEF SessionInv, ReturnInv, TakeEdit, BeginEdit, EditRestart
<1> QED BY <1>1, <1>2, <1>3, <1>4, <1>5, <1>6, <1>7 DEF SessionInv

-----------------------------------------------------------------------------
(* The invariant and what follows from it.                                 *)

LEMMA Init_Inv == Init => SessionInv
<1> SUFFICES ASSUME Init PROVE SessionInv
  OBVIOUS
<1>1. TypeOK
  <2>1. Flags
    BY Zenon DEF Init, Flags
  <2>2. Words
    BY DEF Init, Handoff!Init, Words, Labels, Contents, Statuses
  <2>3. Files /\ Others
    BY SessionAssumption DEF Init, Files, Others
  <2> QED BY <2>1, <2>2, <2>3 DEF TypeOK, Flags, Words, Files, Others
<1>2. RoundInv /\ CountdownInv /\ SettingsInv
  BY DEF Init, Handoff!Init, RoundInv, CountdownInv, SettingsInv
<1>3. MarkerInv /\ PendingInv /\ ReturnInv
  BY DEF Init, MarkerInv, PendingInv, ReturnInv
<1> QED BY <1>1, <1>2, <1>3 DEF SessionInv

LEMMA Stutter_Inv == ASSUME SessionInv, UNCHANGED vars PROVE SessionInv'
BY DEF SessionInv, TypeOK, RoundInv, CountdownInv, SettingsInv, MarkerInv, PendingInv,
       ReturnInv, vars

LEMMA Next_Inv == ASSUME SessionInv, [Next]_vars PROVE SessionInv'
<1>1. CASE Start \/ LoadConfig \/ Dispatch \/ Setup \/ Reload \/ SetupWindow
  BY <1>1, Start_Inv, LoadConfig_Inv, Dispatch_Inv, Setup_Inv, Reload_Inv, SetupWindow_Inv
<1>2. CASE OpenLog \/ PlanBuild \/ Reserve \/ CountdownWait \/ MarkerApply
  BY <1>2, OpenLog_Inv, PlanBuild_Inv, Reserve_Inv, CountdownWait_Inv, MarkerApply_Inv
<1>3. CASE DisconnectBarrier \/ HandoffStep \/ PlanRelease \/ Finish
  BY <1>3, DisconnectBarrier_Inv, HandoffStep_Inv, PlanRelease_Inv, Finish_Inv
<1>4. CASE MarkerRestore \/ Take \/ RomRecoveryOffer \/ Hold \/ TakeEdit
  BY <1>4, MarkerRestore_Inv, Take_Inv, RomRecoveryOffer_Inv, Hold_Inv, TakeEdit_Inv
<1>5. CASE Terminated \/ UNCHANGED vars
  BY <1>5, Stutter_Inv DEF Terminated
<1> QED BY <1>1, <1>2, <1>3, <1>4, <1>5 DEF Next, Step

\* The invariant holds in every state of a session, however often the user
\* goes back to setup and whatever calls fail.
THEOREM SessionInvariant == Spec => []SessionInv
BY Init_Inv, Next_Inv, PTL DEF Spec

\* Every static variable of the dispatcher, the countdown, the marker and the
\* recovery menu has its type.
THEOREM SessionTypeCorrect == Spec => []TypeOK
<1>1. SessionInv => TypeOK
  BY DEF SessionInv
<1> QED BY <1>1, SessionInvariant, PTL

\* Setup, and another boot attempt, begin with nothing held, nothing changed
\* and the marker file as it was: the early returns of NativeCsmVgaBootRun, a
\* failed close and a failed restoration never lead back to UefiMain's loop.
THEOREM SetupSafe == Spec => []SetupIsClean
<1>1. SessionInv => SetupIsClean
  BY DEF SessionInv, RoundInv, MarkerInv, SetupIsClean, BeforeRun
<1> QED BY <1>1, SessionInvariant, PTL

\* After BootCountdownWait has run out there is no way back to setup or to
\* another attempt in this start.
THEOREM NoReturn == Spec => []NoSecondAttempt
<1>1. SessionInv => NoSecondAttempt
  BY DEF SessionInv, CountdownInv, NoSecondAttempt, Committed, BeforeRun
<1> QED BY <1>1, SessionInvariant, PTL

\* NativeCsmVgaBootRun works from what is on disk: what UefiMain gives it was
\* loaded after the last save, and asks for no setup.
THEOREM BootsWhatIsSaved == Spec => []BootsSavedSettings
<1>1. SessionInv => BootsSavedSettings
  BY DEF SessionInv, SettingsInv, BootsSavedSettings
<1> QED BY <1>1, SessionInvariant, PTL

\* MarkerRestore can always put the menu marker back, and when it failed to
\* the session does not end without an error screen.
THEOREM MarkerSafe == Spec => []MarkerRecoverable
<1>1. SessionInv => MarkerRecoverable
  BY DEF SessionInv, MarkerInv, MarkerRecoverable
<1> QED BY <1>1, SessionInvariant, PTL

\* RomRecoveryOffer speaks of an overlap that this attempt found, with nothing
\* changed since.
THEOREM MenuSafe == Spec => []RecoveryMenuIsReal
<1>1. SessionInv => RecoveryMenuIsReal
  BY DEF SessionInv, RoundInv, PendingInv, MarkerInv, RecoveryMenuIsReal
<1> QED BY <1>1, SessionInvariant, PTL

\* UefiMain returns from an attempt without an error screen only if all is
\* released, and the attempt succeeded or the user cancelled it.
THEOREM SilentExitSafe == Spec => []SilentExitIsClean
<1>1. SessionInv => SilentExitIsClean
  BY DEF SessionInv, RoundInv, MarkerInv, ReturnInv, SilentExitIsClean
<1> QED BY <1>1, SessionInvariant, PTL

=============================================================================
