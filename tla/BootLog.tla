------------------------------ MODULE BootLog ------------------------------
(***************************************************************************)
(* The log files: the operations of Log.c, each with every way its file    *)
(* calls can end, and its three users, as far as their next step depends   *)
(* on the log: setup, the boot attempt and the assessment after it.        *)
(*                                                                         *)
(* An operation of the log is the set of the loggers it can leave behind.  *)
(* Errors are first errors and stay; which error it was does not matter.   *)
(***************************************************************************)
EXTENDS Integers

VARIABLES
  pc,    \* where the program is
  log    \* the APP_LOGGER, with what became of its records

vars == <<pc, log>>

Logger ==
  [ open     : BOOLEAN,     \* File # NULL
    serial   : BOOLEAN,     \* Serial # NULL
    console  : BOOLEAN,     \* Console # NULL
    durable  : BOOLEAN,     \* DurableFileFirst
    openErr  : BOOLEAN,     \* FileOpenStatus
    fileErr  : BOOLEAN,     \* FirstFileError
    writeErr : BOOLEAN,     \* FirstWriteError
    ok       : BOOLEAN,     \* the status the last operation returned
    reported : BOOLEAN,     \* LogFailure of BootReport.c
    handles  : Int,         \* handles of the log that the firmware has open
    pending  : BOOLEAN,     \* something is written and not yet flushed
    lost     : BOOLEAN,     \* history: a record is not certain to be in the file
    failed   : BOOLEAN,     \* history: a call for the file has failed
    announced : BOOLEAN,    \* history: a log error was shown since the log was opened
    early    : BOOLEAN ]    \* history: LogPrint showed a record that is not durable

\* ZeroMem, which spares what is not in the APP_LOGGER.
Zeroed(l) ==
  [l EXCEPT !.open = FALSE, !.serial = FALSE, !.console = FALSE, !.durable = FALSE,
            !.openErr = FALSE, !.fileErr = FALSE, !.writeErr = FALSE]

Init ==
  /\ pc \in {"setup", "open"}
  /\ log = [open |-> FALSE, serial |-> FALSE, console |-> FALSE, durable |-> FALSE,
            openErr |-> FALSE, fileErr |-> FALSE, writeErr |-> FALSE, ok |-> TRUE,
            reported |-> FALSE, handles |-> 0, pending |-> FALSE,
            lost |-> FALSE, failed |-> FALSE, announced |-> FALSE, early |-> FALSE]

-----------------------------------------------------------------------------
(* Log.c.                                                                  *)

Opening(l) == [l EXCEPT !.open = TRUE, !.handles = @ + 1]
Closing(l) == [l EXCEPT !.open = FALSE, !.handles = @ - 1]

\* RecordFirstError for the file.
Failing(l, bad) ==
  [l EXCEPT !.fileErr = @ \/ bad, !.writeErr = @ \/ bad, !.failed = @ \/ bad]

\* BootReportLogFailure: only the first error is shown.
BootReportLogFailure(l, bad) ==
  [l EXCEPT !.reported = @ \/ bad, !.announced = @ \/ (bad /\ ~l.reported)]

\* Mutant: it notes the error for the consoles only.
UnformattedQuietly(l) ==
  BootReportLogFailure([l EXCEPT !.writeErr = TRUE, !.ok = FALSE, !.lost = TRUE, !.failed = TRUE],
                       TRUE)

\* A record for which CatVSPrint finds no memory.
Unformatted(l) ==
  BootReportLogFailure([l EXCEPT !.writeErr = TRUE, !.fileErr = @ \/ l.durable \/ l.open,
                                 !.ok = FALSE, !.lost = TRUE, !.failed = TRUE],
                       TRUE)

\* The common end of LogVPrintInternal.
Ended(l, bad) ==
  BootReportLogFailure([l EXCEPT !.ok = ~bad, !.writeErr = @ \/ bad], l.fileErr)

\* UnicodeToUtf8 finds no memory: nothing is written to the file.
Unencoded(l) ==
  Ended([l EXCEPT !.fileErr = @ \/ l.open, !.failed = @ \/ l.open, !.lost = TRUE], TRUE)

\* WriteFileAll and, for a durable record, the flush: what becomes of the
\* record and whether there is an error.  Without a file a durable record is
\* one, any other is not tried.
Stored(l) ==
  {o \in [kept : {"durable", "cached", "lost"}, bad : BOOLEAN] :
     /\ ~l.open => o.kept = "lost" /\ o.bad = l.durable
     /\ l.open => o.bad = (o.kept = "lost") /\ o.kept # (IF l.durable THEN "cached" ELSE "durable")}

\* The record goes to the file, with outcome o, and to the consoles; a durable
\* one is only shown if the file never failed, or if all else is over (best).
Mirrored(l, best, o, mirrorBad) ==
  LET shown == best \/ ~l.durable \/ ~(l.fileErr \/ o.bad)
  IN  Ended([l EXCEPT !.fileErr = @ \/ o.bad, !.failed = @ \/ o.bad,
                      !.pending = CASE o.kept = "durable" -> FALSE
                                    [] o.kept = "cached" -> TRUE
                                    [] OTHER -> @,
                      !.lost = @ \/ o.kept = "lost",
                      !.early = @ \/ (shown /\ l.console /\ l.durable /\ ~best
                                      /\ o.kept # "durable")],
            o.bad \/ (shown /\ mirrorBad /\ (l.console \/ l.serial \/ best)))

Encoded(l, best) ==
  {Mirrored(l, best, o, mirrorBad) : o \in Stored(l), mirrorBad \in BOOLEAN}

\* There is neither a file nor a serial port: the console alone, if any.
Shown(l, best) ==
  { Ended([l EXCEPT !.lost = TRUE, !.early = @ \/ (l.console /\ l.durable /\ ~best)],
          mirrorBad \/ ~(l.console \/ best))
    : mirrorBad \in BOOLEAN }

\* LogVPrintInternal, for LogPrint and LogPrintBestEffort.
LogPrint(l, best) ==
  {Unformatted(l)} \cup
  (IF l.open \/ l.serial THEN {Unencoded(l)} \cup Encoded(l, best) ELSE Shown(l, best))

\* A record that was waiting for a flush that fails may never arrive.
Flushed(l, bad) ==
  [Failing(l, bad) EXCEPT !.pending = FALSE, !.lost = @ \/ (bad /\ l.pending)]

LogFlush(l) ==
  IF l.open THEN {[Flushed(l, bad) EXCEPT !.ok = ~(l.writeErr \/ bad)] : bad \in BOOLEAN}
            ELSE {[l EXCEPT !.ok = ~l.writeErr]}

\* What an operation that needs a file does without one.
NotReady(l) == [l EXCEPT !.fileErr = TRUE, !.ok = FALSE]

LogFileBarrier(l) ==
  IF l.open THEN {[Flushed(l, bad) EXCEPT !.ok = ~(l.fileErr \/ bad)] : bad \in BOOLEAN}
            ELSE {NotReady(l)}

LogBeginDurableFileFirst(l) ==
  IF l.openErr THEN {[l EXCEPT !.ok = FALSE]}
  ELSE {[b EXCEPT !.durable = @ \/ b.ok] : b \in LogFileBarrier(l)}

LogCommitAndClose(l) ==
  IF l.open THEN {[Failing(Closing(b), bad) EXCEPT !.ok = @ /\ ~bad]
                  : b \in LogFileBarrier(l), bad \in BOOLEAN}
            ELSE {NotReady(l)}

\* Mutant: the handle is forgotten if the position cannot be set.
OpenedForgetful(l) ==
  {[Failing(l, TRUE) EXCEPT !.openErr = TRUE, !.ok = FALSE],
   [Failing(Opening(l), TRUE) EXCEPT !.open = FALSE, !.openErr = FALSE, !.ok = FALSE],
   [Opening(l) EXCEPT !.openErr = FALSE]}

\* The file is opened again and its end looked up: one of the two fails, or
\* neither.
Opened(l) ==
  {[Failing(l, TRUE) EXCEPT !.openErr = TRUE, !.ok = FALSE],
   [Failing(Closing(Opening(l)), TRUE) EXCEPT !.openErr = FALSE, !.ok = FALSE],
   [Opening(l) EXCEPT !.openErr = FALSE]}

LogCommitAndReopen(l) ==
  IF l.open THEN UNION {Opened(c) : c \in LogCommitAndClose(l)} ELSE {NotReady(l)}

LogReopenAppend(l) ==
  IF l.open THEN {[l EXCEPT !.ok = FALSE]} ELSE Opened([l EXCEPT !.ok = TRUE])

LogClose(l) ==
  UNION {IF f.open THEN {Zeroed([Closing(f) EXCEPT !.ok = @ /\ ~bad, !.failed = @ \/ bad])
                         : bad \in BOOLEAN}
                   ELSE {Zeroed(f)}
         : f \in LogFlush(l)}

\* A log of its own, of which nothing is known yet.
Fresh(l, s, c) ==
  [Zeroed(l) EXCEPT !.serial = s, !.console = c, !.pending = FALSE,
                    !.lost = FALSE, !.failed = FALSE, !.announced = FALSE, !.early = FALSE]

\* LogInitialize with LogRotateOversized: it opens the file, finds its end,
\* starts a large one afresh and an empty one with a byte order mark.  Whatever
\* fails, no handle is kept; deleting closes the handle too.
NotInitialized(l, s, c) ==
  [Fresh(l, s, c) EXCEPT !.openErr = TRUE, !.failed = TRUE, !.ok = FALSE]

Initialized(l, s, c, mark) ==
  [Opening(Fresh(l, s, c)) EXCEPT !.pending = mark, !.ok = TRUE]

LogInitialize(l) ==
  {NotInitialized(l, s, c) : s \in BOOLEAN, c \in BOOLEAN}
  \cup {Initialized(l, s, c, mark) : s \in BOOLEAN, c \in BOOLEAN, mark \in BOOLEAN}

-----------------------------------------------------------------------------
(* Setup: NativeCsmVgaProbe and BbsProbe.                                  *)

OpenProbeLog ==
  /\ pc = "setup"
  /\ log' \in LogInitialize(log)
  /\ pc' = IF log'.ok THEN "probing" ELSE "unconfirmed"

Probe ==
  /\ pc = "probing"
  /\ log' \in LogPrint(log, FALSE) \cup LogFlush(log)
  /\ pc' = pc

\* GetBbsInfo may change the firmware's table, so the caution must be durable.
BbsCaution ==
  /\ pc = "probing" /\ log.open /\ ~log.openErr
  /\ \E p \in LogPrint(log, FALSE) : \E f \in LogFlush(p) :
       \/ f.ok /\ log' = f /\ pc' = "query"
       \/ ~f.ok /\ log' \in LogPrint(f, FALSE) /\ pc' = "probing"

BbsQuery ==
  /\ pc = "query"
  /\ \E p \in LogPrint(log, FALSE) : \E f \in LogFlush(p) :
       IF f.ok THEN log' = f ELSE log' \in LogPrint(f, FALSE)
  /\ pc' = "probing"

\* BootReady needs a log that was flushed and closed without an error.
ProbeDone ==
  /\ pc = "probing"
  /\ \E f \in LogFlush(log), confirmed \in BOOLEAN :
       /\ log' \in LogClose(f)
       /\ pc' = IF confirmed /\ f.ok /\ log'.ok THEN "confirmed" ELSE "unconfirmed"

-----------------------------------------------------------------------------
(* NativeCsmVgaBootRun.                                                    *)

\* BootReportLogFailure for the status just returned.
Reporting(l) == BootReportLogFailure(l, ~l.ok)

\* Phase.
Phase(l) == {Reporting(c) : c \in UNION {LogCommitAndReopen(p) : p \in LogPrint(l, FALSE)}}

\* Operations in sequence, the second only if the first succeeded.
IfOk(results, Op(_)) == UNION {IF r.ok THEN Op(r) ELSE {r} : r \in results}

\* One step of the program: the log becomes one of the results.
Does(results, good, bad) ==
  /\ log' \in results
  /\ pc' = IF log'.ok THEN good ELSE bad

OpenLog ==
  /\ pc \in {"open", "confirmed"}
  /\ \E l \in LogInitialize(log) :
       /\ log' = Reporting(l)
       /\ pc' = IF l.ok THEN "begin" ELSE "returned"

BeginDurable ==
  /\ pc = "begin"
  /\ \E l \in LogBeginDurableFileFirst(log) :
       \/ l.ok /\ log' = l /\ pc' = "preflight"
       \/ ~l.ok /\ log' \in LogClose(Reporting(l)) /\ pc' = "returned"

\* RuntimePlanBuild, ValidateBootReadiness and the records around them.
Preflight ==
  /\ pc = "preflight"
  /\ log' \in LogPrint(log, FALSE) \cup LogFlush(log) \cup Phase(log)
  /\ pc' \in {"preflight", "failing", "finish"}

PreflightPassed ==
  /\ pc = "preflight"
  /\ Does(UNION {LogFileBarrier(p) : p \in Phase(log)}, "countdown", "failing")

\* BootCountdownWait: from here on records are not shown.
CountdownBegin ==
  /\ pc = "countdown"
  /\ \E l \in IfOk(LogPrint(log, FALSE), LogFileBarrier) :
       \/ l.ok /\ log' = [l EXCEPT !.console = FALSE] /\ pc' = "waiting"
       \/ ~l.ok /\ log' = l /\ pc' = "finish"

CountdownEnd ==
  /\ pc = "waiting"
  /\ \/ Does(IfOk(LogPrint(log, FALSE), LogFileBarrier), "marker", "finish")
     \/ log' \in LogPrint(log, FALSE) /\ pc' = "finish"

\* MarkerApply fails, or the barrier before the display is disconnected.
DisconnectBarrier ==
  /\ pc = "marker"
  /\ \/ log' \in LogPrint(log, FALSE) /\ pc' = "failing"
     \/ Does(UNION {LogFileBarrier(p) : p \in Phase(log)}, "disconnect", "failing")

Disconnect ==
  /\ pc = "disconnect"
  /\ \/ log' \in LogPrint(log, FALSE) /\ pc' = "finish"
     \/ log' \in Phase(log) /\ pc' = "handoff"

\* The routes, the ROM and the boot table; what fails there halts.
Handoff ==
  /\ pc = "handoff"
  /\ log' \in LogPrint(log, FALSE) \cup LogFlush(log) \cup Phase(log) \cup LogCommitAndReopen(log)
  /\ pc' \in {"handoff", "final", "halt"}

FinalCommit ==
  /\ pc = "final"
  /\ Does(UNION {LogCommitAndClose(p) : p \in LogPrint(log, FALSE)}, "boot", "halt")

LegacyBootReturned ==
  /\ pc = "boot"
  /\ log' \in UNION {LogPrint(l, TRUE) : l \in LogReopenAppend(log)}
  /\ pc' = "halt"

BootReportHalt ==
  /\ pc = "halt"
  /\ \E p \in LogPrint(log, TRUE) : \E c \in LogCommitAndClose(p) : log' = Reporting(c)
  /\ pc' = "halted"

PreflightFailure ==
  /\ pc = "failing"
  /\ log' \in LogPrint(log, FALSE)
  /\ pc' = "finish"

\* Mutant: the status of LogClose is thrown away.
BootReportFinishSilent ==
  /\ pc = "finish"
  /\ \E f \in LogFlush(log) : log' \in LogClose(Reporting(f))
  /\ pc' = "returned"

\* BootReportFinishDetailed.
BootReportFinish ==
  /\ pc = "finish"
  /\ \E f \in LogFlush(log) : \E c \in LogClose(Reporting(f)) : log' = Reporting(c)
  /\ pc' = "returned"

-----------------------------------------------------------------------------
(* After an attempt that returned.                                         *)

\* F2: the user edits the settings, after BootReportReset.
TakeEdit ==
  /\ pc = "returned" /\ log.ok
  /\ log' = [log EXCEPT !.reported = FALSE]
  /\ pc' = "setup"

\* ReportAssessment of RomRecovery.c: its log has no other sink.
ReportAssessment ==
  /\ pc = "returned"
  /\ \E l \in LogInitialize(log) :
       LET silent == [l EXCEPT !.console = FALSE, !.serial = FALSE]
       IN  \E p \in IF l.ok THEN LogPrint(silent, FALSE) ELSE {l} :
             /\ log' \in LogClose(p)
             /\ pc' = IF p.ok /\ log'.ok THEN "saved" ELSE "unsaved"

Final == {"returned", "halted", "unconfirmed", "saved", "unsaved"}

\* The program is about to end, or LegacyBoot does not return.
Terminated == pc \in Final \cup {"boot"} /\ UNCHANGED vars

Next ==
  \/ OpenProbeLog \/ Probe \/ BbsCaution \/ BbsQuery \/ ProbeDone \/ TakeEdit \/ ReportAssessment
  \/ OpenLog \/ BeginDurable \/ Preflight \/ PreflightPassed \/ CountdownBegin \/ CountdownEnd
  \/ DisconnectBarrier \/ Disconnect \/ Handoff \/ FinalCommit \/ LegacyBootReturned
  \/ BootReportHalt \/ PreflightFailure \/ BootReportFinish \/ Terminated

Spec == Init /\ [][Next]_vars

-----------------------------------------------------------------------------
(* Properties.                                                             *)

Labels ==
  {"setup", "probing", "query", "confirmed", "open", "begin", "preflight", "countdown", "waiting",
   "marker", "disconnect", "handoff", "final", "boot", "halt", "failing", "finish"} \cup Final

\* The logger has its type, and the firmware never has more than one handle of
\* the log open, nor is one closed twice.
TypeOK ==
  /\ pc \in Labels
  /\ log \in Logger /\ log.handles \in 0 .. 1

\* "The following file barrier must also succeed before the call is made": when
\* the display is disconnected and when LegacyBoot is called, every record of the
\* attempt is in the file, whatever failed on the way and although Phase looks at
\* no status.  The same holds of setup when it asks the firmware for its boot
\* table and when it allows a boot, and of an assessment that is said to be saved.
CommitmentLogged ==
  pc \in {"disconnect", "boot", "query", "confirmed", "saved"} => ~log.lost /\ ~log.pending

\* "Log initialization, write, flush and close failures are reported
\* independently of the failing file logger": an attempt does not end with an
\* incomplete log unless that was announced during the attempt, also when there
\* were attempts and setups before it.
LogErrorShown ==
  pc \in {"returned", "halted"} /\ (log.lost \/ log.failed) => log.announced

\* The firmware has a handle open exactly while the logger knows it, and none
\* when a user of the log is done.
HandlesExact ==
  /\ log.handles = IF log.open THEN 1 ELSE 0
  /\ pc \in Final \cup {"confirmed", "boot"} => log.handles = 0

\* "Normal transaction records still require durable file logging before console
\* mirroring", and the comment in LogVPrintInternal: "do not display a transaction
\* record unless that record is durable".
DisplayedIsDurable == ~log.early

=============================================================================
