---------------------------- MODULE BootLogProofs ---------------------------
(***************************************************************************)
(* The log is complete at every commitment, an incomplete log is announced *)
(* and no handle is leaked, whatever the file calls of an attempt do.      *)
(***************************************************************************)
EXTENDS BootLog, TLAPS

-----------------------------------------------------------------------------
(* The inductive invariant.                                                *)

Attempt ==
  {"begin", "preflight", "countdown", "waiting", "marker", "disconnect", "handoff", "final", "halt",
   "failing", "finish"}

\* While the file is open, a record that may be missing has left a file error,
\* and every file error counts for LogFlush.
Sane(l) ==
  /\ l \in Logger
  /\ l.handles = IF l.open THEN 1 ELSE 0
  /\ l.open /\ l.lost => l.fileErr
  /\ l.open /\ l.fileErr => l.writeErr

\* Every failure of the attempt is reported, or is a file error that will be.
Tracked(l) ==
  /\ l.reported <=> l.announced
  /\ l.lost \/ l.failed => l.fileErr \/ l.reported

\* A file that is closed in the middle of an attempt was closed by an error.
Shut(l) == ~l.open => l.fileErr /\ l.writeErr

Held(l) == Tracked(l) /\ Shut(l)

\* Setup has not reported an error that LogFlush would not return.
Probed(l) == l.open /\ (l.reported => l.writeErr)

Complete(l) == ~l.lost /\ ~l.pending

LogInv ==
  /\ pc \in Labels
  /\ Sane(log)
  /\ pc \in Attempt => Held(log)
  /\ pc = "boot" => Tracked(log) /\ ~log.fileErr
  /\ pc \in {"probing", "query"} => Probed(log)
  /\ pc \in {"setup", "open", "confirmed"} => ~log.reported
  /\ pc \in Final \cup {"setup", "open", "confirmed", "boot"} => ~log.open
  /\ pc \in {"returned", "halted"} =>
       (log.reported <=> log.announced) /\ (log.lost \/ log.failed => log.announced)
  /\ pc \in {"disconnect", "boot", "query", "confirmed", "saved"} => Complete(log)

-----------------------------------------------------------------------------
(* The parts of an operation.                                              *)

\* What BootReportLogFailure leaves alone and what it sets.
Reported(l, bad, r) ==
  /\ r \in Logger
  /\ r.open = l.open /\ r.handles = l.handles /\ r.fileErr = l.fileErr
  /\ r.writeErr = l.writeErr /\ r.ok = l.ok /\ r.pending = l.pending
  /\ r.lost = l.lost /\ r.failed = l.failed
  /\ r.reported <=> l.reported \/ bad
  /\ (l.reported <=> l.announced) => (r.reported <=> r.announced)

LEMMA ReportFacts ==
  \A l \in Logger, bad \in BOOLEAN : Reported(l, bad, BootReportLogFailure(l, bad))
<1> SUFFICES ASSUME NEW l \in Logger, NEW bad \in BOOLEAN
             PROVE  Reported(l, bad, BootReportLogFailure(l, bad))
  OBVIOUS
<1> DEFINE x == l.reported \/ bad
           y == l.announced \/ (bad /\ ~l.reported)
           r == [l EXCEPT !.reported = x, !.announced = y]
<1>1. x \in BOOLEAN /\ y \in BOOLEAN
  BY Zenon
<1>2. BootReportLogFailure(l, bad) = r
  BY DEF BootReportLogFailure
<1>3. /\ r \in Logger
      /\ r.open = l.open /\ r.handles = l.handles /\ r.fileErr = l.fileErr
      /\ r.writeErr = l.writeErr /\ r.ok = l.ok /\ r.pending = l.pending
      /\ r.lost = l.lost /\ r.failed = l.failed
      /\ r.reported = x /\ r.announced = y
  <2> HIDE DEF x, y
  <2> QED BY <1>1 DEF Logger
<1> HIDE DEF r
<1>4. r.reported <=> l.reported \/ bad
  BY <1>3
<1>5. (l.reported <=> l.announced) => (r.reported <=> r.announced)
  BY <1>3
<1> QED BY <1>2, <1>3, <1>4, <1>5 DEF Reported

\* The end of a print: its status, and an error of the file is reported.
Ending(l, bad, r) ==
  /\ r \in Logger
  /\ r.open = l.open /\ r.handles = l.handles /\ r.fileErr = l.fileErr
  /\ r.lost = l.lost /\ r.failed = l.failed
  /\ r.ok <=> ~bad
  /\ r.writeErr <=> l.writeErr \/ bad
  /\ r.reported <=> l.reported \/ l.fileErr
  /\ (l.reported <=> l.announced) => (r.reported <=> r.announced)

LEMMA EndedFacts ==
  \A l \in Logger, bad \in BOOLEAN : Ending(l, bad, Ended(l, bad))
<1> SUFFICES ASSUME NEW l \in Logger, NEW bad \in BOOLEAN
             PROVE  Ending(l, bad, Ended(l, bad))
  OBVIOUS
<1> DEFINE a == ~bad
           b == l.writeErr \/ bad
           k == [l EXCEPT !.ok = a, !.writeErr = b]
           r == Ended(l, bad)
<1>1. a \in BOOLEAN /\ b \in BOOLEAN
  BY Zenon
<1>2. /\ k \in Logger /\ l.fileErr \in BOOLEAN
      /\ k.open = l.open /\ k.handles = l.handles /\ k.fileErr = l.fileErr
      /\ k.lost = l.lost /\ k.failed = l.failed /\ k.ok = a /\ k.writeErr = b
      /\ k.reported = l.reported /\ k.announced = l.announced
  <2> HIDE DEF a, b
  <2> QED BY <1>1 DEF Logger
<1>3. r = BootReportLogFailure(k, l.fileErr)
  BY DEF Ended
<1> HIDE DEF k, r
<1>4. Reported(k, l.fileErr, r)
  BY <1>2, <1>3, ReportFacts, Zenon
<1>5. /\ r \in Logger
      /\ r.open = l.open /\ r.handles = l.handles /\ r.fileErr = l.fileErr
      /\ r.lost = l.lost /\ r.failed = l.failed /\ r.ok = a /\ r.writeErr = b
      /\ r.reported <=> l.reported \/ l.fileErr
      /\ (l.reported <=> l.announced) => (r.reported <=> r.announced)
  <2> HIDE DEF a, b
  <2> QED BY <1>2, <1>4 DEF Reported
<1> QED BY <1>5 DEF Ending, r

-----------------------------------------------------------------------------
(* LogPrint.                                                               *)

\* What a print does to the logger l; r is the logger afterwards.
Printed(l, r) ==
  /\ r \in Logger
  /\ r.open = l.open /\ r.handles = l.handles
  /\ l.fileErr => r.fileErr
  /\ l.writeErr => r.writeErr
  /\ r.fileErr => l.fileErr \/ r.writeErr
  /\ l.open /\ r.lost => l.lost \/ r.fileErr
  /\ l.open /\ r.ok /\ r.lost => l.lost
  /\ l.reported => r.reported
  /\ r.reported => l.reported \/ l.fileErr \/ r.writeErr
  /\ (l.reported <=> l.announced) => (r.reported <=> r.announced)
  /\ r.failed => l.failed \/ r.fileErr \/ r.reported

LEMMA UnformattedFacts ==
  ASSUME NEW l \in Logger, NEW r, r = Unformatted(l)
  PROVE  Printed(l, r)
<1> DEFINE x == l.fileErr \/ l.durable \/ l.open
           k == [l EXCEPT !.writeErr = TRUE, !.fileErr = x, !.ok = FALSE, !.lost = TRUE,
                          !.failed = TRUE]
<1>1. x \in BOOLEAN
  BY Zenon
<1>2. /\ k \in Logger
      /\ k.open = l.open /\ k.handles = l.handles /\ k.fileErr = x /\ k.writeErr /\ ~k.ok
      /\ k.reported = l.reported /\ k.announced = l.announced
  <2> HIDE DEF x
  <2> QED BY <1>1 DEF Logger
<1>3. r = BootReportLogFailure(k, TRUE)
  BY DEF Unformatted
<1>4. k.fileErr <=> l.fileErr \/ l.durable \/ l.open
  BY <1>2
<1> HIDE DEF k
<1>5. /\ r \in Logger
      /\ r.open = l.open /\ r.handles = l.handles
      /\ r.fileErr <=> l.fileErr \/ l.durable \/ l.open
      /\ r.writeErr /\ ~r.ok /\ r.reported
      /\ (l.reported <=> l.announced) => (r.reported <=> r.announced)
  <2> HIDE DEF x
  <2>1. Reported(k, TRUE, r)
    BY <1>2, <1>3, ReportFacts, Zenon
  <2> QED BY <1>2, <1>4, <2>1 DEF Reported
<1> QED BY <1>5 DEF Printed

LEMMA UnencodedFacts ==
  ASSUME NEW l \in Logger, NEW r, r = Unencoded(l)
  PROVE  Printed(l, r)
<1> DEFINE x == l.fileErr \/ l.open
           y == l.failed \/ l.open
           k == [l EXCEPT !.fileErr = x, !.failed = y, !.lost = TRUE]
<1>1. x \in BOOLEAN /\ y \in BOOLEAN
  BY Zenon
<1>2. /\ k \in Logger
      /\ k.open = l.open /\ k.handles = l.handles /\ k.fileErr = x /\ k.failed = y
      /\ k.writeErr = l.writeErr /\ k.reported = l.reported /\ k.announced = l.announced
  <2> HIDE DEF x, y
  <2> QED BY <1>1 DEF Logger
<1>3. r = Ended(k, TRUE)
  BY DEF Unencoded
<1>4. (k.fileErr <=> l.fileErr \/ l.open) /\ (k.failed <=> l.failed \/ l.open)
  BY <1>2
<1> HIDE DEF k
<1>5. /\ r \in Logger
      /\ r.open = l.open /\ r.handles = l.handles
      /\ r.fileErr <=> l.fileErr \/ l.open
      /\ r.failed <=> l.failed \/ l.open
      /\ r.writeErr /\ ~r.ok
      /\ r.reported <=> l.reported \/ l.fileErr \/ l.open
      /\ (l.reported <=> l.announced) => (r.reported <=> r.announced)
  <2> HIDE DEF x, y
  <2>1. Ending(k, TRUE, r)
    BY <1>2, <1>3, EndedFacts, Zenon
  <2> QED BY <1>2, <1>4, <2>1 DEF Ending
<1> QED BY <1>5 DEF Printed

LEMMA ShownFacts ==
  ASSUME NEW l \in Logger, NEW best \in BOOLEAN, ~l.open, NEW r \in Shown(l, best)
  PROVE  Printed(l, r)
<1> DEFINE x == l.early \/ (l.console /\ l.durable /\ ~best)
           k == [l EXCEPT !.lost = TRUE, !.early = x]
<1>1. PICK mirrorBad \in BOOLEAN : r = Ended(k, mirrorBad \/ ~(l.console \/ best))
  BY DEF Shown
<1> DEFINE y == mirrorBad \/ ~(l.console \/ best)
<1>2. x \in BOOLEAN /\ y \in BOOLEAN
  BY Zenon
<1>3. /\ k \in Logger
      /\ k.open = l.open /\ k.handles = l.handles /\ k.fileErr = l.fileErr
      /\ k.writeErr = l.writeErr /\ k.reported = l.reported /\ k.announced = l.announced
      /\ k.failed = l.failed
  <2> HIDE DEF x
  <2> QED BY <1>2 DEF Logger
<1>4. r = Ended(k, y)
  BY <1>1
<1> HIDE DEF k, x, y
<1>5. /\ r \in Logger
      /\ r.open = l.open /\ r.handles = l.handles /\ r.fileErr = l.fileErr
      /\ r.failed = l.failed
      /\ r.writeErr <=> l.writeErr \/ y
      /\ r.reported <=> l.reported \/ l.fileErr
      /\ (l.reported <=> l.announced) => (r.reported <=> r.announced)
  <2>1. Ending(k, y, r)
    BY <1>2, <1>3, <1>4, EndedFacts, Zenon
  <2> QED BY <1>3, <2>1 DEF Ending
<1> QED BY <1>5 DEF Printed

LEMMA EncodedFacts ==
  ASSUME NEW l \in Logger, NEW best \in BOOLEAN, NEW r \in Encoded(l, best)
  PROVE  Printed(l, r)
<1>1. PICK o \in Stored(l), mirrorBad \in BOOLEAN : r = Mirrored(l, best, o, mirrorBad)
  BY DEF Encoded
<1> DEFINE shown == best \/ ~l.durable \/ ~(l.fileErr \/ o.bad)
           f == l.fileErr \/ o.bad
           e == l.failed \/ o.bad
           p == CASE o.kept = "durable" -> FALSE
                  [] o.kept = "cached" -> TRUE
                  [] OTHER -> l.pending
           m == l.lost \/ o.kept = "lost"
           y == l.early \/ (shown /\ l.console /\ l.durable /\ ~best /\ o.kept # "durable")
           k == [l EXCEPT !.fileErr = f, !.failed = e, !.pending = p, !.lost = m, !.early = y]
           b == o.bad \/ (shown /\ mirrorBad /\ (l.console \/ l.serial \/ best))
<1>2. /\ l.open /\ o.kept = "lost" => o.bad
      /\ o.bad \in BOOLEAN
  BY DEF Stored
<1>3. f \in BOOLEAN /\ e \in BOOLEAN /\ m \in BOOLEAN /\ y \in BOOLEAN /\ b \in BOOLEAN
  BY Zenon
<1>4. p \in BOOLEAN
  <2>1. l.pending \in BOOLEAN
    BY DEF Logger
  <2> QED BY <2>1
<1>5. r = Ended(k, b)
  BY <1>1 DEF Mirrored
<1>6. k \in Logger
  <2> HIDE DEF shown, f, e, p, m, y, b
  <2> QED BY <1>3, <1>4 DEF Logger
<1>7. /\ k.open = l.open /\ k.handles = l.handles /\ k.fileErr = f
      /\ k.failed = e /\ k.lost = m /\ k.writeErr = l.writeErr
      /\ k.reported = l.reported /\ k.announced = l.announced
  <2> HIDE DEF shown, f, e, p, m, y, b
  <2> QED BY DEF Logger
<1>8. o.bad => b
  OBVIOUS
<1>9. /\ r \in Logger
      /\ r.open = l.open /\ r.handles = l.handles /\ r.fileErr = f
      /\ r.failed = e /\ r.lost = m
      /\ r.ok <=> ~b
      /\ r.writeErr <=> l.writeErr \/ b
      /\ r.reported <=> l.reported \/ f
      /\ (l.reported <=> l.announced) => (r.reported <=> r.announced)
  <2> HIDE DEF k, shown, f, e, p, m, y, b
  <2>1. Ending(k, b, r)
    BY <1>3, <1>5, <1>6, EndedFacts, Zenon
  <2> QED BY <1>7, <2>1 DEF Ending
<1>10. /\ r.fileErr <=> l.fileErr \/ o.bad
       /\ r.failed <=> l.failed \/ o.bad
       /\ r.lost <=> l.lost \/ o.kept = "lost"
       /\ r.reported <=> l.reported \/ l.fileErr \/ o.bad
  BY <1>9
<1> HIDE DEF k, shown, f, e, p, m, y, b
<1> QED BY <1>2, <1>8, <1>9, <1>10 DEF Printed

LEMMA PrintFacts ==
  ASSUME NEW l \in Logger, NEW best \in BOOLEAN, NEW r \in LogPrint(l, best)
  PROVE  Printed(l, r)
<1>1. CASE r = Unformatted(l)
  BY <1>1, UnformattedFacts
<1>2. CASE r = Unencoded(l)
  BY <1>2, UnencodedFacts
<1>3. CASE r \in Encoded(l, best)
  BY <1>3, EncodedFacts
<1>4. CASE ~l.open /\ r \in Shown(l, best)
  BY <1>4, ShownFacts
<1> QED BY <1>1, <1>2, <1>3, <1>4, Zenon DEF LogPrint

\* A print keeps what is known of the log.
LEMMA PrintKeeps ==
  ASSUME NEW l, Sane(l), NEW best \in BOOLEAN, NEW r \in LogPrint(l, best)
  PROVE  /\ Sane(r) /\ r.open = l.open
         /\ Held(l) => Held(r)
         /\ Probed(l) => Probed(r)
         /\ l.open /\ r.ok /\ r.lost => l.lost
<1>1. l \in Logger
  BY DEF Sane
<1>2. Printed(l, r)
  BY <1>1, PrintFacts
<1>3. Sane(r) /\ r.open = l.open
  BY <1>2 DEF Sane, Printed
<1>4. Held(l) => Held(r)
  BY <1>2 DEF Printed, Held, Tracked, Shut
<1>5. Probed(l) => Probed(r)
  BY <1>2 DEF Printed, Probed, Sane
<1> QED BY <1>2, <1>3, <1>4, <1>5 DEF Printed

-----------------------------------------------------------------------------
(* The other operations.                                                   *)

\* RecordFirstError.
Noted(l, bad, r) ==
  /\ r \in Logger
  /\ r.open = l.open /\ r.handles = l.handles /\ r.ok = l.ok
  /\ r.pending = l.pending /\ r.lost = l.lost
  /\ r.reported = l.reported /\ r.announced = l.announced
  /\ r.fileErr <=> l.fileErr \/ bad
  /\ r.writeErr <=> l.writeErr \/ bad
  /\ r.failed <=> l.failed \/ bad

LEMMA FailingFacts ==
  \A l \in Logger, bad \in BOOLEAN : Noted(l, bad, Failing(l, bad))
<1> SUFFICES ASSUME NEW l \in Logger, NEW bad \in BOOLEAN
             PROVE  Noted(l, bad, Failing(l, bad))
  OBVIOUS
<1> DEFINE x == l.fileErr \/ bad
           y == l.writeErr \/ bad
           z == l.failed \/ bad
           r == [l EXCEPT !.fileErr = x, !.writeErr = y, !.failed = z]
<1>1. x \in BOOLEAN /\ y \in BOOLEAN /\ z \in BOOLEAN
  BY Zenon
<1>2. Failing(l, bad) = r
  BY DEF Failing
<1>3. /\ r \in Logger
      /\ r.open = l.open /\ r.handles = l.handles /\ r.ok = l.ok
      /\ r.pending = l.pending /\ r.lost = l.lost
      /\ r.reported = l.reported /\ r.announced = l.announced
      /\ r.fileErr = x /\ r.writeErr = y /\ r.failed = z
  <2> HIDE DEF x, y, z
  <2>1. r \in Logger
    BY <1>1 DEF Logger
  <2>2. /\ r.open = l.open /\ r.handles = l.handles /\ r.ok = l.ok
        /\ r.pending = l.pending /\ r.lost = l.lost
        /\ r.reported = l.reported /\ r.announced = l.announced
    BY DEF Logger
  <2>3. r.fileErr = x /\ r.writeErr = y /\ r.failed = z
    BY DEF Logger
  <2> QED BY <2>1, <2>2, <2>3
<1> HIDE DEF r
<1>4. /\ r.fileErr <=> l.fileErr \/ bad
      /\ r.writeErr <=> l.writeErr \/ bad
      /\ r.failed <=> l.failed \/ bad
  BY <1>3
<1> QED BY <1>2, <1>3, <1>4 DEF Noted

\* The flush that both LogFlush and LogFileBarrier end with, and its status.
Synced(l, bad, status, r) ==
  /\ r \in Logger
  /\ r.open = l.open /\ r.handles = l.handles /\ r.ok = status /\ ~r.pending
  /\ r.reported = l.reported /\ r.announced = l.announced
  /\ r.lost <=> l.lost \/ (bad /\ l.pending)
  /\ r.fileErr <=> l.fileErr \/ bad
  /\ r.writeErr <=> l.writeErr \/ bad
  /\ r.failed <=> l.failed \/ bad

LEMMA FlushedFacts ==
  \A l \in Logger, bad \in BOOLEAN, status \in BOOLEAN :
    Synced(l, bad, status, [Flushed(l, bad) EXCEPT !.ok = status])
<1> SUFFICES ASSUME NEW l \in Logger, NEW bad \in BOOLEAN, NEW status \in BOOLEAN
             PROVE  Synced(l, bad, status, [Flushed(l, bad) EXCEPT !.ok = status])
  OBVIOUS
<1> DEFINE r == [Flushed(l, bad) EXCEPT !.ok = status]
<1> DEFINE k == Failing(l, bad)
           z == k.lost \/ (bad /\ l.pending)
<1>1. Noted(l, bad, k)
  BY FailingFacts, Zenon
<1>2. z \in BOOLEAN
  BY Zenon
<1>3. r = [k EXCEPT !.pending = FALSE, !.lost = z, !.ok = status]
  <2>1. Flushed(l, bad) = [k EXCEPT !.pending = FALSE, !.lost = z]
    BY DEF Flushed
  <2> HIDE DEF k, z
  <2> QED BY <1>1, <2>1 DEF Noted, Logger
<1> HIDE DEF r
<1>4. /\ r \in Logger
      /\ r.open = l.open /\ r.handles = l.handles /\ r.ok = status /\ ~r.pending
      /\ r.reported = l.reported /\ r.announced = l.announced
      /\ r.lost = z /\ r.fileErr = k.fileErr /\ r.writeErr = k.writeErr /\ r.failed = k.failed
  <2> HIDE DEF k, z
  <2>1. k \in Logger
    BY <1>1 DEF Noted
  <2>2. r \in Logger
    <3>1. [k EXCEPT !.pending = FALSE] \in Logger
      BY <2>1 DEF Logger
    <3>2. [[k EXCEPT !.pending = FALSE] EXCEPT !.lost = z] \in Logger
      BY <1>2, <3>1 DEF Logger
    <3>3. r = [[[k EXCEPT !.pending = FALSE] EXCEPT !.lost = z] EXCEPT !.ok = status]
      BY <1>3, <2>1 DEF Logger
    <3> QED BY <3>2, <3>3 DEF Logger
  <2>3. /\ r.open = k.open /\ r.handles = k.handles /\ r.ok = status /\ ~r.pending
        /\ r.reported = k.reported /\ r.announced = k.announced
        /\ r.lost = z /\ r.fileErr = k.fileErr /\ r.writeErr = k.writeErr /\ r.failed = k.failed
    BY <1>3, <2>1 DEF Logger
  <2> QED BY <1>1, <2>2, <2>3 DEF Noted
<1>5. k.lost = l.lost
  <2> HIDE DEF k
  <2> QED BY <1>1 DEF Noted
<1>6. r.lost <=> l.lost \/ (bad /\ l.pending)
  <2> HIDE DEF k
  <2> QED BY <1>4, <1>5
<1> HIDE DEF k, z, r
<1>7. Synced(l, bad, status, r)
  BY <1>1, <1>4, <1>6 DEF Noted, Synced
<1> QED BY <1>7 DEF r

LEMMA FlushFacts ==
  ASSUME NEW l, Sane(l), NEW r \in LogFlush(l)
  PROVE  /\ Sane(r) /\ r.open = l.open
         /\ r.reported = l.reported /\ r.announced = l.announced
         /\ Held(l) => Held(r)
         /\ Probed(l) => Probed(r)
         /\ r.ok => ~l.writeErr /\ ~r.writeErr
         /\ r.ok /\ (r.lost \/ r.failed) => l.lost \/ l.failed
         /\ r.ok /\ l.open => Complete(r)
<1>1. l \in Logger
  BY DEF Sane
<1>2. CASE l.open
  <2>1. PICK bad \in BOOLEAN : r = [Flushed(l, bad) EXCEPT !.ok = ~(l.writeErr \/ bad)]
    BY <1>2 DEF LogFlush
  <2> DEFINE s == ~(l.writeErr \/ bad)
  <2>2. s \in BOOLEAN
    BY Zenon
  <2>3. s <=> ~l.writeErr /\ ~bad
    OBVIOUS
  <2>4. Synced(l, bad, s, r)
    <3>1. r = [Flushed(l, bad) EXCEPT !.ok = s]
      BY <2>1
    <3> HIDE DEF s
    <3> QED BY <1>1, <2>2, <3>1, FlushedFacts, Zenon
  <2> HIDE DEF s
  <2>5. Sane(r)
    BY <1>2, <2>4 DEF Sane, Synced
  <2>6. Held(l) => Held(r)
    BY <1>2, <2>4 DEF Held, Tracked, Shut, Synced
  <2>7. Probed(l) => Probed(r)
    BY <2>4 DEF Probed, Synced
  <2>8. r.ok => Complete(r)
    BY <1>2, <2>3, <2>4 DEF Complete, Sane, Synced
  <2> QED BY <2>3, <2>4, <2>5, <2>6, <2>7, <2>8 DEF Synced
<1>3. CASE ~l.open
  <2> DEFINE s == ~l.writeErr
  <2>1. s \in BOOLEAN
    BY Zenon
  <2>2. r = [l EXCEPT !.ok = s]
    BY <1>3 DEF LogFlush
  <2>3. s <=> ~l.writeErr
    OBVIOUS
  <2> HIDE DEF s
  <2>4. /\ r \in Logger
        /\ r.open = l.open /\ r.handles = l.handles /\ r.ok = s
        /\ r.reported = l.reported /\ r.announced = l.announced
        /\ r.lost = l.lost /\ r.failed = l.failed
        /\ r.fileErr = l.fileErr /\ r.writeErr = l.writeErr
    BY <1>1, <2>1, <2>2 DEF Logger
  <2>5. Sane(r)
    BY <1>3, <2>4 DEF Sane
  <2>6. Held(l) => Held(r)
    BY <2>4 DEF Held, Tracked, Shut
  <2>7. Probed(l) => Probed(r)
    BY <2>4 DEF Probed
  <2> QED BY <1>3, <2>3, <2>4, <2>5, <2>6, <2>7
<1> QED BY <1>2, <1>3

\* What an operation that needs a file does without one.
LEMMA NotReadyFacts ==
  ASSUME NEW l, Sane(l), ~l.open
  PROVE  /\ Sane(NotReady(l)) /\ ~NotReady(l).open /\ ~NotReady(l).ok
         /\ Held(l) => Held(NotReady(l))
<1> DEFINE r == NotReady(l)
<1>1. /\ r \in Logger
      /\ r.open = l.open /\ r.handles = l.handles /\ ~r.ok
      /\ r.reported = l.reported /\ r.announced = l.announced
      /\ r.lost = l.lost /\ r.failed = l.failed
      /\ r.fileErr /\ r.writeErr = l.writeErr
  BY DEF Sane, NotReady, Logger
<1> HIDE DEF r
<1>2. Sane(r)
  BY <1>1 DEF Sane
<1>3. Held(l) => Held(r)
  BY <1>1 DEF Held, Tracked, Shut
<1> QED BY <1>1, <1>2, <1>3 DEF r

LEMMA BarrierFacts ==
  ASSUME NEW l, Sane(l), NEW r \in LogFileBarrier(l)
  PROVE  /\ Sane(r) /\ r.open = l.open
         /\ Held(l) => Held(r)
         /\ r.ok => r.open /\ Complete(r) /\ ~r.fileErr
         /\ ~r.ok /\ r.open => r.fileErr /\ r.writeErr
<1>1. l \in Logger
  BY DEF Sane
<1>2. CASE l.open
  <2>1. PICK bad \in BOOLEAN : r = [Flushed(l, bad) EXCEPT !.ok = ~(l.fileErr \/ bad)]
    BY <1>2 DEF LogFileBarrier
  <2> DEFINE s == ~(l.fileErr \/ bad)
  <2>2. s \in BOOLEAN
    BY Zenon
  <2>3. s <=> ~l.fileErr /\ ~bad
    OBVIOUS
  <2>4. Synced(l, bad, s, r)
    <3>1. r = [Flushed(l, bad) EXCEPT !.ok = s]
      BY <2>1
    <3> HIDE DEF s
    <3> QED BY <1>1, <2>2, <3>1, FlushedFacts, Zenon
  <2> HIDE DEF s
  <2>5. Sane(r)
    BY <1>2, <2>4 DEF Sane, Synced
  <2>6. Held(l) => Held(r)
    BY <1>2, <2>4 DEF Held, Tracked, Shut, Synced
  <2>7. r.ok => r.open /\ Complete(r) /\ ~r.fileErr
    BY <1>2, <2>3, <2>4 DEF Complete, Sane, Synced
  <2>8. ~r.ok => r.fileErr
    BY <2>3, <2>4 DEF Synced
  <2>9. ~r.ok /\ r.open => r.fileErr /\ r.writeErr
    BY <2>5, <2>8 DEF Sane
  <2> QED BY <2>4, <2>5, <2>6, <2>7, <2>9 DEF Synced
<1>3. CASE ~l.open
  <2>1. r = NotReady(l)
    BY <1>3 DEF LogFileBarrier
  <2>2. Sane(r) /\ ~r.open /\ ~r.ok /\ (Held(l) => Held(r))
    BY <1>3, <2>1, NotReadyFacts
  <2>3. r.open = l.open
    BY <2>1 DEF NotReady
  <2> QED BY <2>2, <2>3
<1> QED BY <1>2, <1>3

LEMMA BeginFacts ==
  ASSUME NEW l, Sane(l), Held(l), NEW r \in LogBeginDurableFileFirst(l)
  PROVE  Sane(r) /\ Held(r)
<1>1. CASE l.openErr
  <2>1. r = [l EXCEPT !.ok = FALSE]
    BY <1>1 DEF LogBeginDurableFileFirst
  <2>2. /\ r \in Logger
        /\ r.open = l.open /\ r.handles = l.handles
        /\ r.reported = l.reported /\ r.announced = l.announced
        /\ r.lost = l.lost /\ r.failed = l.failed
        /\ r.fileErr = l.fileErr /\ r.writeErr = l.writeErr
    BY <2>1 DEF Sane, Logger
  <2>3. Sane(r)
    BY <2>2 DEF Sane
  <2>4. Held(r)
    BY <2>2 DEF Held, Tracked, Shut
  <2> QED BY <2>3, <2>4
<1>2. CASE ~l.openErr
  <2>1. PICK b \in LogFileBarrier(l) : r = [b EXCEPT !.durable = b.durable \/ b.ok]
    BY <1>2 DEF LogBeginDurableFileFirst
  <2> DEFINE d == b.durable \/ b.ok
  <2>2. d \in BOOLEAN
    BY Zenon
  <2>3. r = [b EXCEPT !.durable = d]
    BY <2>1
  <2> HIDE DEF d
  <2>4. Sane(b) /\ Held(b)
    BY BarrierFacts
  <2>5. /\ r \in Logger
        /\ r.open = b.open /\ r.handles = b.handles
        /\ r.reported = b.reported /\ r.announced = b.announced
        /\ r.lost = b.lost /\ r.failed = b.failed
        /\ r.fileErr = b.fileErr /\ r.writeErr = b.writeErr
    BY <2>2, <2>3, <2>4 DEF Sane, Logger
  <2>6. Sane(r)
    BY <2>4, <2>5 DEF Sane
  <2>7. Held(r)
    BY <2>4, <2>5 DEF Held, Tracked, Shut
  <2> QED BY <2>6, <2>7
<1> QED BY <1>1, <1>2

\* The handle of the log.
Gone(l, r) ==
  /\ r \in Logger
  /\ ~r.open /\ r.handles = l.handles - 1
  /\ r.ok = l.ok /\ r.pending = l.pending
  /\ r.lost = l.lost /\ r.failed = l.failed
  /\ r.fileErr = l.fileErr /\ r.writeErr = l.writeErr
  /\ r.reported = l.reported /\ r.announced = l.announced

LEMMA ClosingFacts == \A l \in Logger : Gone(l, Closing(l))
<1> SUFFICES ASSUME NEW l \in Logger PROVE Gone(l, Closing(l))
  OBVIOUS
<1>1. Closing(l) \in Logger
  <2>1. l.handles - 1 \in Int
    BY DEF Logger
  <2> QED BY <2>1 DEF Closing, Logger
<1> QED BY <1>1 DEF Gone, Closing, Logger

Got(l, r) ==
  /\ r \in Logger
  /\ r.open /\ r.handles = l.handles + 1
  /\ r.ok = l.ok /\ r.pending = l.pending
  /\ r.lost = l.lost /\ r.failed = l.failed
  /\ r.fileErr = l.fileErr /\ r.writeErr = l.writeErr
  /\ r.reported = l.reported /\ r.announced = l.announced

LEMMA OpeningFacts == \A l \in Logger : Got(l, Opening(l))
<1> SUFFICES ASSUME NEW l \in Logger PROVE Got(l, Opening(l))
  OBVIOUS
<1>1. Opening(l) \in Logger
  <2>1. l.handles + 1 \in Int
    BY DEF Logger
  <2> QED BY <2>1 DEF Opening, Logger
<1> QED BY <1>1 DEF Got, Opening, Logger

\* A log that may be opened again.
Sound(l) == (l.lost => l.fileErr) /\ (l.fileErr => l.writeErr)

\* A close that is not the last: an error of it is one of the file.
LEMMA CommitFacts ==
  ASSUME NEW l, Sane(l), NEW r \in LogCommitAndClose(l)
  PROVE  /\ Sane(r) /\ ~r.open
         /\ Held(l) => Tracked(r)
         /\ r.ok => Complete(r) /\ ~r.fileErr
         /\ Held(l) /\ ~r.ok => Held(r)
         /\ l.open => Sound(r)
<1>1. CASE l.open
  <2>1. PICK b \in LogFileBarrier(l), bad \in BOOLEAN :
          r = [Failing(Closing(b), bad) EXCEPT !.ok = @ /\ ~bad]
    BY <1>1 DEF LogCommitAndClose
  <2>2. /\ Sane(b) /\ b.open = l.open
        /\ Held(l) => Held(b)
        /\ b.ok => b.open /\ Complete(b) /\ ~b.fileErr
        /\ ~b.ok /\ b.open => b.fileErr /\ b.writeErr
    BY BarrierFacts
  <2> DEFINE c == Closing(b)
             k == Failing(c, bad)
             s == k.ok /\ ~bad
  <2>3. Gone(b, c)
    BY <2>2, ClosingFacts, Zenon DEF Sane
  <2>4. Noted(c, bad, k)
    <3>1. c \in Logger
      BY <2>3, Zenon DEF Gone
    <3> QED BY <3>1, FailingFacts, Zenon
  <2>5. s \in BOOLEAN
    BY Zenon
  <2>6. r = [k EXCEPT !.ok = s]
    BY <2>1
  <2>7. s <=> k.ok /\ ~bad
    OBVIOUS
  <2> HIDE DEF c, k, s
  <2>8. /\ r \in Logger
        /\ r.open = k.open /\ r.handles = k.handles /\ r.ok = s
        /\ r.pending = k.pending /\ r.lost = k.lost /\ r.failed = k.failed
        /\ r.fileErr = k.fileErr /\ r.writeErr = k.writeErr
        /\ r.reported = k.reported /\ r.announced = k.announced
    BY <2>4, <2>5, <2>6 DEF Noted, Logger
  <2>9. /\ ~r.open /\ r.handles = b.handles - 1
        /\ r.pending = b.pending /\ r.lost = b.lost
        /\ r.reported = b.reported /\ r.announced = b.announced
        /\ r.fileErr <=> b.fileErr \/ bad
        /\ r.writeErr <=> b.writeErr \/ bad
        /\ r.failed <=> b.failed \/ bad
        /\ r.ok <=> b.ok /\ ~bad
    BY <2>3, <2>4, <2>7, <2>8 DEF Noted, Gone
  <2>10. Sane(r)
    BY <1>1, <2>2, <2>8, <2>9 DEF Sane
  <2>11. Held(l) => Tracked(r)
    BY <2>2, <2>9 DEF Held, Tracked
  <2>12. r.ok => Complete(r) /\ ~r.fileErr
    BY <2>2, <2>9 DEF Complete
  <2>13. ~r.ok => Shut(r)
    BY <1>1, <2>2, <2>9 DEF Shut
  <2>14. Sound(r)
    BY <1>1, <2>2, <2>9 DEF Sound, Sane
  <2> QED BY <2>9, <2>10, <2>11, <2>12, <2>13, <2>14 DEF Held
<1>2. CASE ~l.open
  <2>1. r = NotReady(l)
    BY <1>2 DEF LogCommitAndClose
  <2>2. Sane(r) /\ ~r.open /\ ~r.ok /\ (Held(l) => Held(r))
    BY <1>2, <2>1, NotReadyFacts
  <2> QED BY <1>2, <2>2 DEF Held
<1> QED BY <1>1, <1>2

LEMMA OpenedFacts ==
  ASSUME NEW l, Sane(l), ~l.open, Tracked(l), Sound(l), NEW r \in Opened(l)
  PROVE  Sane(r) /\ Held(r)
<1>1. l \in Logger /\ l.handles = 0
  BY DEF Sane
<1> DEFINE o == Opening(l)
           c == Closing(o)
           f == Failing(l, TRUE)
           g == Failing(c, TRUE)
<1>2. Got(l, o)
  BY <1>1, OpeningFacts, Zenon
<1>3. Gone(o, c)
  BY <1>2, ClosingFacts, Zenon DEF Got
<1>4. Noted(l, TRUE, f)
  BY <1>1, FailingFacts, Zenon
<1>5. Noted(c, TRUE, g)
  BY <1>3, FailingFacts, Zenon DEF Gone
<1>6. CASE r = [f EXCEPT !.openErr = TRUE, !.ok = FALSE]
  <2> HIDE DEF o, c, f, g
  <2>1. /\ r \in Logger
        /\ r.open = f.open /\ r.handles = f.handles
        /\ r.lost = f.lost /\ r.failed = f.failed
        /\ r.fileErr = f.fileErr /\ r.writeErr = f.writeErr
        /\ r.reported = f.reported /\ r.announced = f.announced
    BY <1>4, <1>6 DEF Noted, Logger
  <2>2. Sane(r)
    BY <1>1, <1>4, <2>1 DEF Noted, Sane
  <2>3. Held(r)
    BY <1>1, <1>4, <2>1 DEF Noted, Held, Tracked, Shut
  <2> QED BY <2>2, <2>3
<1>7. CASE r = [g EXCEPT !.openErr = FALSE, !.ok = FALSE]
  <2> HIDE DEF o, c, f, g
  <2>1. /\ r \in Logger
        /\ r.open = g.open /\ r.handles = g.handles
        /\ r.lost = g.lost /\ r.failed = g.failed
        /\ r.fileErr = g.fileErr /\ r.writeErr = g.writeErr
        /\ r.reported = g.reported /\ r.announced = g.announced
    BY <1>5, <1>7 DEF Noted, Logger
  <2>2. /\ ~r.open /\ r.handles = 0 /\ r.fileErr /\ r.writeErr
        /\ r.reported = l.reported /\ r.announced = l.announced
    BY <1>1, <1>2, <1>3, <1>5, <2>1 DEF Noted, Got, Gone, Logger
  <2>3. Sane(r)
    BY <2>1, <2>2 DEF Sane
  <2>4. Held(r)
    BY <2>2 DEF Held, Tracked, Shut
  <2> QED BY <2>3, <2>4
<1>8. CASE r = [o EXCEPT !.openErr = FALSE]
  <2> HIDE DEF o, c, f, g
  <2>1. /\ r \in Logger
        /\ r.open = o.open /\ r.handles = o.handles
        /\ r.lost = o.lost /\ r.failed = o.failed
        /\ r.fileErr = o.fileErr /\ r.writeErr = o.writeErr
        /\ r.reported = o.reported /\ r.announced = o.announced
    BY <1>2, <1>8 DEF Got, Logger
  <2>2. Sane(r)
    BY <1>1, <1>2, <2>1 DEF Got, Sane, Sound
  <2>3. Held(r)
    BY <1>1, <1>2, <2>1 DEF Got, Held, Tracked, Shut
  <2> QED BY <2>2, <2>3
<1> QED BY <1>6, <1>7, <1>8 DEF Opened

LEMMA CommitAndReopenFacts ==
  ASSUME NEW l, Sane(l), Held(l), NEW r \in LogCommitAndReopen(l)
  PROVE  Sane(r) /\ Held(r)
<1>1. CASE l.open
  <2>1. PICK c \in LogCommitAndClose(l) : r \in Opened(c)
    BY <1>1 DEF LogCommitAndReopen
  <2>2. Sane(c) /\ ~c.open /\ Tracked(c) /\ Sound(c)
    BY <1>1, CommitFacts
  <2> QED BY <2>1, <2>2, OpenedFacts
<1>2. CASE ~l.open
  BY <1>2, NotReadyFacts DEF LogCommitAndReopen
<1> QED BY <1>1, <1>2

LEMMA ReopenFacts ==
  ASSUME NEW l, Sane(l), ~l.open, Tracked(l), Complete(l), ~l.fileErr,
         NEW r \in LogReopenAppend(l)
  PROVE  Sane(r) /\ Held(r)
<1> DEFINE k == [l EXCEPT !.ok = TRUE]
<1>1. r \in Opened(k)
  BY DEF LogReopenAppend
<1>2. /\ k \in Logger
      /\ k.open = l.open /\ k.handles = l.handles /\ k.lost = l.lost /\ k.failed = l.failed
      /\ k.fileErr = l.fileErr /\ k.writeErr = l.writeErr
      /\ k.reported = l.reported /\ k.announced = l.announced
  BY DEF Sane, Logger
<1> HIDE DEF k
<1>3. Sane(k) /\ ~k.open /\ Tracked(k) /\ Sound(k)
  BY <1>2 DEF Sane, Tracked, Sound, Complete
<1> QED BY <1>1, <1>3, OpenedFacts

\* What the final clearing of the logger leaves.
Cleared(l, r) ==
  /\ r \in Logger
  /\ ~r.open /\ ~r.fileErr /\ ~r.writeErr
  /\ r.handles = l.handles /\ r.ok = l.ok /\ r.failed = l.failed
  /\ r.lost = l.lost /\ r.pending = l.pending
  /\ r.reported = l.reported /\ r.announced = l.announced

LEMMA ZeroedFacts == \A l \in Logger : Cleared(l, Zeroed(l))
<1> SUFFICES ASSUME NEW l \in Logger PROVE Cleared(l, Zeroed(l))
  OBVIOUS
<1> DEFINE k == [l EXCEPT !.open = FALSE, !.serial = FALSE, !.console = FALSE]
           r == [k EXCEPT !.durable = FALSE, !.openErr = FALSE, !.fileErr = FALSE,
                          !.writeErr = FALSE]
<1>1. Zeroed(l) = r
  BY DEF Zeroed, Logger
<1>2. k \in Logger
  BY DEF Logger
<1>3. /\ ~k.open /\ k.handles = l.handles /\ k.ok = l.ok /\ k.failed = l.failed
      /\ k.lost = l.lost /\ k.pending = l.pending
      /\ k.reported = l.reported /\ k.announced = l.announced
  BY DEF Logger
<1> HIDE DEF k
<1>4. r \in Logger
  BY <1>2 DEF Logger
<1>5. /\ r.open = k.open /\ ~r.fileErr /\ ~r.writeErr
      /\ r.handles = k.handles /\ r.ok = k.ok /\ r.failed = k.failed
      /\ r.lost = k.lost /\ r.pending = k.pending
      /\ r.reported = k.reported /\ r.announced = k.announced
  BY <1>2 DEF Logger
<1> HIDE DEF r
<1> QED BY <1>1, <1>3, <1>4, <1>5 DEF Cleared

\* The last close of a logger: the handle is gone even if it failed.
LEMMA CloseFacts ==
  ASSUME NEW l, Sane(l), NEW r \in LogClose(l)
  PROVE  /\ Sane(r) /\ ~r.open
         /\ r.reported = l.reported /\ r.announced = l.announced
         /\ r.ok => ~l.writeErr
         /\ r.ok /\ (r.lost \/ r.failed) => l.lost \/ l.failed
         /\ r.ok /\ l.open => Complete(r)
<1>1. PICK f \in LogFlush(l) :
        IF f.open
          THEN \E bad \in BOOLEAN :
                 r = Zeroed([Closing(f) EXCEPT !.ok = @ /\ ~bad, !.failed = @ \/ bad])
          ELSE r = Zeroed(f)
  BY DEF LogClose
<1>2. /\ Sane(f) /\ f.open = l.open
      /\ f.reported = l.reported /\ f.announced = l.announced
      /\ f.ok => ~l.writeErr /\ ~f.writeErr
      /\ f.ok /\ (f.lost \/ f.failed) => l.lost \/ l.failed
      /\ f.ok /\ l.open => Complete(f)
  BY FlushFacts
<1>3. CASE f.open
  <2>1. PICK bad \in BOOLEAN :
          r = Zeroed([Closing(f) EXCEPT !.ok = @ /\ ~bad, !.failed = @ \/ bad])
    BY <1>1, <1>3
  <2> DEFINE c == Closing(f)
             s == c.ok /\ ~bad
             e == c.failed \/ bad
             k == [c EXCEPT !.ok = s, !.failed = e]
  <2>2. Gone(f, c)
    BY <1>2, ClosingFacts, Zenon DEF Sane
  <2>3. s \in BOOLEAN /\ e \in BOOLEAN
    BY Zenon
  <2>4. (s <=> c.ok /\ ~bad) /\ (e <=> c.failed \/ bad)
    OBVIOUS
  <2>5. r = Zeroed(k)
    BY <2>1
  <2> HIDE DEF c, s, e
  <2>6. /\ k \in Logger
        /\ k.handles = c.handles /\ k.ok = s /\ k.failed = e
        /\ k.lost = c.lost /\ k.pending = c.pending
        /\ k.reported = c.reported /\ k.announced = c.announced
    BY <2>2, <2>3 DEF Gone, Logger
  <2> HIDE DEF k
  <2>7. /\ r \in Logger
        /\ ~r.open /\ r.handles = k.handles /\ r.ok = k.ok /\ r.failed = k.failed
        /\ r.lost = k.lost /\ r.pending = k.pending
        /\ r.reported = k.reported /\ r.announced = k.announced
    <3>1. Cleared(k, Zeroed(k))
      BY <2>6, ZeroedFacts, Zenon
    <3> QED BY <2>5, <3>1 DEF Cleared
  <2>8. /\ r.handles = f.handles - 1
        /\ r.ok <=> f.ok /\ ~bad
        /\ r.failed <=> f.failed \/ bad
        /\ r.lost = f.lost /\ r.pending = f.pending
        /\ r.reported = f.reported /\ r.announced = f.announced
    BY <2>2, <2>4, <2>6, <2>7 DEF Gone
  <2>9. Sane(r)
    BY <1>2, <1>3, <2>7, <2>8 DEF Sane
  <2> QED BY <1>2, <2>7, <2>8, <2>9 DEF Complete
<1>4. CASE ~f.open
  <2>1. r = Zeroed(f)
    BY <1>1, <1>4
  <2>2. /\ r \in Logger
        /\ ~r.open /\ r.handles = f.handles /\ r.ok = f.ok /\ r.failed = f.failed
        /\ r.lost = f.lost /\ r.pending = f.pending
        /\ r.reported = f.reported /\ r.announced = f.announced
    <3>1. Cleared(f, Zeroed(f))
      BY <1>2, ZeroedFacts, Zenon DEF Sane
    <3> QED BY <2>1, <3>1 DEF Cleared
  <2>3. Sane(r)
    BY <1>2, <1>4, <2>2 DEF Sane
  <2> QED BY <1>2, <1>4, <2>2, <2>3
<1> QED BY <1>3, <1>4

Anew(l, r) ==
  /\ r \in Logger
  /\ ~r.open /\ r.handles = l.handles
  /\ ~r.fileErr /\ ~r.writeErr /\ ~r.pending /\ ~r.lost /\ ~r.failed /\ ~r.announced
  /\ r.reported = l.reported

LEMMA FreshFacts == \A l \in Logger, s, c \in BOOLEAN : Anew(l, Fresh(l, s, c))
<1> SUFFICES ASSUME NEW l \in Logger, NEW s \in BOOLEAN, NEW c \in BOOLEAN
             PROVE  Anew(l, Fresh(l, s, c))
  OBVIOUS
<1> DEFINE k == Zeroed(l)
<1>1. /\ k \in Logger
      /\ ~k.open /\ k.handles = l.handles /\ ~k.fileErr /\ ~k.writeErr
      /\ k.reported = l.reported
  <2>1. Cleared(l, Zeroed(l))
    BY ZeroedFacts, Zenon
  <2> QED BY <2>1 DEF Cleared
<1>2. Fresh(l, s, c) =
        [k EXCEPT !.serial = s, !.console = c, !.pending = FALSE,
                  !.lost = FALSE, !.failed = FALSE, !.announced = FALSE, !.early = FALSE]
  BY DEF Fresh
<1> HIDE DEF k
<1> DEFINE m == [k EXCEPT !.serial = s, !.console = c]
<1>3. /\ m \in Logger
      /\ ~m.open /\ m.handles = l.handles /\ ~m.fileErr /\ ~m.writeErr
      /\ m.reported = l.reported
  BY <1>1 DEF Logger
<1>4. Fresh(l, s, c) =
        [m EXCEPT !.pending = FALSE, !.lost = FALSE, !.failed = FALSE, !.announced = FALSE,
                  !.early = FALSE]
  BY <1>1, <1>2 DEF Logger
<1> HIDE DEF m
<1> DEFINE o == [m EXCEPT !.pending = FALSE, !.lost = FALSE, !.failed = FALSE]
<1>5. o \in Logger
  BY <1>3 DEF Logger
<1>6. /\ ~o.open /\ o.handles = l.handles /\ ~o.fileErr /\ ~o.writeErr
      /\ o.reported = l.reported /\ ~o.pending /\ ~o.lost /\ ~o.failed
  BY <1>3 DEF Logger
<1>7. Fresh(l, s, c) = [o EXCEPT !.announced = FALSE, !.early = FALSE]
  BY <1>3, <1>4 DEF Logger
<1> HIDE DEF o
<1> QED BY <1>5, <1>6, <1>7 DEF Anew, Logger

LEMMA InitializeFacts ==
  ASSUME NEW l, Sane(l), ~l.open, NEW r \in LogInitialize(l)
  PROVE  /\ Sane(r) /\ ~r.announced /\ r.reported = l.reported
         /\ r.ok <=> r.open
         /\ r.ok => ~r.lost /\ ~r.failed /\ ~r.fileErr /\ ~r.writeErr
<1>1. l \in Logger /\ l.handles = 0
  BY DEF Sane
<1>2. ASSUME NEW s \in BOOLEAN, NEW c \in BOOLEAN,
             r = NotInitialized(l, s, c)
      PROVE  Sane(r) /\ ~r.announced /\ r.reported = l.reported /\ ~r.ok /\ ~r.open
  <2> DEFINE k == Fresh(l, s, c)
  <2>1. Anew(l, k)
    BY <1>1, FreshFacts, Zenon
  <2>2. r = [k EXCEPT !.openErr = TRUE, !.failed = TRUE, !.ok = FALSE]
    BY <1>2 DEF NotInitialized
  <2> HIDE DEF k
  <2>3. /\ r \in Logger
        /\ r.open = k.open /\ r.handles = k.handles /\ ~r.ok
        /\ r.announced = k.announced /\ r.reported = k.reported
    BY <2>1, <2>2 DEF Anew, Logger
  <2> QED BY <1>1, <2>1, <2>3 DEF Anew, Sane
<1>3. ASSUME NEW s \in BOOLEAN, NEW c \in BOOLEAN, NEW mark \in BOOLEAN,
             r = Initialized(l, s, c, mark)
      PROVE  /\ Sane(r) /\ ~r.announced /\ r.reported = l.reported /\ r.ok /\ r.open
             /\ ~r.lost /\ ~r.failed /\ ~r.fileErr /\ ~r.writeErr
  <2> DEFINE k == Fresh(l, s, c)
             o == Opening(k)
  <2>1. Anew(l, k)
    BY <1>1, FreshFacts, Zenon
  <2>2. Got(k, o)
    <3>1. k \in Logger
      BY <2>1, Zenon DEF Anew
    <3> QED BY <3>1, OpeningFacts, Zenon
  <2>3. r = [o EXCEPT !.pending = mark, !.ok = TRUE]
    BY <1>3 DEF Initialized
  <2> HIDE DEF k, o
  <2>4. /\ r \in Logger
        /\ r.open = o.open /\ r.handles = o.handles /\ r.ok
        /\ r.lost = o.lost /\ r.failed = o.failed
        /\ r.fileErr = o.fileErr /\ r.writeErr = o.writeErr
        /\ r.announced = o.announced /\ r.reported = o.reported
    BY <2>2, <2>3 DEF Got, Logger
  <2> QED BY <1>1, <2>1, <2>2, <2>4 DEF Anew, Got, Sane
<1> QED BY <1>2, <1>3 DEF LogInitialize

LEMMA ReportingFacts ==
  ASSUME NEW l, Sane(l)
  PROVE  /\ Sane(Reporting(l)) /\ Reporting(l).open = l.open
         /\ Held(l) => Held(Reporting(l))
         /\ Reported(l, ~l.ok, Reporting(l))
<1> DEFINE s == ~l.ok
           r == Reporting(l)
<1>1. l \in Logger
  BY DEF Sane
<1>2. s \in BOOLEAN
  BY Zenon
<1>3. Reported(l, s, r)
  <2>1. r = BootReportLogFailure(l, s)
    BY DEF Reporting
  <2> HIDE DEF s, r
  <2> QED BY <1>1, <1>2, <2>1, ReportFacts, Zenon
<1> HIDE DEF s, r
<1>4. Sane(r) /\ r.open = l.open
  BY <1>3 DEF Reported, Sane
<1>5. Held(l) => Held(r)
  BY <1>3 DEF Reported, Held, Tracked, Shut
<1> QED BY <1>3, <1>4, <1>5 DEF r, s

LEMMA PhaseFacts ==
  ASSUME NEW l, Sane(l), Held(l), NEW r \in Phase(l)
  PROVE  Sane(r) /\ Held(r)
<1>1. PICK p \in LogPrint(l, FALSE) : \E c \in LogCommitAndReopen(p) : r = Reporting(c)
  BY DEF Phase
<1>2. PICK c \in LogCommitAndReopen(p) : r = Reporting(c)
  BY <1>1
<1>3. Sane(p) /\ Held(p)
  BY PrintKeeps
<1>4. Sane(c) /\ Held(c)
  BY <1>3, CommitAndReopenFacts
<1> QED BY <1>2, <1>4, ReportingFacts

-----------------------------------------------------------------------------
(* The invariant is inductive: what must be shown of each kind of step.    *)

LEMMA AttemptStep ==
  ASSUME Sane(log'), Held(log'), pc' \in Attempt, pc' = "disconnect" => Complete(log')
  PROVE  LogInv'
BY DEF LogInv, Attempt, Labels, Final

LEMMA ReturnStep ==
  ASSUME Sane(log'), ~log'.open, pc' \in {"returned", "halted"},
         log'.reported <=> log'.announced, log'.lost \/ log'.failed => log'.announced
  PROVE  LogInv'
BY DEF LogInv, Attempt, Labels, Final

LEMMA ProbeStep ==
  ASSUME Sane(log'), Probed(log'), pc' \in {"probing", "query"}, pc' = "query" => Complete(log')
  PROVE  LogInv'
BY DEF LogInv, Attempt, Labels, Final

LEMMA EndStep ==
  ASSUME Sane(log'), ~log'.open, pc' \in {"unconfirmed", "unsaved", "saved"},
         pc' = "saved" => Complete(log')
  PROVE  LogInv'
BY DEF LogInv, Attempt, Labels, Final

LEMMA InitInv == Init => LogInv
<1> SUFFICES ASSUME Init PROVE LogInv
  OBVIOUS
<1>1. log \in Logger
  BY DEF Init, Logger
<1>2. Sane(log)
  BY <1>1 DEF Init, Sane
<1> QED BY <1>2 DEF Init, LogInv, Attempt, Labels, Final

-----------------------------------------------------------------------------
(* Setup.                                                                  *)

LEMMA OpenProbeLog_Inv == LogInv /\ OpenProbeLog => LogInv'
<1> SUFFICES ASSUME LogInv, OpenProbeLog PROVE LogInv'
  OBVIOUS
<1>1. Sane(log) /\ ~log.open /\ ~log.reported /\ log' \in LogInitialize(log)
  BY DEF LogInv, OpenProbeLog
<1>2. /\ Sane(log') /\ log'.reported = log.reported
      /\ log'.ok <=> log'.open
  BY <1>1, InitializeFacts
<1>3. CASE log'.ok
  <2>1. Probed(log') /\ pc' = "probing"
    BY <1>1, <1>2, <1>3 DEF OpenProbeLog, Probed
  <2> QED BY <1>2, <2>1, ProbeStep
<1>4. CASE ~log'.ok
  <2>1. ~log'.open /\ pc' = "unconfirmed"
    BY <1>2, <1>4 DEF OpenProbeLog
  <2> QED BY <1>2, <2>1, EndStep
<1> QED BY <1>3, <1>4

LEMMA Probe_Inv == LogInv /\ Probe => LogInv'
<1> SUFFICES ASSUME LogInv, Probe PROVE LogInv'
  OBVIOUS
<1>1. Sane(log) /\ Probed(log)
  BY DEF LogInv, Probe
<1>2. Sane(log') /\ Probed(log')
  <2>1. CASE log' \in LogPrint(log, FALSE)
    BY <1>1, <2>1, PrintKeeps
  <2>2. CASE log' \in LogFlush(log)
    BY <1>1, <2>2, FlushFacts
  <2> QED BY <2>1, <2>2 DEF Probe
<1>3. pc' = "probing"
  BY DEF Probe
<1> QED BY <1>2, <1>3, ProbeStep

LEMMA BbsCaution_Inv == LogInv /\ BbsCaution => LogInv'
<1> SUFFICES ASSUME LogInv, BbsCaution PROVE LogInv'
  OBVIOUS
<1>1. Sane(log) /\ Probed(log)
  BY DEF LogInv, BbsCaution
<1>2. PICK p \in LogPrint(log, FALSE) : \E f \in LogFlush(p) :
        \/ f.ok /\ log' = f /\ pc' = "query"
        \/ ~f.ok /\ log' \in LogPrint(f, FALSE) /\ pc' = "probing"
  BY DEF BbsCaution
<1>3. PICK f \in LogFlush(p) :
        \/ f.ok /\ log' = f /\ pc' = "query"
        \/ ~f.ok /\ log' \in LogPrint(f, FALSE) /\ pc' = "probing"
  BY <1>2
<1>4. Sane(p) /\ Probed(p)
  BY <1>1, PrintKeeps
<1>5. Sane(f) /\ Probed(f) /\ (f.ok /\ p.open => Complete(f))
  BY <1>4, FlushFacts
<1>6. CASE f.ok /\ log' = f /\ pc' = "query"
  BY <1>4, <1>5, <1>6, ProbeStep DEF Probed
<1>7. CASE ~f.ok /\ log' \in LogPrint(f, FALSE) /\ pc' = "probing"
  <2>1. Sane(log') /\ Probed(log')
    BY <1>5, <1>7, PrintKeeps
  <2> QED BY <1>7, <2>1, ProbeStep
<1> QED BY <1>3, <1>6, <1>7

LEMMA BbsQuery_Inv == LogInv /\ BbsQuery => LogInv'
<1> SUFFICES ASSUME LogInv, BbsQuery PROVE LogInv'
  OBVIOUS
<1>1. Sane(log) /\ Probed(log) /\ pc' = "probing"
  BY DEF LogInv, BbsQuery
<1>2. PICK p \in LogPrint(log, FALSE) : \E f \in LogFlush(p) :
        IF f.ok THEN log' = f ELSE log' \in LogPrint(f, FALSE)
  BY DEF BbsQuery
<1>3. PICK f \in LogFlush(p) : IF f.ok THEN log' = f ELSE log' \in LogPrint(f, FALSE)
  BY <1>2
<1>4. Sane(p) /\ Probed(p)
  BY <1>1, PrintKeeps
<1>5. Sane(f) /\ Probed(f)
  BY <1>4, FlushFacts
<1>6. Sane(log') /\ Probed(log')
  <2>1. CASE log' = f
    BY <1>5, <2>1
  <2>2. CASE log' \in LogPrint(f, FALSE)
    BY <1>5, <2>2, PrintKeeps
  <2> QED BY <1>3, <2>1, <2>2
<1> QED BY <1>1, <1>6, ProbeStep

LEMMA ProbeDone_Inv == LogInv /\ ProbeDone => LogInv'
<1> SUFFICES ASSUME LogInv, ProbeDone PROVE LogInv'
  OBVIOUS
<1>1. Sane(log) /\ Probed(log)
  BY DEF LogInv, ProbeDone
<1>2. PICK f \in LogFlush(log), confirmed \in BOOLEAN :
        /\ log' \in LogClose(f)
        /\ pc' = IF confirmed /\ f.ok /\ log'.ok THEN "confirmed" ELSE "unconfirmed"
  BY DEF ProbeDone
<1>3. Sane(f) /\ Probed(f)
  BY <1>1, FlushFacts
<1>4. /\ Sane(log') /\ ~log'.open /\ log'.reported = f.reported
      /\ log'.ok => ~f.writeErr
      /\ log'.ok /\ f.open => Complete(log')
  BY <1>2, <1>3, CloseFacts
<1>5. CASE pc' = "confirmed"
  <2>1. log'.ok
    BY <1>2, <1>5
  <2>2. ~log'.reported /\ Complete(log')
    BY <1>3, <1>4, <2>1 DEF Probed
  <2> QED BY <1>4, <1>5, <2>2 DEF LogInv, Attempt, Labels, Final
<1>6. CASE pc' = "unconfirmed"
  BY <1>4, <1>6, EndStep
<1> QED BY <1>2, <1>5, <1>6

-----------------------------------------------------------------------------
(* The attempt.                                                            *)

LEMMA OpenLog_Inv == LogInv /\ OpenLog => LogInv'
<1> SUFFICES ASSUME LogInv, OpenLog PROVE LogInv'
  OBVIOUS
<1>1. Sane(log) /\ ~log.open /\ ~log.reported
  BY DEF LogInv, OpenLog
<1>2. PICK l \in LogInitialize(log) :
        log' = Reporting(l) /\ pc' = IF l.ok THEN "begin" ELSE "returned"
  BY DEF OpenLog
<1>3. /\ Sane(l) /\ ~l.announced /\ l.reported = log.reported
      /\ l.ok <=> l.open
      /\ l.ok => ~l.lost /\ ~l.failed /\ ~l.fileErr /\ ~l.writeErr
  BY <1>1, InitializeFacts
<1>4. Sane(log') /\ log'.open = l.open /\ Reported(l, ~l.ok, log') /\ (Held(l) => Held(log'))
  BY <1>2, <1>3, ReportingFacts
<1>5. CASE l.ok
  <2>1. Held(l)
    BY <1>1, <1>3, <1>5 DEF Held, Tracked, Shut
  <2>2. pc' = "begin"
    BY <1>2, <1>5
  <2> QED BY <1>4, <2>1, <2>2, AttemptStep DEF Attempt
<1>6. CASE ~l.ok
  <2>1. log'.reported /\ log'.announced /\ ~log'.open
    BY <1>1, <1>3, <1>4, <1>6 DEF Reported
  <2>2. pc' = "returned"
    BY <1>2, <1>6
  <2> QED BY <1>4, <2>1, <2>2, ReturnStep
<1> QED BY <1>5, <1>6

\* An attempt that reports an error and closes its log has shown it.
LEMMA ReportAndClose ==
  ASSUME NEW l, Sane(l), Held(l), ~l.ok, NEW r \in LogClose(Reporting(l))
  PROVE  Sane(r) /\ ~r.open /\ r.reported /\ r.announced
<1> DEFINE g == Reporting(l)
<1>1. Sane(g) /\ Reported(l, ~l.ok, g)
  BY ReportingFacts
<1>2. r \in LogClose(g)
  OBVIOUS
<1> HIDE DEF g
<1>3. Sane(r) /\ ~r.open /\ r.reported = g.reported /\ r.announced = g.announced
  BY <1>1, <1>2, CloseFacts
<1>4. g.reported /\ g.announced
  BY <1>1 DEF Reported, Held, Tracked
<1> QED BY <1>3, <1>4

LEMMA BeginDurable_Inv == LogInv /\ BeginDurable => LogInv'
<1> SUFFICES ASSUME LogInv, BeginDurable PROVE LogInv'
  OBVIOUS
<1>1. Sane(log) /\ Held(log)
  BY DEF LogInv, BeginDurable, Attempt
<1>2. PICK l \in LogBeginDurableFileFirst(log) :
        \/ l.ok /\ log' = l /\ pc' = "preflight"
        \/ ~l.ok /\ log' \in LogClose(Reporting(l)) /\ pc' = "returned"
  BY DEF BeginDurable
<1>3. Sane(l) /\ Held(l)
  BY <1>1, BeginFacts
<1>4. CASE l.ok /\ log' = l /\ pc' = "preflight"
  BY <1>3, <1>4, AttemptStep DEF Attempt
<1>5. CASE ~l.ok /\ log' \in LogClose(Reporting(l)) /\ pc' = "returned"
  <2>1. Sane(log') /\ ~log'.open /\ log'.reported /\ log'.announced
    BY <1>3, <1>5, ReportAndClose
  <2> QED BY <1>5, <2>1, ReturnStep
<1> QED BY <1>2, <1>4, <1>5

\* What an attempt does to its log at most steps.
LEMMA WorkFacts ==
  ASSUME NEW l, Sane(l), Held(l),
         NEW r \in LogPrint(l, FALSE) \cup LogFlush(l) \cup Phase(l) \cup LogCommitAndReopen(l)
  PROVE  Sane(r) /\ Held(r)
<1>1. CASE r \in LogPrint(l, FALSE)
  BY <1>1, PrintKeeps
<1>2. CASE r \in LogFlush(l)
  BY <1>2, FlushFacts
<1>3. CASE r \in Phase(l)
  BY <1>3, PhaseFacts
<1>4. CASE r \in LogCommitAndReopen(l)
  BY <1>4, CommitAndReopenFacts
<1> QED BY <1>1, <1>2, <1>3, <1>4

LEMMA Preflight_Inv == LogInv /\ Preflight => LogInv'
<1> SUFFICES ASSUME LogInv, Preflight PROVE LogInv'
  OBVIOUS
<1>1. Sane(log) /\ Held(log)
  BY DEF LogInv, Preflight, Attempt
<1>2. Sane(log') /\ Held(log')
  BY <1>1, WorkFacts DEF Preflight
<1>3. pc' \in Attempt /\ pc' # "disconnect"
  BY DEF Preflight, Attempt
<1> QED BY <1>2, <1>3, AttemptStep

\* A phase and the barrier after it: the log is complete if the barrier says so.
LEMMA BarrierPhase ==
  ASSUME NEW l, Sane(l), Held(l), NEW r \in UNION {LogFileBarrier(p) : p \in Phase(l)}
  PROVE  Sane(r) /\ Held(r) /\ (r.ok => Complete(r))
<1>1. PICK p \in Phase(l) : r \in LogFileBarrier(p)
  OBVIOUS
<1>2. Sane(p) /\ Held(p)
  BY PhaseFacts
<1> QED BY <1>1, <1>2, BarrierFacts

LEMMA PreflightPassed_Inv == LogInv /\ PreflightPassed => LogInv'
<1> SUFFICES ASSUME LogInv, PreflightPassed PROVE LogInv'
  OBVIOUS
<1>1. Sane(log) /\ Held(log)
  BY DEF LogInv, PreflightPassed, Attempt
<1>2. Sane(log') /\ Held(log')
  BY <1>1, BarrierPhase DEF PreflightPassed, Does
<1>3. pc' \in {"countdown", "failing"}
  BY DEF PreflightPassed, Does
<1> QED BY <1>2, <1>3, AttemptStep DEF Attempt

\* A record and, if it was written, the barrier after it.
LEMMA BarrierPrint ==
  ASSUME NEW l, Sane(l), Held(l), NEW r \in IfOk(LogPrint(l, FALSE), LogFileBarrier)
  PROVE  Sane(r) /\ Held(r)
<1>1. PICK p \in LogPrint(l, FALSE) : r = p \/ r \in LogFileBarrier(p)
  BY DEF IfOk
<1>2. Sane(p) /\ Held(p)
  BY PrintKeeps
<1> QED BY <1>1, <1>2, BarrierFacts

LEMMA CountdownBegin_Inv == LogInv /\ CountdownBegin => LogInv'
<1> SUFFICES ASSUME LogInv, CountdownBegin PROVE LogInv'
  OBVIOUS
<1>1. Sane(log) /\ Held(log)
  BY DEF LogInv, CountdownBegin, Attempt
<1>2. PICK l \in IfOk(LogPrint(log, FALSE), LogFileBarrier) :
        \/ l.ok /\ log' = [l EXCEPT !.console = FALSE] /\ pc' = "waiting"
        \/ ~l.ok /\ log' = l /\ pc' = "finish"
  BY DEF CountdownBegin
<1>3. Sane(l) /\ Held(l)
  BY <1>1, BarrierPrint
<1>4. CASE log' = [l EXCEPT !.console = FALSE] /\ pc' = "waiting"
  <2>1. /\ log' \in Logger
        /\ log'.open = l.open /\ log'.handles = l.handles
        /\ log'.lost = l.lost /\ log'.failed = l.failed
        /\ log'.fileErr = l.fileErr /\ log'.writeErr = l.writeErr
        /\ log'.reported = l.reported /\ log'.announced = l.announced
    BY <1>3, <1>4 DEF Sane, Logger
  <2>2. Sane(log')
    BY <1>3, <2>1 DEF Sane
  <2>3. Held(log')
    BY <1>3, <2>1 DEF Held, Tracked, Shut
  <2> QED BY <1>4, <2>2, <2>3, AttemptStep DEF Attempt
<1>5. CASE log' = l /\ pc' = "finish"
  BY <1>3, <1>5, AttemptStep DEF Attempt
<1> QED BY <1>2, <1>4, <1>5

LEMMA CountdownEnd_Inv == LogInv /\ CountdownEnd => LogInv'
<1> SUFFICES ASSUME LogInv, CountdownEnd PROVE LogInv'
  OBVIOUS
<1>1. Sane(log) /\ Held(log)
  BY DEF LogInv, CountdownEnd, Attempt
<1>2. log' \in IfOk(LogPrint(log, FALSE), LogFileBarrier) \/ log' \in LogPrint(log, FALSE)
  BY DEF CountdownEnd, Does
<1>3. Sane(log') /\ Held(log')
  BY <1>1, <1>2, BarrierPrint, PrintKeeps
<1>4. pc' \in {"marker", "finish"}
  BY DEF CountdownEnd, Does
<1> QED BY <1>3, <1>4, AttemptStep DEF Attempt

LEMMA DisconnectBarrier_Inv == LogInv /\ DisconnectBarrier => LogInv'
<1> SUFFICES ASSUME LogInv, DisconnectBarrier PROVE LogInv'
  OBVIOUS
<1>1. Sane(log) /\ Held(log)
  BY DEF LogInv, DisconnectBarrier, Attempt
<1>2. CASE log' \in LogPrint(log, FALSE) /\ pc' = "failing"
  <2>1. Sane(log') /\ Held(log')
    BY <1>1, <1>2, PrintKeeps
  <2> QED BY <1>2, <2>1, AttemptStep DEF Attempt
<1>3. CASE Does(UNION {LogFileBarrier(p) : p \in Phase(log)}, "disconnect", "failing")
  <2>1. Sane(log') /\ Held(log') /\ (log'.ok => Complete(log'))
    BY <1>1, <1>3, BarrierPhase DEF Does
  <2>2. pc' = IF log'.ok THEN "disconnect" ELSE "failing"
    BY <1>3 DEF Does
  <2> QED BY <2>1, <2>2, AttemptStep DEF Attempt
<1> QED BY <1>2, <1>3 DEF DisconnectBarrier

LEMMA Disconnect_Inv == LogInv /\ Disconnect => LogInv'
<1> SUFFICES ASSUME LogInv, Disconnect PROVE LogInv'
  OBVIOUS
<1>1. Sane(log) /\ Held(log)
  BY DEF LogInv, Disconnect, Attempt
<1>2. Sane(log') /\ Held(log')
  BY <1>1, WorkFacts DEF Disconnect
<1>3. pc' \in {"finish", "handoff"}
  BY DEF Disconnect
<1> QED BY <1>2, <1>3, AttemptStep DEF Attempt

LEMMA Handoff_Inv == LogInv /\ Handoff => LogInv'
<1> SUFFICES ASSUME LogInv, Handoff PROVE LogInv'
  OBVIOUS
<1>1. Sane(log) /\ Held(log)
  BY DEF LogInv, Handoff, Attempt
<1>2. Sane(log') /\ Held(log')
  BY <1>1, WorkFacts DEF Handoff
<1>3. pc' \in {"handoff", "final", "halt"}
  BY DEF Handoff
<1> QED BY <1>2, <1>3, AttemptStep DEF Attempt

LEMMA FinalCommit_Inv == LogInv /\ FinalCommit => LogInv'
<1> SUFFICES ASSUME LogInv, FinalCommit PROVE LogInv'
  OBVIOUS
<1>1. Sane(log) /\ Held(log)
  BY DEF LogInv, FinalCommit, Attempt
<1>2. PICK p \in LogPrint(log, FALSE) : log' \in LogCommitAndClose(p)
  BY DEF FinalCommit, Does
<1>3. Sane(p) /\ Held(p)
  BY <1>1, PrintKeeps
<1>4. /\ Sane(log') /\ ~log'.open /\ Tracked(log')
      /\ log'.ok => Complete(log') /\ ~log'.fileErr
      /\ ~log'.ok => Held(log')
  BY <1>2, <1>3, CommitFacts
<1>5. pc' = IF log'.ok THEN "boot" ELSE "halt"
  BY DEF FinalCommit, Does
<1>6. CASE log'.ok
  <2>1. pc' = "boot" /\ Complete(log') /\ ~log'.fileErr
    BY <1>4, <1>5, <1>6
  <2> QED BY <1>4, <2>1 DEF LogInv, Attempt, Labels, Final
<1>7. CASE ~log'.ok
  BY <1>4, <1>5, <1>7, AttemptStep DEF Attempt
<1> QED BY <1>6, <1>7

LEMMA LegacyBootReturned_Inv == LogInv /\ LegacyBootReturned => LogInv'
<1> SUFFICES ASSUME LogInv, LegacyBootReturned PROVE LogInv'
  OBVIOUS
<1>1. Sane(log) /\ ~log.open /\ Tracked(log) /\ Complete(log) /\ ~log.fileErr
  BY DEF LogInv, LegacyBootReturned
<1>2. PICK l \in LogReopenAppend(log) : log' \in LogPrint(l, TRUE)
  BY DEF LegacyBootReturned
<1>3. Sane(l) /\ Held(l)
  BY <1>1, ReopenFacts
<1>4. Sane(log') /\ Held(log')
  BY <1>2, <1>3, PrintKeeps
<1>5. pc' = "halt"
  BY DEF LegacyBootReturned
<1> QED BY <1>4, <1>5, AttemptStep DEF Attempt

\* The halt reports what its own commit found, and nothing else is unreported.
LEMMA BootReportHalt_Inv == LogInv /\ BootReportHalt => LogInv'
<1> SUFFICES ASSUME LogInv, BootReportHalt PROVE LogInv'
  OBVIOUS
<1>1. Sane(log) /\ Held(log) /\ pc' = "halted"
  BY DEF LogInv, BootReportHalt, Attempt
<1>2. PICK p \in LogPrint(log, TRUE) : \E c \in LogCommitAndClose(p) : log' = Reporting(c)
  BY DEF BootReportHalt
<1>3. PICK c \in LogCommitAndClose(p) : log' = Reporting(c)
  BY <1>2
<1>4. Sane(p) /\ Held(p)
  BY <1>1, PrintKeeps
<1>5. /\ Sane(c) /\ ~c.open /\ Tracked(c)
      /\ c.ok => Complete(c) /\ ~c.fileErr
  BY <1>4, CommitFacts
<1>6. Sane(log') /\ log'.open = c.open /\ Reported(c, ~c.ok, log')
  BY <1>3, <1>5, ReportingFacts
<1>7. /\ log'.reported <=> log'.announced
      /\ log'.lost \/ log'.failed => log'.announced
  BY <1>5, <1>6 DEF Reported, Tracked
<1> QED BY <1>1, <1>5, <1>6, <1>7, ReturnStep

LEMMA PreflightFailure_Inv == LogInv /\ PreflightFailure => LogInv'
<1> SUFFICES ASSUME LogInv, PreflightFailure PROVE LogInv'
  OBVIOUS
<1>1. Sane(log) /\ Held(log) /\ pc' = "finish" /\ log' \in LogPrint(log, FALSE)
  BY DEF LogInv, PreflightFailure, Attempt
<1>2. Sane(log') /\ Held(log')
  BY <1>1, PrintKeeps
<1> QED BY <1>1, <1>2, AttemptStep DEF Attempt

\* A close that succeeds found no error before it either, so that what was lost
\* or had failed is already reported; one that fails is reported now.
LEMMA BootReportFinish_Inv == LogInv /\ BootReportFinish => LogInv'
<1> SUFFICES ASSUME LogInv, BootReportFinish PROVE LogInv'
  OBVIOUS
<1>1. Sane(log) /\ Held(log) /\ pc' = "returned"
  BY DEF LogInv, BootReportFinish, Attempt
<1>2. PICK f \in LogFlush(log) : \E c \in LogClose(Reporting(f)) : log' = Reporting(c)
  BY DEF BootReportFinish
<1> DEFINE g == Reporting(f)
<1>3. PICK c \in LogClose(g) : log' = Reporting(c)
  BY <1>2
<1>4. Sane(f) /\ Held(f)
  BY <1>1, FlushFacts
<1>5. Sane(g) /\ Held(g)
  BY <1>4, ReportingFacts
<1> HIDE DEF g
<1>6. /\ Sane(c) /\ ~c.open
      /\ c.reported = g.reported /\ c.announced = g.announced
      /\ c.ok => ~g.writeErr
      /\ c.ok /\ (c.lost \/ c.failed) => g.lost \/ g.failed
  BY <1>3, <1>5, CloseFacts
<1>7. Sane(log') /\ log'.open = c.open /\ Reported(c, ~c.ok, log')
  BY <1>3, <1>6, ReportingFacts
<1>8. ~g.writeErr => g.open /\ ~g.fileErr
  BY <1>5 DEF Sane, Held, Shut
<1>9. c.ok /\ (c.lost \/ c.failed) => c.reported
  BY <1>5, <1>6, <1>8 DEF Held, Tracked
<1>10. c.reported <=> c.announced
  BY <1>5, <1>6 DEF Held, Tracked
<1>11. /\ log'.reported <=> log'.announced
       /\ log'.lost \/ log'.failed => log'.announced
  BY <1>7, <1>9, <1>10 DEF Reported
<1> QED BY <1>1, <1>6, <1>7, <1>11, ReturnStep

-----------------------------------------------------------------------------
(* After an attempt.                                                       *)

LEMMA TakeEdit_Inv == LogInv /\ TakeEdit => LogInv'
<1> SUFFICES ASSUME LogInv, TakeEdit PROVE LogInv'
  OBVIOUS
<1>1. /\ Sane(log) /\ ~log.open /\ pc' = "setup"
      /\ log' = [log EXCEPT !.reported = FALSE]
  BY DEF LogInv, TakeEdit, Final
<1>2. log' \in Logger /\ log'.open = log.open /\ log'.handles = log.handles /\ ~log'.reported
  BY <1>1 DEF Sane, Logger
<1>3. Sane(log')
  BY <1>1, <1>2 DEF Sane
<1> QED BY <1>1, <1>2, <1>3 DEF LogInv, Attempt, Labels, Final

LEMMA ReportAssessment_Inv == LogInv /\ ReportAssessment => LogInv'
<1> SUFFICES ASSUME LogInv, ReportAssessment PROVE LogInv'
  OBVIOUS
<1>1. Sane(log) /\ ~log.open
  BY DEF LogInv, ReportAssessment, Final
<1>2. PICK l \in LogInitialize(log) :
        \E p \in IF l.ok THEN LogPrint([l EXCEPT !.console = FALSE, !.serial = FALSE], FALSE)
                         ELSE {l} :
          /\ log' \in LogClose(p)
          /\ pc' = IF p.ok /\ log'.ok THEN "saved" ELSE "unsaved"
  BY DEF ReportAssessment
<1> DEFINE k == [l EXCEPT !.console = FALSE, !.serial = FALSE]
<1>3. PICK p \in IF l.ok THEN LogPrint(k, FALSE) ELSE {l} :
        /\ log' \in LogClose(p)
        /\ pc' = IF p.ok /\ log'.ok THEN "saved" ELSE "unsaved"
  BY <1>2
<1>4. Sane(l) /\ (l.ok <=> l.open)
  BY <1>1, InitializeFacts
<1>5. /\ k \in Logger
      /\ k.open = l.open /\ k.handles = l.handles /\ k.lost = l.lost
      /\ k.fileErr = l.fileErr /\ k.writeErr = l.writeErr
  BY <1>4 DEF Sane, Logger
<1> HIDE DEF k
<1>6. Sane(k)
  BY <1>4, <1>5 DEF Sane
<1>7. Sane(p) /\ (p.ok => p.open)
  <2>1. CASE l.ok
    BY <1>3, <1>4, <1>5, <1>6, <2>1, PrintKeeps
  <2>2. CASE ~l.ok
    BY <1>3, <1>4, <2>2
  <2> QED BY <2>1, <2>2
<1>8. /\ Sane(log') /\ ~log'.open
      /\ log'.ok /\ p.open => Complete(log')
  BY <1>3, <1>7, CloseFacts
<1> QED BY <1>3, <1>7, <1>8, EndStep

-----------------------------------------------------------------------------
(* The theorems.                                                           *)

LEMMA StepInv == LogInv /\ [Next]_vars => LogInv'
<1> SUFFICES ASSUME LogInv, [Next]_vars PROVE LogInv'
  OBVIOUS
<1>1. CASE UNCHANGED vars
  BY <1>1 DEF vars, LogInv
<1>2. CASE Terminated
  BY <1>2 DEF Terminated, vars, LogInv
<1> QED
  BY <1>1, <1>2, OpenProbeLog_Inv, Probe_Inv, BbsCaution_Inv, BbsQuery_Inv, ProbeDone_Inv,
     TakeEdit_Inv, ReportAssessment_Inv, OpenLog_Inv, BeginDurable_Inv, Preflight_Inv,
     PreflightPassed_Inv, CountdownBegin_Inv, CountdownEnd_Inv, DisconnectBarrier_Inv,
     Disconnect_Inv, Handoff_Inv, FinalCommit_Inv, LegacyBootReturned_Inv, BootReportHalt_Inv,
     PreflightFailure_Inv, BootReportFinish_Inv DEF Next

\* In every reachable state the errors of the log are where its users look for
\* them: LogInv holds whatever the file calls return.
THEOREM LogInvariant == Spec => []LogInv
BY InitInv, StepInv, PTL DEF Spec

\* The logger keeps its type, and no operation of Log.c opens a second handle
\* or closes one twice.
THEOREM LogTypeCorrect == Spec => []TypeOK
<1>1. LogInv => TypeOK
  BY DEF LogInv, TypeOK, Sane
<1> QED BY <1>1, LogInvariant, PTL

\* CommitmentLogged: when the display is disconnected, when LegacyBoot is called,
\* when setup queries the boot table or allows a boot, and when an assessment is
\* said to be saved, every record before it is in the file.
THEOREM CommitmentSafe == Spec => []CommitmentLogged
<1>1. LogInv => CommitmentLogged
  BY DEF LogInv, CommitmentLogged, Complete
<1> QED BY <1>1, LogInvariant, PTL

\* LogErrorShown: an attempt that ends with an incomplete log, or after a call
\* for it has failed, has shown a log error since the log was opened.
THEOREM ErrorsShown == Spec => []LogErrorShown
<1>1. LogInv => LogErrorShown
  BY DEF LogInv, LogErrorShown
<1> QED BY <1>1, LogInvariant, PTL

\* HandlesExact: the firmware has a handle of the log open exactly while File is
\* set, and none once a user of the log is done with it.
THEOREM HandlesSafe == Spec => []HandlesExact
<1>1. LogInv => HandlesExact
  BY DEF LogInv, HandlesExact, Sane
<1> QED BY <1>1, LogInvariant, PTL

=============================================================================
