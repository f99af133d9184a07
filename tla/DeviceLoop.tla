----------------------------- MODULE DeviceLoop -----------------------------
(***************************************************************************)
(* What a device reports as the loop of cmd/inverterclient ticks: the own  *)
(* DER of the der role (main.go, phase4_metering.go) or one device of an   *)
(* aggregator (managed.go, managed_status.go).  Each tick reads and drives *)
(* the device; then come alarms or the DER's resources, and the metering   *)
(* mirror, which the server can lose and which is created again under a    *)
(* backoff.  Both kinds of owner share the backoff of mirror.go.           *)
(*                                                                         *)
(* Time is counted in units that pass between ticks.                       *)
(***************************************************************************)
EXTENDS AlarmReports

CONSTANTS Setups,      \* the devices, their intervals and what the server offers them
          Elapses,     \* what may pass from one tick to the next
          MaxBackoff,  \* maxMirrorBackoff
          MaxTries     \* bound: from so many failures on the backoff does not grow

Links == {"mirrors", "ders", "capability", "settings", "status", "logEvents"}

ASSUME SetupsAssumption ==
  /\ MaxBackoff \in Nat /\ MaxTries \in Nat \ {0} /\ Elapses \subseteq Nat \ {0}
  /\ \A s \in Setups :
       /\ s.managed \in BOOLEAN /\ s.interval \in Nat /\ s.every \in Nat
       /\ s.links \subseteq Links /\ s.alarms \subseteq Codes
       /\ s.interval * 2^(MaxTries - 1) >= MaxBackoff \/ s.interval = 0

VARIABLES
  setup,
  pc,           \* where the loop is in its tick
  good,         \* while it holds, nothing fails at the device or the server
  exists,       \* does the server hold the mirror?
  mirror,       \* does the device have one, and the retry of its creation
  lastReport,   \* time since the last report, at most the interval
  der,          \* has the DER been read?  and the retry
  setupPut,     \* what of capability and settings was PUT, and the retry
  lastStatus,   \* time since the last status, at most its interval
  reporter,     \* where the reporter posts readings and puts the status
  creates,      \* creates since the mirror last accepted a reading, bounded
  sinceCreate,  \* time since the last create, at most MaxBackoff
  gap,          \* between the last two creates
  done          \* what the server has just accepted

mirrorVars == <<mirror, exists, creates, sinceCreate, gap>>
derVars == <<der, setupPut, lastStatus>>
vars == <<setup, pc, good, mirrorVars, lastReport, derVars, reporter, done, alarmVars>>

Least(a, b) == IF a < b THEN a ELSE b

-----------------------------------------------------------------------------
(* The backoff of mirror.go.                                               *)

\* The loop: base, doubled once per failure after the first.
Doubled(base) ==
  LET d[failures \in Nat] == IF failures <= 1 THEN base ELSE 2 * d[failures - 1]
  IN  d

MirrorBackoff(failures) == Least(Doubled(setup.interval)[failures], MaxBackoff)

Ready(r) == r.wait = 0

Failed(r) ==
  LET n == Least(r.tries + 1, MaxTries) IN
  [r EXCEPT !.tries = n, !.wait = MirrorBackoff(n)]

Worked(r) == [r EXCEPT !.tries = 0, !.wait = 0]

Later(r, d) == [r EXCEPT !.wait = IF d > @ THEN 0 ELSE @ - d]

-----------------------------------------------------------------------------
(* The mirror.                                                             *)

\* Mutant: the reporter for the new mirror knows nothing of the DER.
NewReporter(r) == [mirror |-> TRUE, der |-> FALSE]

\* setReporter and SetMirrorHref: the new mirror, the DER's resources as before.
SetReporter(r) == [r EXCEPT !.mirror = TRUE]

\* Mutant: the backoff starts anew with every mirror that could be created.
CreatedAnew(m) == [Worked(m) EXCEPT !.has = TRUE]

Created(m) == [m EXCEPT !.has = TRUE]

\* The server is asked for a mirror, may hold one although its answer is lost
\* or carries no Location.
CreateMirror(outcome) ==
  /\ good => outcome = "ok"
  /\ exists' = (exists \/ outcome # "failed")
  /\ IF outcome = "ok"
       THEN mirror' = Created(mirror) /\ reporter' = SetReporter(reporter)
       ELSE mirror' = Failed(mirror) /\ UNCHANGED reporter
  /\ creates' = Least(creates + 1, MaxTries + 1)
  /\ gap' = sinceCreate /\ sinceCreate' = 0

\* The answer to a reading: accepted, 404, or anything else that went wrong.
PostReading(outcome) ==
  /\ CASE outcome = "accepted" -> exists /\ mirror' = Worked(mirror)
       [] outcome = "404" -> ~exists /\ mirror' = Failed([mirror EXCEPT !.has = FALSE])
       [] outcome = "failed" -> ~good /\ UNCHANGED mirror
  /\ IF outcome = "accepted" THEN creates' = 0 /\ done' = "reading"
     ELSE UNCHANGED <<creates, done>>
  /\ UNCHANGED <<exists, sinceCreate, gap, reporter>>

-----------------------------------------------------------------------------
(* The start and the tick.                                                 *)

Init ==
  /\ AlarmInit
  /\ setup \in Setups /\ good \in BOOLEAN /\ pc = "start"
  /\ mirror = [has |-> FALSE, tries |-> 0, wait |-> 0] /\ exists = FALSE
  /\ der = [known |-> FALSE, tries |-> 0, wait |-> 0]
  /\ setupPut = [items |-> {}, done |-> FALSE, tries |-> 0, wait |-> 0]
  /\ lastReport = setup.interval /\ lastStatus = setup.every
  /\ reporter = [mirror |-> FALSE, der |-> FALSE]
  /\ creates = 0 /\ sinceCreate = MaxBackoff /\ gap = MaxBackoff /\ done = "none"

Goto(place) == pc' = place

\* The first create; for the own DER and a managed device alike a failure
\* counts as the first one.
FirstMirror(outcome) ==
  /\ pc = "start"
  /\ IF "mirrors" \in setup.links
       THEN CreateMirror(outcome)
       ELSE outcome = "ok" /\ UNCHANGED <<mirrorVars, reporter>>
  /\ Goto("idle")
  /\ UNCHANGED <<setup, good, lastReport, derVars, done, alarmVars>>

\* A tick reads and drives the device; if either fails, it ends there.
Tick(d, works) ==
  /\ pc = "idle" /\ (good => works)
  /\ lastReport' = Least(lastReport + d, setup.interval)
  /\ lastStatus' = Least(lastStatus + d, setup.every)
  /\ mirror' = Later(mirror, d) /\ der' = Later(der, d) /\ setupPut' = Later(setupPut, d)
  /\ lastEmit' = AlarmsLater(d)
  /\ sinceCreate' = Least(sinceCreate + d, MaxBackoff)
  /\ done' = "none"
  /\ \/ ~works /\ Goto("idle") /\ UNCHANGED <<conditions, prev, rising, told>>
     \/ works /\ setup.managed /\ Goto("der") /\ UNCHANGED <<conditions, prev, rising, told>>
     \/ /\ works /\ ~setup.managed /\ Goto("alarms")
        /\ \E next \in SUBSET setup.alarms : Evaluate(next, "logEvents" \in setup.links)
  /\ UNCHANGED <<setup, good, exists, creates, gap, reporter, suppressed>>

-----------------------------------------------------------------------------
(* The own DER.                                                            *)

ReportOnset(outcome) ==
  /\ pc = "alarms" /\ (good => outcome = "ok")
  /\ \E c \in rising : PostLogEvent(c, outcome)
  /\ UNCHANGED <<setup, pc, good, mirrorVars, lastReport, derVars, reporter, done>>

ForgetOnset ==
  /\ pc = "alarms"
  /\ \E c \in rising : DropOnset(c)
  /\ UNCHANGED <<setup, pc, good, mirrorVars, lastReport, derVars, reporter, done>>

AlarmsDone ==
  /\ pc = "alarms" /\ rising = {}
  /\ Goto(IF lastReport = setup.interval THEN "report" ELSE "idle")
  /\ UNCHANGED <<setup, good, mirrorVars, lastReport, derVars, reporter, done, alarmVars>>

\* ownReporter.report, its end: the interval starts again.
Reported ==
  /\ Goto("idle") /\ lastReport' = 0

\* Without a mirror the reading waits for the backoff.
OwnSkips ==
  /\ pc = "report" /\ ~setup.managed /\ ~mirror.has
  /\ "mirrors" \notin setup.links \/ ~Ready(mirror)
  /\ Reported
  /\ UNCHANGED <<setup, good, mirrorVars, derVars, reporter, done, alarmVars>>

\* A create that works is followed by the reading at once.
OwnCreates(outcome) ==
  /\ pc = "report" /\ ~setup.managed /\ ~mirror.has
  /\ "mirrors" \in setup.links /\ Ready(mirror)
  /\ CreateMirror(outcome)
  /\ IF outcome = "ok" THEN Goto("report") /\ UNCHANGED lastReport ELSE Reported
  /\ UNCHANGED <<setup, good, derVars, done, alarmVars>>

-----------------------------------------------------------------------------
(* A managed device: reportDER, tryMirror, the reading.                    *)

NoDER ==
  /\ pc = "der" /\ ("ders" \notin setup.links \/ (~der.known /\ ~Ready(der)))
  /\ Goto("mirror")
  /\ UNCHANGED <<setup, good, mirrorVars, lastReport, derVars, reporter, done, alarmVars>>

\* resolveDER: the list may fail, or be empty.
ResolveDER(outcome) ==
  /\ pc = "der" /\ "ders" \in setup.links /\ ~der.known /\ Ready(der)
  /\ good => outcome = "ok"
  /\ IF outcome = "ok"
       THEN /\ der' = [der EXCEPT !.known = TRUE]
            /\ reporter' = [reporter EXCEPT !.der = TRUE]
            /\ Goto("der")
       ELSE der' = Failed(der) /\ Goto("mirror") /\ UNCHANGED reporter
  /\ UNCHANGED <<setup, good, mirrorVars, lastReport, setupPut, lastStatus, done, alarmVars>>

Missing == (setup.links \cap {"capability", "settings"}) \ setupPut.items

\* putSetup, what of it succeeds; only the rest is tried again.
PutSetup(items) ==
  /\ pc = "der" /\ "ders" \in setup.links /\ der.known
  /\ ~setupPut.done /\ Ready(setupPut)
  /\ good => items = Missing
  /\ setupPut' = IF items = Missing
                   THEN [setupPut EXCEPT !.items = @ \cup items, !.done = TRUE]
                   ELSE Failed([setupPut EXCEPT !.items = @ \cup items])
  /\ Goto("status")
  /\ UNCHANGED <<setup, good, mirrorVars, lastReport, der, lastStatus, reporter, done, alarmVars>>

NoSetup ==
  /\ pc = "der" /\ "ders" \in setup.links /\ der.known
  /\ setupPut.done \/ ~Ready(setupPut)
  /\ Goto("status")
  /\ UNCHANGED <<setup, good, mirrorVars, lastReport, derVars, reporter, done, alarmVars>>

\* The status interval starts again before the PUT, which may fail.
PutStatus(outcome) ==
  /\ pc = "status" /\ (good => outcome = "ok")
  /\ IF lastStatus = setup.every
       THEN /\ lastStatus' = 0
            /\ IF outcome = "ok" /\ reporter.der /\ "status" \in setup.links
                 THEN done' = "status" ELSE UNCHANGED done
       ELSE outcome = "ok" /\ UNCHANGED <<lastStatus, done>>
  /\ Goto("mirror")
  /\ UNCHANGED <<setup, good, mirrorVars, lastReport, der, setupPut, reporter, alarmVars>>

\* tryMirror, on every tick.
MirrorNotTried ==
  /\ pc = "mirror" /\ (mirror.has \/ "mirrors" \notin setup.links \/ ~Ready(mirror))
  /\ Goto(IF lastReport = setup.interval THEN "report" ELSE "idle")
  /\ UNCHANGED <<setup, good, mirrorVars, lastReport, derVars, reporter, done, alarmVars>>

TryMirror(outcome) ==
  /\ pc = "mirror" /\ ~mirror.has /\ "mirrors" \in setup.links /\ Ready(mirror)
  /\ CreateMirror(outcome)
  /\ Goto(IF lastReport = setup.interval THEN "report" ELSE "idle")
  /\ UNCHANGED <<setup, good, lastReport, derVars, done, alarmVars>>

ManagedSkips ==
  /\ pc = "report" /\ setup.managed /\ ~mirror.has
  /\ Reported
  /\ UNCHANGED <<setup, good, mirrorVars, derVars, reporter, done, alarmVars>>

\* ReportMetering, for both.
Report(outcome) ==
  /\ pc = "report" /\ mirror.has
  /\ PostReading(outcome)
  /\ Reported
  /\ UNCHANGED <<setup, good, derVars, alarmVars>>

-----------------------------------------------------------------------------
(* The server, and what may happen to it and to the device.                *)

LoseMirror ==
  /\ ~good /\ exists /\ exists' = FALSE
  /\ UNCHANGED <<setup, pc, good, mirror, creates, sinceCreate, gap, lastReport, derVars,
                 reporter, done, alarmVars>>

Change ==
  /\ good' = ~good
  /\ UNCHANGED <<setup, pc, mirrorVars, lastReport, derVars, reporter, done, alarmVars>>

LoopStep ==
  \/ \E d \in Elapses, works \in BOOLEAN : Tick(d, works)
  \/ \E outcome \in {"ok", "failed", "unanswered"} :
       FirstMirror(outcome) \/ OwnCreates(outcome) \/ TryMirror(outcome)
  \/ \E outcome \in {"ok", "failed", "unanswered", "405"} : ReportOnset(outcome)
  \/ \E outcome \in {"ok", "failed"} : ResolveDER(outcome) \/ PutStatus(outcome)
  \/ \E items \in SUBSET Missing : PutSetup(items)
  \/ \E outcome \in {"accepted", "404", "failed"} : Report(outcome)
  \/ ForgetOnset \/ AlarmsDone \/ OwnSkips
  \/ NoDER \/ NoSetup \/ MirrorNotTried \/ ManagedSkips

Next == LoopStep \/ LoseMirror \/ Change

Spec == Init /\ [][Next]_vars

\* The ticker fires again and again, and every request ends.
FairSpec == Spec /\ WF_vars(LoopStep)

-----------------------------------------------------------------------------
(* What the loop promises.                                                 *)

\* A server that keeps losing the mirrors it creates, or refuses to create
\* them, is asked ever more rarely: the n-th create since it last accepted a
\* reading comes a whole backoff of n-1 failures after the one before.
NoCreateStorm == creates > 1 => gap >= MirrorBackoff(creates - 1)

\* Once the server and the device stay well, whatever happened before, the
\* readings come through again and again, and so does a managed DER's status:
\* through a mirror created anew as well.
ReportsResume ==
  <>[]good =>
    /\ "mirrors" \in setup.links => []<>(done = "reading")
    /\ setup.managed /\ {"ders", "status"} \subseteq setup.links => []<>(done = "status")
=============================================================================
