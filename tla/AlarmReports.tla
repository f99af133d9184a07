---------------------------- MODULE AlarmReports ----------------------------
(***************************************************************************)
(* The alarms of the own DER (internal/inverter/alarm_detector.go) and the *)
(* LogEvents it posts of them, behind the rate limiter of                  *)
(* log_event_ratelimiter.go.  What counts as an alarm, the classification  *)
(* of voltages, frequencies and powers, is any set of codes.               *)
(***************************************************************************)
EXTENDS Naturals

CONSTANTS Codes,   \* the LogEvent codes of the alarm classes
          Window   \* of the rate limiter, in ticks of the clock

ASSUME WindowAssumption == Window \in Nat \ {0}

VARIABLES
  conditions,  \* the alarms the device was in when it was last looked at
  prev,        \* those the detector remembers
  rising,      \* onsets of this evaluation still to be fired
  suppressed,  \* codes the server answered with 405
  lastEmit,    \* the limiter: time since it let a code through, at most Window
  told         \* how often the server was told of the present alarm, 0, 1 or 2

alarmVars == <<conditions, prev, rising, suppressed, lastEmit, told>>

AlarmInit ==
  /\ conditions = {} /\ prev = {} /\ rising = {} /\ suppressed = {}
  /\ lastEmit = [c \in Codes |-> Window]
  /\ told = [c \in Codes |-> 0]

\* Time passes for the limiter.
AlarmsLater(d) == [c \in Codes |-> IF lastEmit[c] + d > Window THEN Window ELSE lastEmit[c] + d]

\* Evaluate: every alarm that is on and was not on before is an onset.
Evaluate(next, enabled) ==
  /\ conditions' = next
  /\ prev' = next
  /\ rising' = IF enabled THEN next \ prev ELSE {}
  /\ told' = [c \in Codes |-> IF c \in conditions \cap next THEN told[c] ELSE 0]

\* Mutant: an onset whose LogEvent was not accepted is taken up again.
LatchIfAccepted(c, outcome) == prev' = IF outcome = "ok" THEN prev ELSE prev \ {c}

\* The detector's memory moves on whatever became of the LogEvent.
Latch(c, outcome) == UNCHANGED prev

Allow(c) == lastEmit[c] = Window

\* fireIfRising for an onset the limiter lets through; a LogEvent may reach
\* the server although its POST fails.
PostLogEvent(c, outcome) ==
  /\ c \in rising \ suppressed /\ Allow(c)
  /\ rising' = rising \ {c}
  /\ lastEmit' = [lastEmit EXCEPT ![c] = 0]
  /\ suppressed' = IF outcome = "405" THEN suppressed \cup {c} ELSE suppressed
  /\ told' = [told EXCEPT ![c] = IF outcome \in {"ok", "unanswered"} /\ @ < 2 THEN @ + 1 ELSE @]
  /\ Latch(c, outcome)
  /\ UNCHANGED conditions

\* An onset that is suppressed or rate-limited is dropped.
DropOnset(c) ==
  /\ c \in rising /\ (c \in suppressed \/ ~Allow(c))
  /\ rising' = rising \ {c}
  /\ Latch(c, "dropped")
  /\ UNCHANGED <<conditions, suppressed, lastEmit, told>>

\* An alarm that stays on is told at most once, however long it lasts, also
\* across ticks that cannot read the device, and although the reply to its
\* LogEvent was lost: an onset whose report failed is not repeated.
OnsetToldOnce == \A c \in Codes : told[c] <= 1
=============================================================================
