---------------------------- MODULE FleetDevice ----------------------------
(***************************************************************************)
(* One managed device of a fleet, internal/inverter/device/fleet.go, with  *)
(* its transport (internal/sim/gridlabd/transport.go) and as much of the   *)
(* supervisor and the sidecar as it sees.                                  *)
(*                                                                         *)
(* ReadState and ApplySetpoint hold the device's mutex from the read of    *)
(* the sidecar's generation to their end.  If the sidecar restarted since  *)
(* the last operation, they first command the last setpoint again.  The    *)
(* sidecar may die and come back with a fresh model between any two calls, *)
(* and a call may fail although the sidecar carries it out.                *)
(***************************************************************************)
EXTENDS Naturals

CONSTANTS Callers,    \* goroutines that use the device
          None,
          MaxApplies, MaxStarts, MaxFaults  \* bounds of the checked behaviours

ASSUME BoundsAssumption ==
  /\ None \notin Callers /\ None \notin Nat
  /\ MaxApplies \in Nat /\ MaxStarts \in Nat \ {0} /\ MaxFaults \in Nat

VARIABLES
  pc,              \* per caller: the step of its operation, "idle" outside one
  setpoint,        \* per caller: what its ApplySetpoint commands, None in ReadState
  seen,            \* per caller: the generation it resyncs to
  copied,          \* per caller: the setpoint its resync commands
  mu,              \* who holds the device's mutex
  lastControls, lastGeneration,
  healthy, gen,    \* the supervisor: may the client be used, which start is it
  link,            \* the process and its connection: "up", "broken" or "dead"
  wire,            \* the one request that is not answered yet, or None
  model,           \* the setpoint the model behind the sidecar holds
  applies, faults  \* counters the bounds refer to

callers == <<pc, setpoint, seen, copied>>
device == <<mu, lastControls, lastGeneration>>
supervisor == <<healthy, gen>>
sidecar == <<link, wire, model>>
vars == <<callers, device, supervisor, sidecar, applies, faults>>

\* Setpoints are numbered in the order the device takes them; 0 is what a
\* freshly loaded model holds and stands for lastControls = nil.
Setpoints == 1..MaxApplies

CallSteps == {"resyncSet", "resyncStep", "set", "step", "get"}

TypeOK ==
  /\ pc \in [Callers -> {"idle", "queued", "locked"} \cup CallSteps]
  /\ setpoint \in [Callers -> Setpoints \cup {None}]
  /\ seen \in [Callers -> 0..MaxStarts]
  /\ copied \in [Callers -> {0} \cup Setpoints]
  /\ mu \in Callers \cup {None}
  /\ \A c \in Callers : mu = c <=> pc[c] \notin {"idle", "queued"}
  /\ lastControls \in {0} \cup Setpoints
  /\ lastGeneration \in 0..gen
  /\ healthy \in BOOLEAN /\ gen \in 1..MaxStarts
  /\ link \in {"up", "broken", "dead"}
  /\ wire \in [asker : Callers \cup {None}, step : CallSteps, value : {0} \cup Setpoints]
              \cup {None}
  /\ model \in {0} \cup Setpoints
  /\ applies \in 0..MaxApplies /\ faults \in 0..MaxFaults

\* Devices are built once every fleet has started.
Init ==
  /\ pc = [c \in Callers |-> "idle"]
  /\ setpoint = [c \in Callers |-> None]
  /\ seen = [c \in Callers |-> 0]
  /\ copied = [c \in Callers |-> 0]
  /\ mu = None
  /\ lastControls = 0 /\ lastGeneration = 0
  /\ healthy = TRUE /\ gen = 1
  /\ link = "up" /\ wire = None /\ model = 0
  /\ applies = 0 /\ faults = 0

Fault == faults < MaxFaults /\ faults' = faults + 1

-----------------------------------------------------------------------------
(* The device.                                                             *)

\* ReadState or ApplySetpoint starts: Healthy is asked before the mutex.
Begin(c) ==
  /\ pc[c] = "idle" /\ healthy
  /\ pc' = [pc EXCEPT ![c] = "queued"]
  /\ UNCHANGED <<setpoint, seen, copied, device, supervisor, sidecar, applies, faults>>

LockForRead(c) ==
  /\ pc[c] = "queued" /\ mu = None
  /\ mu' = c
  /\ pc' = [pc EXCEPT ![c] = "locked"]
  /\ setpoint' = [setpoint EXCEPT ![c] = None]
  /\ UNCHANGED <<seen, copied, lastControls, lastGeneration, supervisor, sidecar,
                 applies, faults>>

LockForApply(c) ==
  /\ pc[c] = "queued" /\ mu = None /\ applies < MaxApplies
  /\ mu' = c
  /\ pc' = [pc EXCEPT ![c] = "locked"]
  /\ setpoint' = [setpoint EXCEPT ![c] = applies + 1]
  /\ applies' = applies + 1
  /\ UNCHANGED <<seen, copied, lastControls, lastGeneration, supervisor, sidecar, faults>>

\* The first call of the operation itself, after the resync.
FirstStep(c) == IF setpoint[c] = None THEN "get" ELSE "set"

\* resyncAfterRestartLocked reads the generation: nothing to do, ...
InSync(c) ==
  /\ pc[c] = "locked"
  /\ gen = lastGeneration \/ lastControls = 0
  /\ seen' = [seen EXCEPT ![c] = gen]
  /\ lastGeneration' = gen
  /\ pc' = [pc EXCEPT ![c] = FirstStep(c)]
  /\ UNCHANGED <<setpoint, copied, mu, lastControls, supervisor, sidecar, applies, faults>>

\* Mutant: the mutex is released once the setpoint was copied.
OutOfSyncUnlocks(c) ==
  /\ pc[c] = "locked"
  /\ gen # lastGeneration /\ lastControls # 0
  /\ seen' = [seen EXCEPT ![c] = gen]
  /\ copied' = [copied EXCEPT ![c] = lastControls]
  /\ pc' = [pc EXCEPT ![c] = "resyncSet"]
  /\ mu' = None
  /\ UNCHANGED <<setpoint, lastControls, lastGeneration, supervisor, sidecar, applies, faults>>

\* Mutant: the generation is recorded before the resync is through.
OutOfSyncRecords(c) ==
  /\ pc[c] = "locked"
  /\ gen # lastGeneration /\ lastControls # 0
  /\ seen' = [seen EXCEPT ![c] = gen]
  /\ copied' = [copied EXCEPT ![c] = lastControls]
  /\ pc' = [pc EXCEPT ![c] = "resyncSet"]
  /\ lastGeneration' = gen
  /\ UNCHANGED <<setpoint, mu, lastControls, supervisor, sidecar, applies, faults>>

\* ... or the last setpoint to command again.
OutOfSync(c) ==
  /\ pc[c] = "locked"
  /\ gen # lastGeneration /\ lastControls # 0
  /\ seen' = [seen EXCEPT ![c] = gen]
  /\ copied' = [copied EXCEPT ![c] = lastControls]
  /\ pc' = [pc EXCEPT ![c] = "resyncSet"]
  /\ UNCHANGED <<setpoint, device, supervisor, sidecar, applies, faults>>

Value(c) ==
  CASE pc[c] = "resyncSet" -> copied[c]
    [] pc[c] = "set" -> setpoint[c]
    [] OTHER -> 0

\* An operation ends: the deferred unlock.
Finish(c) ==
  /\ pc' = [pc EXCEPT ![c] = "idle"]
  /\ mu' = None

Waiting(c) == wire # None /\ wire.asker = c

\* The transport asks for the connection anew for every call; the client
\* writes when no earlier request is owed an answer.
Send(c) ==
  /\ pc[c] \in CallSteps /\ ~Waiting(c)
  /\ healthy /\ link = "up" /\ wire = None
  /\ wire' = [asker |-> c, step |-> pc[c], value |-> Value(c)]
  /\ UNCHANGED <<callers, device, supervisor, link, model, applies, faults>>

\* The sidecar is down, or its connection broken: the call, and with it the
\* operation, fails.
SendFails(c) ==
  /\ pc[c] \in CallSteps /\ ~Waiting(c)
  /\ ~healthy \/ link # "up"
  /\ Finish(c)
  /\ UNCHANGED <<setpoint, seen, copied, lastControls, lastGeneration, supervisor, sidecar,
                 applies, faults>>

\* The caller's ctx ends, before its request was written or after.
GiveUp(c) ==
  /\ pc[c] \in CallSteps
  /\ Fault
  /\ Finish(c)
  /\ wire' = IF Waiting(c) THEN [wire EXCEPT !.asker = None] ELSE wire
  /\ UNCHANGED <<setpoint, seen, copied, lastControls, lastGeneration, supervisor, link, model,
                 applies>>

\* Mutant: the generation is read again once the resync is through.
ProceedWithLaterGeneration(c) ==
  LET s == pc[c] IN
  /\ pc' = [pc EXCEPT ![c] = CASE s = "resyncSet" -> "resyncStep"
                               [] s = "resyncStep" -> FirstStep(c)
                               [] s = "set" -> "step"
                               [] s = "step" -> "get"
                               [] s = "get" -> "idle"]
  /\ lastGeneration' = IF s = "resyncStep" THEN gen ELSE lastGeneration
  /\ lastControls' = IF s = "get" /\ setpoint[c] # None THEN setpoint[c] ELSE lastControls
  /\ mu' = IF s = "get" THEN None ELSE mu

\* A call of the operation was answered.  The generation counts as reached
\* when the resync's step is through, the setpoint as applied when the
\* read-back is.
Proceed(c) ==
  LET s == pc[c] IN
  /\ pc' = [pc EXCEPT ![c] = CASE s = "resyncSet" -> "resyncStep"
                               [] s = "resyncStep" -> FirstStep(c)
                               [] s = "set" -> "step"
                               [] s = "step" -> "get"
                               [] s = "get" -> "idle"]
  /\ lastGeneration' = IF s = "resyncStep" THEN seen[c] ELSE lastGeneration
  /\ lastControls' = IF s = "get" /\ setpoint[c] # None THEN setpoint[c] ELSE lastControls
  /\ mu' = IF s = "get" THEN None ELSE mu

-----------------------------------------------------------------------------
(* The sidecar and its supervisor.                                         *)

SetsModel == wire.step \in {"resyncSet", "set"}

\* The sidecar carries a request out and its answer arrives.
Answer(c) ==
  /\ Waiting(c)
  /\ wire' = None
  /\ model' = IF SetsModel THEN wire.value ELSE model
  /\ Proceed(c)
  /\ UNCHANGED <<setpoint, seen, copied, supervisor, link, applies, faults>>

\* It refuses one; a Set of two properties may have got half way, and a
\* read-back may hold a value the device cannot use.
Refuse(c) ==
  /\ Waiting(c)
  /\ Fault
  /\ wire' = None
  /\ model' \in IF SetsModel THEN {model, wire.value} ELSE {model}
  /\ Finish(c)
  /\ UNCHANGED <<setpoint, seen, copied, lastControls, lastGeneration, supervisor, link, applies>>

\* The answer to an abandoned request is drained.
Drain ==
  /\ Waiting(None)
  /\ wire' = None
  /\ model' = IF SetsModel THEN wire.value ELSE model
  /\ UNCHANGED <<callers, device, supervisor, link, applies, faults>>

\* The process dies: whoever waits gets an error.
Die ==
  /\ link # "dead"
  /\ Fault
  /\ link' = "dead" /\ wire' = None
  /\ IF \E c \in Callers : Waiting(c)
       THEN Finish(wire.asker)
       ELSE UNCHANGED <<pc, mu>>
  /\ UNCHANGED <<setpoint, seen, copied, lastControls, lastGeneration, supervisor, model, applies>>

\* The answer to an abandoned request is late or wrong: the connection is
\* closed under a process that may or may not have carried it out.
Break ==
  /\ link = "up" /\ Waiting(None)
  /\ Fault
  /\ link' = "broken" /\ wire' = None
  /\ model' \in IF SetsModel THEN {model, wire.value} ELSE {model}
  /\ UNCHANGED <<callers, device, supervisor, applies>>

\* supervise notices the exit or the broken connection.
SetRestarting ==
  /\ healthy /\ link # "up"
  /\ healthy' = FALSE
  /\ UNCHANGED <<callers, device, gen, sidecar, applies, faults>>

\* A restart succeeds: connection and generation change together.
SetUp ==
  /\ ~healthy /\ gen < MaxStarts
  /\ healthy' = TRUE
  /\ gen' = gen + 1
  /\ link' = "up" /\ model' = 0
  /\ UNCHANGED <<callers, device, wire, applies, faults>>

-----------------------------------------------------------------------------
Lock(c) == LockForRead(c) \/ LockForApply(c)

Operate(c) == InSync(c) \/ OutOfSync(c) \/ Send(c) \/ SendFails(c) \/ Answer(c)

Next ==
  \/ \E c \in Callers : Begin(c) \/ Lock(c) \/ Operate(c) \/ GiveUp(c) \/ Refuse(c)
  \/ Drain \/ Die \/ Break \/ SetRestarting \/ SetUp

Spec == Init /\ [][Next]_vars

\* The tick reads the device again and again, sync.Mutex starves nobody, the
\* sidecar answers while it lives, and the supervisor notices its end.
FairSpec ==
  /\ Spec
  /\ \A c \in Callers : WF_vars(Begin(c)) /\ SF_vars(Lock(c)) /\ WF_vars(Operate(c))
  /\ WF_vars(Drain) /\ WF_vars(SetRestarting)

-----------------------------------------------------------------------------
(* Properties.                                                             *)

Register == INSTANCE SetpointRegister WITH commanded <- lastControls, held <- model

\* The device implements the register: no setpoint older than the one last
\* reported as applied reaches the model, not even from a resync or from a
\* Set whose caller gave up, and none is reported as applied while the model
\* holds another one (fleet.go:150-160).
NewestStands == Register!Spec

\* A device that takes itself to be in step with the running sidecar's model
\* is: the model holds the last applied setpoint or a newer one, never the
\* zero of a restart that went unnoticed (fleet.go:138-147).
NoSilentReset ==
  healthy /\ link # "dead" /\ lastControls # 0 /\ lastGeneration = gen => model >= lastControls

\* After the last fault a sidecar that stays up gets the setpoint back: one
\* restart never ends a device's contribution (fleet.go:145-147).
SetpointComesBack ==
  lastControls # 0 ~> (model >= lastControls \/ link # "up" \/ ~healthy)
=============================================================================
