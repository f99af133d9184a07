-------------------------- MODULE FleetDeviceProofs --------------------------
(***************************************************************************)
(* Proofs about FleetDevice: its invariant, and that it implements         *)
(* SetpointRegister, for any set of callers and any number of setpoints,   *)
(* restarts and faults.                                                    *)
(***************************************************************************)
EXTENDS FleetDevice, TLAPS

\* A caller that holds the device's mutex applies the newest setpoint of all,
\* or none.
NewestTaken(c) ==
  /\ pc[c] \notin {"idle", "queued"} /\ setpoint[c] # None =>
       setpoint[c] = applies /\ lastControls < applies
  /\ pc[c] \in {"set", "step"} => setpoint[c] # None

\* A resync commands the last applied setpoint, to a start of the sidecar that
\* was seen; once commanded only that start's end takes it from the model.
Resyncing(c) ==
  /\ pc[c] \in {"resyncSet", "resyncStep"} => copied[c] = lastControls /\ seen[c] <= gen
  /\ pc[c] = "resyncStep" /\ seen[c] = gen => model >= lastControls

\* A setpoint that was set stays in the model until a restart, which the
\* generation tells: no other request is on the way.
Commanded(c) ==
  pc[c] \in {"step", "get"} /\ setpoint[c] # None =>
    /\ model \in {setpoint[c], 0}
    /\ lastGeneration = gen => model = setpoint[c]
    /\ wire # None => wire.asker = c

\* The request on the wire is its caller's, and no older than the last applied
\* setpoint, also when its caller gave up.
OnTheWire ==
  wire # None =>
    /\ link = "up"
    /\ wire.asker # None => wire.step = pc[wire.asker] /\ wire.value = Value(wire.asker)
    /\ SetsModel => wire.value >= lastControls

IInv ==
  /\ TypeOK
  /\ \A c \in Callers : NewestTaken(c) /\ Resyncing(c) /\ Commanded(c)
  /\ OnTheWire
  /\ lastControls <= applies
  /\ lastGeneration = gen => model >= lastControls
  /\ ~healthy => link # "up"

-----------------------------------------------------------------------------
LEMMA InitInv == Init => IInv
<1> SUFFICES ASSUME Init PROVE IInv
  OBVIOUS
<1>1. TypeOK
  BY BoundsAssumption DEF Init, TypeOK, Setpoints
<1>2. ASSUME NEW c \in Callers PROVE NewestTaken(c) /\ Resyncing(c) /\ Commanded(c)
  BY DEF Init, NewestTaken, Resyncing, Commanded
<1> QED BY <1>1, <1>2 DEF Init, IInv, OnTheWire

LEMMA CallerStepInv ==
  ASSUME IInv, NEW c \in Callers,
         Begin(c) \/ Lock(c) \/ Operate(c) \/ GiveUp(c) \/ Refuse(c)
  PROVE  IInv'
<1> USE BoundsAssumption DEF IInv, TypeOK, NewestTaken, Resyncing, Commanded, OnTheWire, SetsModel,
        Value, CallSteps, Setpoints, callers, device, supervisor, sidecar
<1>1. CASE Begin(c)
  BY <1>1 DEF Begin
<1>2. CASE LockForRead(c)
  BY <1>2 DEF LockForRead
<1>3. CASE LockForApply(c)
  BY <1>3 DEF LockForApply
<1>4. CASE InSync(c)
  BY <1>4 DEF InSync, FirstStep
<1>5. CASE OutOfSync(c)
  BY <1>5 DEF OutOfSync
<1>6. CASE Send(c)
  BY <1>6 DEF Send, Waiting
<1>7. CASE SendFails(c)
  BY <1>7 DEF SendFails, Finish, Waiting
<1>8. CASE GiveUp(c)
  BY <1>8 DEF GiveUp, Fault, Finish, Waiting
<1>9. CASE Refuse(c)
  BY <1>9 DEF Refuse, Fault, Finish, Waiting
<1>10. CASE Answer(c) /\ pc[c] = "resyncSet"
  BY <1>10 DEF Answer, Waiting, Proceed
<1>11. CASE Answer(c) /\ pc[c] = "resyncStep"
  BY <1>11 DEF Answer, Waiting, Proceed, FirstStep
<1>12. CASE Answer(c) /\ pc[c] = "set"
  BY <1>12 DEF Answer, Waiting, Proceed
<1>13. CASE Answer(c) /\ pc[c] = "step"
  BY <1>13 DEF Answer, Waiting, Proceed
<1>14. CASE Answer(c) /\ pc[c] = "get"
  BY <1>14 DEF Answer, Waiting, Proceed
<1>15. Answer(c) => pc[c] \in {"resyncSet", "resyncStep", "set", "step", "get"}
  BY DEF Answer, Waiting
<1> QED BY ONLY <1>1, <1>2, <1>3, <1>4, <1>5, <1>6, <1>7, <1>8, <1>9, <1>10, <1>11, <1>12,
           <1>13, <1>14, <1>15, Begin(c) \/ Lock(c) \/ Operate(c) \/ GiveUp(c) \/ Refuse(c)
       DEF Lock, Operate

LEMMA SidecarStepInv ==
  ASSUME IInv, Drain \/ Die \/ Break \/ SetRestarting \/ SetUp \/ UNCHANGED vars
  PROVE  IInv'
<1> USE BoundsAssumption DEF IInv, TypeOK, NewestTaken, Resyncing, Commanded, OnTheWire, SetsModel,
        Value, CallSteps, Setpoints, callers, device, supervisor, sidecar
<1>1. CASE Drain
  BY <1>1 DEF Drain, Waiting
<1>2. CASE Die
  BY <1>2 DEF Die, Fault, Finish, Waiting
<1>3. CASE Break
  BY <1>3 DEF Break, Fault, Waiting
<1>4. CASE SetRestarting
  BY <1>4 DEF SetRestarting
<1>5. CASE SetUp
  BY <1>5 DEF SetUp
<1>6. CASE UNCHANGED vars
  BY <1>6 DEF vars
<1> QED BY <1>1, <1>2, <1>3, <1>4, <1>5, <1>6

LEMMA NextInv == IInv /\ [Next]_vars => IInv'
BY CallerStepInv, SidecarStepInv DEF Next

\* What the device believes of the sidecar (fleetDevice.lastControls and
\* lastGeneration), the request on the wire and the model agree in every
\* behaviour.
THEOREM Invariance == Spec => []IInv
BY InitInv, NextInv, PTL DEF Spec

\* Every variable keeps its type, and the mutex of a fleetDevice is held exactly
\* while one operation runs.
THEOREM TypeCorrect == Spec => []TypeOK
<1>1. IInv => TypeOK
  BY DEF IInv
<1> QED BY <1>1, Invariance, PTL

\* A restart is never taken for a model in step: resyncAfterRestartLocked records
\* the generation only once the model holds the last applied setpoint again.
THEOREM NoResetUnnoticed == Spec => []NoSilentReset
<1>1. IInv => NoSilentReset
  BY DEF IInv, NoSilentReset
<1> QED BY <1>1, Invariance, PTL

-----------------------------------------------------------------------------
(* The device implements the register.                                     *)

LEMMA InitRefines == Init => Register!Init
BY DEF Init, Register!Init

\* Only an answer, a refusal, a drained or broken request lets a setpoint land.
LEMMA LandRefines ==
  ASSUME IInv, UNCHANGED lastControls,
         wire # None, model' = model \/ (SetsModel /\ model' = wire.value)
  PROVE  [Register!Land]_<<lastControls, model>>
BY DEF IInv, OnTheWire, Register!Land

LEMMA NextRefines ==
  IInv /\ [Next]_vars
    => [Register!Reset \/ Register!Land \/ Register!Report]_<<lastControls, model>>
<1> SUFFICES ASSUME IInv, [Next]_vars
             PROVE  [Register!Reset \/ Register!Land \/ Register!Report]_<<lastControls, model>>
  OBVIOUS
<1> USE DEF callers, device, supervisor, sidecar
<1>1. ASSUME NEW c \in Callers, Answer(c), ~(pc[c] = "get" /\ setpoint[c] # None)
      PROVE  [Register!Land]_<<lastControls, model>>
  <2>1. UNCHANGED lastControls
    BY <1>1 DEF Answer, Waiting, Proceed
  <2>2. wire # None /\ (model' = model \/ (SetsModel /\ model' = wire.value))
    BY <1>1 DEF Answer, Waiting
  <2> QED BY <2>1, <2>2, LandRefines
<1>2. ASSUME NEW c \in Callers, Answer(c), pc[c] = "get", setpoint[c] # None
      PROVE  Register!Report
  <2>1. lastControls' = setpoint[c]
    BY <1>2 DEF Answer, Waiting, Proceed, IInv, TypeOK
  <2>2. UNCHANGED model
    <3>1. wire # None /\ wire.asker = c /\ wire.asker # None
      BY <1>2, BoundsAssumption DEF Answer, Waiting
    <3>2. wire.step = "get"
      BY <3>1, <1>2 DEF IInv, OnTheWire
    <3> QED BY <3>2, <1>2 DEF Answer, SetsModel
  <2>3. setpoint[c] > lastControls
    BY <1>2, BoundsAssumption DEF IInv, TypeOK, NewestTaken, Setpoints
  <2>4. model \in {setpoint[c], 0}
    BY <1>2 DEF IInv, Commanded
  <2> QED BY <2>1, <2>2, <2>3, <2>4 DEF Register!Report
<1>3. ASSUME NEW c \in Callers, Refuse(c)
      PROVE  [Register!Land]_<<lastControls, model>>
  <2>1. UNCHANGED lastControls
    BY <1>3 DEF Refuse
  <2>2. wire # None /\ (model' = model \/ (SetsModel /\ model' = wire.value))
    BY <1>3 DEF Refuse, Waiting
  <2> QED BY <2>1, <2>2, LandRefines
<1>4. CASE Drain \/ Break
  <2>1. UNCHANGED lastControls
    BY <1>4 DEF Drain, Break
  <2>2. wire # None /\ (model' = model \/ (SetsModel /\ model' = wire.value))
    BY <1>4 DEF Drain, Break, Waiting
  <2> QED BY <2>1, <2>2, LandRefines
<1>5. CASE SetUp
  BY <1>5 DEF SetUp, Register!Reset
<1>6. ASSUME NEW c \in Callers,
             \/ Begin(c) \/ Lock(c) \/ InSync(c) \/ OutOfSync(c) \/ Send(c) \/ SendFails(c)
             \/ GiveUp(c)
      PROVE  UNCHANGED <<lastControls, model>>
  BY <1>6 DEF Begin, Lock, LockForRead, LockForApply, InSync, OutOfSync, Send, SendFails, GiveUp
<1>7. CASE Die \/ SetRestarting \/ UNCHANGED vars
  BY <1>7 DEF Die, SetRestarting, vars
<1> QED BY <1>1, <1>2, <1>3, <1>4, <1>5, <1>6, <1>7 DEF Next, Operate

\* No setpoint older than the newest one ApplySetpoint reported ever reaches the
\* model, and what is reported as applied is what the model holds, unless the
\* sidecar restarted meanwhile: the device implements SetpointRegister.
THEOREM Implements == Spec => NewestStands
<1>1. Init => Register!Init
  BY InitRefines
<1> QED BY <1>1, NextRefines, Invariance, PTL DEF Spec, NewestStands, Register!Spec
=============================================================================
