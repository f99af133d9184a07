----------------------------- MODULE FleetProofs -----------------------------
(***************************************************************************)
(* Proofs about FleetSupervisors, for any set of fleets, any restart       *)
(* budget and any number of faults.                                        *)
(***************************************************************************)
EXTENDS FleetSupervisors, TLAPS

\* Where Run holds a process that was launched and not yet reaped.
HoldsProcess == {"connect", "hello", "supervise", "kill", "reap", "shutdown", "grace", "term"}

\* Where Run is on its way out although its process has not exited yet.
ShuttingDown(f) ==
  run[f] \in {"shutdown", "grace", "term"} \/ after[f] = "done"

\* The place of Run says what it owns: a process from its launch until its exit
\* is taken, a connection from the dial until it is closed.
Ownership(f) ==
  /\ run[f] \in HoldsProcess => proc[f] \in {"running", "exited"}
  /\ run[f] \notin HoldsProcess => proc[f] \in {"none", "reaped"}
  /\ run[f] = "reap" => proc[f] = "exited"
  /\ run[f] \in {"hello", "supervise"} => conn[f] \in {"open", "broken"}
  /\ state[f] = "Up" <=> run[f] = "supervise"
  /\ after[f] # "none" <=> run[f] \in {"kill", "reap"}

\* Where Run is once its fleet came up.
CameUp(f) ==
  run[f] \in {"supervise", "close", "check", "backoff"} \/ after[f] = "check" \/ ShuttingDown(f)

\* How often a fleet came up agrees with what its first start was told, and a
\* Run that began has overtaken every Stop that did not wait for it.
FirstStart(f) ==
  /\ startErr[f] = "unset" => gen[f] = 0
  /\ startErr[f] = "ok" => gen[f] > 0
  /\ run[f] = "unborn" => startErr[f] = "unset"
  /\ run[f] # "done" => startErr[f] \in {"unset", "ok"}
  /\ CameUp(f) => startErr[f] = "ok"
  /\ waited[f] = "ok" => startErr[f] = "ok"
  /\ run[f] \notin {"unborn", "done"} => started[f] /\ ~stopped[f]

\* What is reported on the way out, and why, and what is left behind.
Outcome(f) ==
  /\ ShuttingDown(f) => state[f] = "Stopped" /\ Asked(f)
  /\ run[f] = "done" /\ state[f] = "Stopped" /\ gen[f] > 0 => ~socket[f]

IInv ==
  /\ TypeOK
  /\ \A f \in Fleets : Ownership(f) /\ FirstStart(f) /\ Outcome(f)
  /\ starter = "up" => \A f \in Fleets : waited[f] = "ok"

-----------------------------------------------------------------------------
(* A step of Run, whichever fleet's.                                       *)

\* A start that failed, its process reaped or never launched: the first one
\* ends Run, a later one is tried again.
LEMMA StartFailedInv ==
  ASSUME IInv, NEW f \in Fleets, StartFailed(f),
         run[f] \in {"launch", "connect", "reap"}, run[f] = "reap" => after[f] = "startFailed",
         NEW p \in {"none", "reaped"}, proc' = [proc EXCEPT ![f] = p],
         NEW c \in {"none", "open", "broken", "closed"}, conn' = [conn EXCEPT ![f] = c],
         NEW s \in BOOLEAN, socket' = [socket EXCEPT ![f] = s],
         after' = [after EXCEPT ![f] = "none"],
         UNCHANGED <<ctxDone, starter, waited, gen, started, stopped, stopCh, restarts, stop>>
  PROVE  IInv'
<1>1. PICK place \in {"done", "check"},
           st \in {"Starting", "Restarting", "Down", "Stopped"},
           err \in {"ok", "refused", "cancelled"} :
        /\ run' = [run EXCEPT ![f] = place] /\ state' = [state EXCEPT ![f] = st]
        /\ startErr' = [startErr EXCEPT ![f] = err]
        /\ startErr[f] = "ok" <=> err = "ok"
        /\ place = "done" => err # "ok" /\ startErr[f] = "unset"
        /\ place = "check" => err = "ok"
  <2> USE DEF IInv, TypeOK, Goto, Exit, SetState, MarkStarted
  <2>1. CASE startErr[f] = "unset" /\ ctxDone
    <3>1. /\ run' = [run EXCEPT ![f] = "done"] /\ state' = [state EXCEPT ![f] = "Stopped"]
          /\ startErr' = [startErr EXCEPT ![f] = "cancelled"]
      BY <2>1 DEF StartFailed
    <3> QED BY ONLY <2>1, <3>1
  <2>2. CASE startErr[f] = "unset" /\ ~ctxDone
    <3>1. /\ run' = [run EXCEPT ![f] = "done"] /\ state' = [state EXCEPT ![f] = "Down"]
          /\ startErr' = [startErr EXCEPT ![f] = "refused"]
      BY <2>2 DEF StartFailed
    <3> QED BY ONLY <2>2, <3>1
  <2>3. CASE startErr[f] # "unset"
    <3>1. /\ run' = [run EXCEPT ![f] = "check"] /\ state' = [state EXCEPT ![f] = state[f]]
          /\ startErr' = [startErr EXCEPT ![f] = startErr[f]]
      BY <2>3 DEF StartFailed
    <3>2. /\ state[f] \in {"Starting", "Restarting", "Down", "Stopped"}
          /\ startErr[f] = "ok"
      BY <2>3 DEF Ownership, FirstStart
    <3> QED BY ONLY <3>1, <3>2
  <2> QED BY <2>1, <2>2, <2>3
<1>2. TypeOK'
  BY ONLY IInv, <1>1, proc' = [proc EXCEPT ![f] = p], conn' = [conn EXCEPT ![f] = c],
          socket' = [socket EXCEPT ![f] = s], after' = [after EXCEPT ![f] = "none"],
          UNCHANGED <<ctxDone, starter, waited, gen, started, stopped, stopCh, restarts, stop>>
     DEF IInv, TypeOK
<1>3. /\ run'[f] = place /\ state'[f] = st /\ startErr'[f] = err
      /\ proc'[f] = p /\ after'[f] = "none" /\ gen'[f] = gen[f] /\ waited'[f] = waited[f]
  BY <1>1 DEF IInv, TypeOK
<1>4. Ownership(f)' /\ FirstStart(f)' /\ Outcome(f)'
  <2>1. Ownership(f)'
    BY <1>3 DEF Ownership, HoldsProcess
  <2>2. FirstStart(f)'
    BY <1>1, <1>3 DEF IInv, FirstStart, CameUp, ShuttingDown
  <2>3. gen[f] = 0 \/ startErr[f] # "unset"
    BY DEF IInv, FirstStart
  <2>4. Outcome(f)'
    BY <1>1, <1>3, <2>3 DEF Outcome, Asked, CameUp, ShuttingDown
  <2> QED BY <2>1, <2>2, <2>4
<1>5. ASSUME NEW g \in Fleets, g # f PROVE Ownership(g)' /\ FirstStart(g)' /\ Outcome(g)'
  <2>1. /\ run'[g] = run[g] /\ state'[g] = state[g] /\ startErr'[g] = startErr[g]
        /\ proc'[g] = proc[g] /\ after'[g] = after[g]
        /\ gen'[g] = gen[g] /\ waited'[g] = waited[g] /\ conn'[g] = conn[g]
        /\ socket'[g] = socket[g] /\ UNCHANGED <<ctxDone, started, stopped, stopCh>>
    BY <1>1, <1>5 DEF IInv, TypeOK
  <2>2. Ownership(g) /\ FirstStart(g) /\ Outcome(g)
    BY DEF IInv
  <2> QED BY ONLY <2>1, <2>2 DEF Ownership, FirstStart, Outcome, Asked, CameUp, ShuttingDown
<1> QED BY <1>2, <1>4, <1>5 DEF IInv

LEMMA RunStepInv ==
  ASSUME IInv, NEW f \in Fleets, RunStep(f)
  PROVE  IInv'
<1> USE FleetsAssumption DEF IInv, TypeOK, Ownership, FirstStart, Outcome, Asked, CameUp, ShuttingDown,
        HoldsProcess, Goto, Exit, SetState, MarkStarted, KillThen, StartFailed,
        starterVars, supVars, runVars, sidecarVars
<1>1. CASE Begin(f)
  <2>1. CASE stopped[f]
    <3>1. TypeOK'
      BY <1>1, <2>1 DEF Begin
    <3>2. \A g \in Fleets : Ownership(g)' /\ FirstStart(g)' /\ Outcome(g)'
      BY <1>1, <2>1 DEF Begin
    <3>3. starter' = starter /\ waited' = waited
      BY <1>1, <2>1 DEF Begin
    <3> QED BY <3>1, <3>2, <3>3
  <2>2. CASE ~stopped[f]
    <3>0. /\ started' = [started EXCEPT ![f] = TRUE] /\ run' = [run EXCEPT ![f] = "launch"]
          /\ UNCHANGED <<ctxDone, starter, waited, after, state, gen, stopped, stopCh,
                         startErr, restarts, stop, proc, conn, socket>>
      BY <1>1, <2>2 DEF Begin
    <3>1. TypeOK'
      BY ONLY <3>0, TypeOK DEF TypeOK
    <3>2. \A g \in Fleets : Ownership(g)' /\ FirstStart(g)' /\ Outcome(g)'
      BY <1>1, <2>2 DEF Begin
    <3>3. starter' = starter /\ waited' = waited
      BY <1>1, <2>2 DEF Begin
    <3> QED BY <3>1, <3>2, <3>3
  <2> QED BY <1>1, <2>1, <2>2 DEF Begin
<1>2. CASE Launch(f)
  <2>1. CASE proc' = [proc EXCEPT ![f] = "running"] /\ Goto(f, "connect") /\ UNCHANGED <<state, startErr>>
    BY <1>2, <2>1 DEF Launch
  <2>2. CASE StartFailed(f) /\ UNCHANGED proc
    <3>1. proc[f] \in {"none", "reaped"} /\ after[f] = "none"
      BY <1>2 DEF Launch
    <3>2. proc' = [proc EXCEPT ![f] = proc[f]] /\ after' = [after EXCEPT ![f] = "none"]
      BY <1>2, <2>2, <3>1 DEF Launch
    <3>3. /\ run[f] = "launch" /\ conn' = [conn EXCEPT ![f] = "none"]
          /\ socket' = [socket EXCEPT ![f] = FALSE]
          /\ UNCHANGED <<ctxDone, starter, waited, gen, started, stopped, stopCh, restarts, stop>>
      BY <1>2 DEF Launch
    <3> HIDE DEF IInv, TypeOK, Ownership, StartFailed
    <3>4. proc[f] \in {"none", "reaped"} /\ FALSE \in BOOLEAN /\ run[f] # "reap"
      BY <3>1, <3>3
    <3> QED BY ONLY IInv, <2>2, <3>2, <3>3, <3>4, StartFailedInv
  <2> QED BY <1>2, <2>1, <2>2 DEF Launch
<1>3. CASE Connect(f)
  BY <1>3 DEF Connect
<1>4. CASE ConnectSeesExit(f)
  <2>1. /\ run[f] = "connect" /\ StartFailed(f) /\ after[f] = "none"
        /\ conn[f] \in {"none", "open", "broken", "closed"} /\ socket[f] \in BOOLEAN
    BY <1>4 DEF ConnectSeesExit
  <2>2. /\ proc' = [proc EXCEPT ![f] = "reaped"] /\ after' = [after EXCEPT ![f] = "none"]
        /\ conn' = [conn EXCEPT ![f] = conn[f]] /\ socket' = [socket EXCEPT ![f] = socket[f]]
        /\ UNCHANGED <<ctxDone, starter, waited, gen, started, stopped, stopCh, restarts, stop>>
    BY <1>4, <2>1 DEF ConnectSeesExit
  <2> HIDE DEF IInv, TypeOK, Ownership, StartFailed
  <2> QED BY ONLY IInv, <2>1, <2>2, StartFailedInv
<1>5. CASE ConnectFails(f)
  <2>1. CASE UNCHANGED socket
    BY <1>5, <2>1 DEF ConnectFails
  <2>2. CASE socket' = [socket EXCEPT ![f] = TRUE]
    BY <1>5, <2>2 DEF ConnectFails
  <2> QED BY <1>5, <2>1, <2>2 DEF ConnectFails
<1>6. CASE HelloFails(f)
  BY <1>6 DEF HelloFails
<1>7. CASE HelloOK(f)
  BY <1>7 DEF HelloOK
<1>8. CASE SuperviseEnds(f)
  BY <1>8 DEF SuperviseEnds
<1>9. CASE SuperviseSeesExit(f)
  BY <1>9 DEF SuperviseSeesExit
<1>10. CASE SuperviseSeesBroken(f)
  BY <1>10 DEF SuperviseSeesBroken
<1>11. CASE CloseClient(f)
  BY <1>11 DEF CloseClient
<1>12. CASE Kill(f)
  BY <1>12 DEF Kill
<1>13. CASE Reap(f)
  <2>1. CASE after[f] = "startFailed"
    <3>1. /\ run[f] = "reap" /\ StartFailed(f)
          /\ conn[f] \in {"none", "open", "broken", "closed"} /\ socket[f] \in BOOLEAN
      BY <1>13, <2>1 DEF Reap
    <3>2. /\ proc' = [proc EXCEPT ![f] = "reaped"] /\ after' = [after EXCEPT ![f] = "none"]
          /\ conn' = [conn EXCEPT ![f] = conn[f]] /\ socket' = [socket EXCEPT ![f] = socket[f]]
          /\ UNCHANGED <<ctxDone, starter, waited, gen, started, stopped, stopCh, restarts, stop>>
      BY <1>13, <2>1 DEF Reap
    <3> HIDE DEF IInv, TypeOK, Ownership, StartFailed
    <3> QED BY ONLY IInv, <2>1, <3>1, <3>2, StartFailedInv
  <2>2. CASE after[f] = "check"
    BY <1>13, <2>2 DEF Reap
  <2>3. CASE after[f] = "done"
    <3>0. /\ run' = [run EXCEPT ![f] = "done"] /\ socket' = [socket EXCEPT ![f] = FALSE]
          /\ proc' = [proc EXCEPT ![f] = "reaped"] /\ after' = [after EXCEPT ![f] = "none"]
          /\ UNCHANGED <<ctxDone, starter, waited, state, gen, started, stopped, stopCh,
                         startErr, restarts, stop, conn>>
      BY <1>13, <2>3 DEF Reap
    <3>1. TypeOK'
      BY ONLY <3>0, TypeOK DEF TypeOK
    <3>2. \A g \in Fleets : Ownership(g)' /\ FirstStart(g)' /\ Outcome(g)'
      BY <1>13, <2>3 DEF Reap
    <3>3. starter' = starter /\ waited' = waited
      BY <1>13, <2>3 DEF Reap
    <3> QED BY <3>1, <3>2, <3>3
  <2> QED BY <1>13, <2>1, <2>2, <2>3 DEF Reap
<1>14. CASE Check(f)
  <2>1. CASE ExitDuringRestart(f)
    BY <1>14, <2>1 DEF Check, ExitDuringRestart
  <2>2. ASSUME NEW kept \in 0..restarts[f], kept >= MaxRestarts,
               SpendAttempt(f, kept), UNCHANGED socket
        PROVE  IInv'
    BY <1>14, <2>2 DEF Check, SpendAttempt
  <2>3. ASSUME NEW kept \in 0..restarts[f], ~(kept >= MaxRestarts),
               SpendAttempt(f, kept), UNCHANGED socket
        PROVE  IInv'
    BY <1>14, <2>3 DEF Check, SpendAttempt
  <2> QED BY <1>14, <2>1, <2>2, <2>3 DEF Check
<1>15. CASE Backoff(f)
  <2>1. CASE Goto(f, "launch") /\ UNCHANGED <<state, socket, restarts>>
    BY <1>15, <2>1 DEF Backoff, ExitDuringRestart
  <2>2. CASE ExitDuringRestart(f)
    BY <1>15, <2>2 DEF Backoff, ExitDuringRestart
  <2> QED BY <1>15, <2>1, <2>2 DEF Backoff, ExitDuringRestart
<1>16. CASE AskShutdown(f)
  BY <1>16 DEF AskShutdown
<1>17. CASE GraceExit(f)
  BY <1>17 DEF GraceExit
<1>18. CASE GracePasses(f)
  BY <1>18 DEF GracePasses
<1> QED BY <1>1, <1>2, <1>3, <1>4, <1>5, <1>6, <1>7, <1>8, <1>9, <1>10, <1>11, <1>12, <1>13, <1>14, <1>15, <1>16, <1>17, <1>18 DEF RunStep

-----------------------------------------------------------------------------
(* The other steps: startFleets, Stop, main and the environment.           *)

LEMMA FleetStepInv ==
  ASSUME IInv, NEW f \in Fleets,
         WaitStarted(f) \/ StopCalled(f) \/ StopReturns(f) \/ ProcExits(f) \/ ConnBreaks(f)
  PROVE  IInv'
<1> USE DEF IInv, TypeOK, Ownership, FirstStart, Outcome, Asked, CameUp, ShuttingDown, HoldsProcess,
            starterVars, supVars, runVars, sidecarVars
<1>1. CASE WaitStarted(f)
  <2>1. CASE startErr[f] # "unset" /\ waited' = [waited EXCEPT ![f] = startErr[f]]
    BY <1>1, <2>1 DEF WaitStarted
  <2>2. CASE waited' = [waited EXCEPT ![f] = "cancelled"]
    BY <1>1, <2>2 DEF WaitStarted
  <2> QED BY <1>1, <2>1, <2>2 DEF WaitStarted
<1>2. CASE StopCalled(f)
  <2>1. CASE started[f]
    BY <1>2, <2>1 DEF StopCalled
  <2>2. CASE ~started[f]
    <3>0. /\ stopped' = [stopped EXCEPT ![f] = TRUE] /\ stop' = [stop EXCEPT ![f] = "returned"]
          /\ UNCHANGED <<ctxDone, starter, waited, run, after, state, gen, started,
                         stopCh, startErr, restarts, proc, conn, socket>>
      BY <1>2, <2>2 DEF StopCalled
    <3>1. TypeOK'
      BY ONLY <3>0, TypeOK DEF TypeOK
    <3>2. ASSUME NEW g \in Fleets
          PROVE  Ownership(g)' /\ FirstStart(g)' /\ Outcome(g)'
      <4>1. Ownership(g) /\ FirstStart(g) /\ Outcome(g) /\ run[f] \in {"unborn", "done"}
        BY ONLY IInv, <2>2 DEF IInv, FirstStart
      <4>2. /\ stopped[g] => stopped'[g]
            /\ g # f => stopped'[g] = stopped[g]
        BY ONLY <3>0, TypeOK DEF TypeOK
      <4> QED BY ONLY <3>0, <4>1, <4>2 DEF Ownership, FirstStart, Outcome, Asked, CameUp, ShuttingDown
    <3> QED BY <3>0, <3>1, <3>2
  <2> QED BY ONLY <2>1, <2>2
<1>3. CASE StopReturns(f)
  BY <1>3 DEF StopReturns
<1>4. CASE ProcExits(f)
  <2>1. CASE socket' = socket
    BY <1>4, <2>1 DEF ProcExits
  <2>2. CASE socket' = [socket EXCEPT ![f] = FALSE]
    BY <1>4, <2>2 DEF ProcExits
  <2>3. socket' = socket \/ socket' = [socket EXCEPT ![f] = FALSE]
    BY ONLY <1>4 DEF ProcExits
  <2> QED BY ONLY <2>1, <2>2, <2>3
<1>5. CASE ConnBreaks(f)
  BY <1>5 DEF ConnBreaks
<1> QED BY <1>1, <1>2, <1>3, <1>4, <1>5

LEMMA CommonStepInv ==
  ASSUME IInv, StartersDecide \/ MainEnds \/ StoppedAll \/ Signal \/ UNCHANGED vars
  PROVE  IInv'
<1> USE DEF IInv, TypeOK, Ownership, FirstStart, Outcome, Asked, CameUp, ShuttingDown, HoldsProcess,
            starterVars, supVars, runVars, sidecarVars
<1>1. CASE StartersDecide
  BY <1>1 DEF StartersDecide
<1>2. CASE MainEnds
  BY <1>2 DEF MainEnds
<1>3. CASE StoppedAll
  BY <1>3 DEF StoppedAll
<1>4. CASE Signal
  BY <1>4 DEF Signal
<1>5. CASE UNCHANGED vars
  BY <1>5 DEF vars
<1> QED BY <1>1, <1>2, <1>3, <1>4, <1>5

-----------------------------------------------------------------------------
(* The theorems.                                                           *)

LEMMA InitInv == Init => IInv
<1> SUFFICES ASSUME Init PROVE IInv
  OBVIOUS
<1>1. TypeOK
  <2>1. /\ started \in [Fleets -> BOOLEAN] /\ stopped \in [Fleets -> BOOLEAN]
        /\ socket \in [Fleets -> BOOLEAN]
    BY DEF Init, All
  <2>2. /\ waited \in [Fleets -> {"none", "ok", "refused", "cancelled"}]
        /\ after \in [Fleets -> {"none", "startFailed", "check", "done"}]
        /\ stop \in [Fleets -> {"none", "waiting", "returned"}]
    BY DEF Init, All
  <2>3. /\ proc \in [Fleets -> {"none", "running", "exited", "reaped"}]
        /\ conn \in [Fleets -> {"none", "open", "broken", "closed"}]
        /\ state \in [Fleets -> {"Starting", "Up", "Restarting", "Down", "Stopped"}]
        /\ stopCh \in [Fleets -> {"open", "closed"}]
        /\ startErr \in [Fleets -> {"unset", "ok", "refused", "cancelled"}]
    BY DEF Init, All
  <2>4. gen \in [Fleets -> Nat] /\ restarts \in [Fleets -> 0 .. MaxRestarts]
    BY FleetsAssumption DEF Init, All
  <2>5. /\ run \in [Fleets -> {"unborn", "launch", "connect", "hello", "supervise", "close",
                               "kill", "reap", "check", "backoff", "shutdown", "grace", "term",
                               "done"}]
        /\ ctxDone \in BOOLEAN /\ starter \in {"waiting", "up", "stopping", "stopped"}
    BY DEF Init, All
  <2> QED BY <2>1, <2>2, <2>3, <2>4, <2>5 DEF TypeOK
<1>2. ASSUME NEW f \in Fleets
      PROVE  Ownership(f) /\ FirstStart(f) /\ Outcome(f)
  <2>1. /\ run[f] = "unborn" /\ proc[f] = "none" /\ state[f] = "Starting" /\ after[f] = "none"
        /\ startErr[f] = "unset" /\ gen[f] = 0 /\ waited[f] = "none"
    BY DEF Init, All
  <2> QED BY <2>1 DEF Ownership, FirstStart, Outcome, Asked, CameUp, ShuttingDown, HoldsProcess
<1> QED BY <1>1, <1>2 DEF IInv, Init

LEMMA NextInv == IInv /\ [Next]_vars => IInv'
BY RunStepInv, FleetStepInv, CommonStepInv DEF Next

\* Where each Run is (Supervisor.Run and what it calls) fixes what it owns, what
\* it reported and how it will return, in every behaviour.
THEOREM Invariance == Spec => []IInv
BY InitInv, NextInv, PTL DEF Spec

\* The fields of every Supervisor and the state of startFleets keep their types;
\* in particular the restart budget is never exceeded (takeRestart).
THEOREM TypeCorrect == Spec => []TypeOK
<1>1. IInv => TypeOK
  BY DEF IInv
<1> QED BY <1>1, Invariance, PTL

\* A Run that returned, or that starts its sidecar again, has taken the exit of
\* the one it launched (waitForSocket, killAndReap, shutdown), and a stopped
\* fleet that was up has no socket file: none is orphaned.
THEOREM LeavesNothing == Spec => []NothingLeftBehind
<1>1. IInv => NothingLeftBehind
  BY DEF IInv, TypeOK, Ownership, Outcome, HoldsProcess, NothingLeftBehind, NoOrphan, NoSocketLeft
<1> QED BY <1>1, Invariance, PTL

\* startFleets hands main the fleets only when each of them came up.
THEOREM AllUpOrNone == Spec => []UpTogether
<1>1. IInv => UpTogether
  BY DEF IInv, FirstStart, UpTogether
<1> QED BY <1>1, Invariance, PTL

\* A fleet reported Up has a connection its supervisor did not close: setState
\* withdraws the client before Close.
THEOREM UpHasConnection == Spec => []UpIsConnected
<1>1. IInv => UpIsConnected
  BY DEF IInv, Ownership, UpIsConnected
<1> QED BY <1>1, Invariance, PTL

-----------------------------------------------------------------------------
(* How Run returns.                                                        *)

\* A step of Run that is its last reports what it should.
LEMMA LastStepReports ==
  ASSUME IInv, NEW f \in Fleets, RunStep(f), run'[f] = "done"
  PROVE  run[f] # "done" /\ state'[f] = IF Asked(f) THEN "Stopped" ELSE "Down"
<1> DEFINE Reports == run[f] # "done" /\ state'[f] = IF Asked(f) THEN "Stopped" ELSE "Down"
<1>1. ASSUME StartFailed(f), run[f] \in {"launch", "connect", "reap"}
      PROVE  Reports
  <2>1. startErr[f] = "unset"
    BY <1>1 DEF StartFailed, Goto, IInv, TypeOK
  <2>2. gen[f] = 0 /\ ~stopped[f]
    BY <1>1, <2>1 DEF IInv, FirstStart
  <2> QED BY <1>1, <2>1, <2>2 DEF StartFailed, SetState, Asked, IInv, TypeOK
<1>2. ASSUME ExitDuringRestart(f), run[f] \in {"check", "backoff"}
      PROVE  Reports
  <2>1. gen[f] > 0
    BY <1>2 DEF IInv, FirstStart, CameUp
  <2> QED BY <1>2, <2>1 DEF ExitDuringRestart, SetState, Asked, IInv, TypeOK
<1>3. CASE Begin(f)
  BY <1>3 DEF Begin, Goto, SetState, Asked, IInv, TypeOK
<1>4. CASE Launch(f) \/ ConnectSeesExit(f)
  BY <1>4, <1>1 DEF Launch, ConnectSeesExit, Goto, IInv, TypeOK
<1>5. CASE Reap(f)
  <2>1. CASE after[f] = "startFailed"
    BY <1>5, <2>1, <1>1 DEF Reap
  <2>2. CASE after[f] = "done"
    BY <1>5, <2>2 DEF Reap, IInv, Outcome, ShuttingDown
  <2>3. CASE after[f] = "check"
    BY <1>5, <2>3 DEF Reap, Goto, IInv, TypeOK
  <2>4. after[f] \in {"none", "startFailed", "check", "done"} /\ run[f] = "reap"
    BY <1>5 DEF Reap, IInv, TypeOK
  <2>5. after[f] # "none"
    BY <2>4 DEF IInv, Ownership
  <2> QED BY ONLY <2>1, <2>2, <2>3, <2>4, <2>5
<1>6. CASE Check(f)
  <2>1. ASSUME NEW kept \in 0 .. restarts[f], ~ctxDone, stopCh[f] = "open", SpendAttempt(f, kept)
        PROVE  Reports
    <3>1. run[f] = "check" /\ ~stopped[f]
      BY <1>6 DEF Check, IInv, FirstStart
    <3> QED BY <2>1, <3>1 DEF SpendAttempt, Goto, SetState, Asked, IInv, TypeOK
  <2> QED BY <1>6, <1>2, <2>1 DEF Check
<1>7. CASE Backoff(f)
  BY <1>7, <1>2 DEF Backoff, Goto, IInv, TypeOK
<1>8. CASE GraceExit(f)
  BY <1>8 DEF GraceExit, IInv, Outcome, ShuttingDown, supVars
<1>9. CASE \/ Connect(f) \/ ConnectFails(f) \/ HelloFails(f) \/ HelloOK(f) \/ SuperviseEnds(f)
           \/ SuperviseSeesExit(f) \/ SuperviseSeesBroken(f) \/ CloseClient(f) \/ Kill(f)
           \/ AskShutdown(f) \/ GracePasses(f)
  BY <1>9 DEF Connect, ConnectFails, HelloFails, HelloOK, SuperviseEnds, SuperviseSeesExit,
              SuperviseSeesBroken, CloseClient, Kill, AskShutdown, GracePasses, Goto, KillThen,
              IInv, TypeOK
<1> QED BY <1>3, <1>4, <1>5, <1>6, <1>7, <1>8, <1>9 DEF RunStep

\* A step that is not of its Run leaves a fleet's place and its state alone.
LEMMA OthersKeep ==
  ASSUME IInv, NEW f \in Fleets, [Next]_vars, ~RunStep(f)
  PROVE  run'[f] = run[f] /\ state'[f] = state[f]
<1>1. ASSUME NEW g \in Fleets \ {f}, RunStep(g)
      PROVE  run'[f] = run[f] /\ state'[f] = state[f]
  <2> USE <1>1 DEF IInv, TypeOK, Goto, Exit, SetState, KillThen, StartFailed, supVars
  <2>1. CASE Begin(g) \/ Launch(g) \/ Connect(g) \/ ConnectSeesExit(g) \/ ConnectFails(g)
    BY <2>1 DEF Begin, Launch, Connect, ConnectSeesExit, ConnectFails
  <2>2. CASE HelloFails(g) \/ HelloOK(g) \/ SuperviseEnds(g) \/ SuperviseSeesExit(g)
             \/ SuperviseSeesBroken(g) \/ CloseClient(g) \/ Kill(g)
    BY <2>2 DEF HelloFails, HelloOK, SuperviseEnds, SuperviseSeesExit, SuperviseSeesBroken,
                CloseClient, Kill
  <2>3. CASE Reap(g)
    <3>1. after[g] \in {"startFailed", "check", "done"}
      <4>1. run[g] = "reap" /\ after[g] \in {"none", "startFailed", "check", "done"}
        BY <2>3 DEF Reap
      <4> QED BY <4>1 DEF Ownership
    <3>2. CASE after[g] = "startFailed"
      BY <2>3, <3>2 DEF Reap
    <3>3. CASE after[g] = "check"
      BY <2>3, <3>3 DEF Reap
    <3>4. CASE after[g] = "done"
      BY <2>3, <3>4 DEF Reap
    <3> QED BY ONLY <3>1, <3>2, <3>3, <3>4
  <2>4. CASE Check(g) \/ Backoff(g)
    BY <2>4 DEF Check, Backoff, SpendAttempt, ExitDuringRestart
  <2>5. CASE AskShutdown(g) \/ GraceExit(g) \/ GracePasses(g)
    BY <2>5 DEF AskShutdown, GraceExit, GracePasses
  <2>6. \/ Begin(g) \/ Launch(g) \/ Connect(g) \/ ConnectSeesExit(g) \/ ConnectFails(g)
        \/ HelloFails(g) \/ HelloOK(g) \/ SuperviseEnds(g) \/ SuperviseSeesExit(g)
        \/ SuperviseSeesBroken(g) \/ CloseClient(g) \/ Kill(g) \/ Reap(g) \/ Check(g)
        \/ Backoff(g) \/ AskShutdown(g) \/ GraceExit(g) \/ GracePasses(g)
    BY ONLY <1>1 DEF RunStep
  <2> QED BY ONLY <2>1, <2>2, <2>3, <2>4, <2>5, <2>6
<1>2. ASSUME NEW g \in Fleets,
             \/ WaitStarted(g) \/ StopCalled(g) \/ StopReturns(g) \/ ProcExits(g) \/ ConnBreaks(g)
      PROVE  UNCHANGED <<run, state>>
  BY <1>2 DEF WaitStarted, StopCalled, StopReturns, ProcExits, ConnBreaks, runVars, supVars
<1>3. ASSUME StartersDecide \/ MainEnds \/ StoppedAll \/ Signal \/ UNCHANGED vars
      PROVE  UNCHANGED <<run, state>>
  BY <1>3 DEF StartersDecide, MainEnds, StoppedAll, Signal, vars, runVars, supVars
<1> QED BY <1>1, <1>2, <1>3 DEF Next

\* A Run that returned takes no step.
LEMMA NoneAfterDone == ASSUME NEW f \in Fleets, run[f] = "done" PROVE ~RunStep(f)
BY DEF RunStep, Begin, Launch, Connect, ConnectSeesExit, ConnectFails, HelloFails, HelloOK,
       SuperviseEnds, SuperviseSeesExit, SuperviseSeesBroken, CloseClient, Kill, Reap, Check,
       Backoff, AskShutdown, GraceExit, GracePasses

\* The state a Run leaves is final and says why it returned: Stopped when a
\* signal or a Stop came before it was decided, whatever is left of the budget,
\* and Down for a refused first start or an exhausted budget.
THEOREM StateIsFinal == Spec => FinalState
<1>1. ASSUME IInv, [Next]_vars, NEW f \in Fleets
      PROVE  /\ run[f] = "done" => run'[f] = "done" /\ state'[f] = state[f]
             /\ run[f] # "done" /\ run'[f] = "done" =>
                  state'[f] = IF Asked(f) THEN "Stopped" ELSE "Down"
  <2>1. CASE RunStep(f)
    BY <1>1, <2>1, LastStepReports, NoneAfterDone
  <2>2. CASE ~RunStep(f)
    BY <1>1, <2>2, OthersKeep
  <2> QED BY <2>1, <2>2
<1>2. IInv /\ [Next]_vars =>
        [\A f \in Fleets :
           /\ run[f] = "done" => run'[f] = "done" /\ state'[f] = state[f]
           /\ run[f] # "done" /\ run'[f] = "done" =>
                state'[f] = IF Asked(f) THEN "Stopped" ELSE "Down"]_vars
  BY <1>1
<1> QED BY <1>2, Invariance, PTL DEF Spec, FinalState
=============================================================================
