-------------------------- MODULE FleetSupervisors --------------------------
(***************************************************************************)
(* The fleets of an aggregator: one Supervisor per fleet runs its sidecar  *)
(* process (internal/sim/gridlabd/supervisor.go), and startFleets brings   *)
(* all of them up, or none (cmd/inverterclient/fleet_start.go).            *)
(*                                                                         *)
(* Per fleet there are two goroutines, the one in Run and the one in Stop, *)
(* besides the process itself, which may exit at any time.  Durations are  *)
(* left out: a timeout may fire whenever the code waits with one, and any  *)
(* number of past attempts may have left the restart window.               *)
(***************************************************************************)
EXTENDS Naturals

CONSTANTS Fleets,
          MaxRestarts,  \* attempts allowed in one restart window
          MaxGen        \* bound: per fleet, no fault once it came up this often

ASSUME FleetsAssumption == MaxRestarts \in Nat \ {0} /\ MaxGen \in [Fleets -> Nat]

VARIABLES
  ctxDone,   \* has the process's context been cancelled (a signal)?
  starter,   \* startFleets, then main: "waiting", "up", "stopping", "stopped"
  waited,    \* what WaitStarted told startFleets about each fleet
  run,       \* where each Run is
  after,     \* where Run goes on once the process it kills is reaped
  state, gen, started, stopped, stopCh, startErr, restarts,  \* the Supervisor's fields
  stop,      \* each fleet's Stop: "none", "waiting", "returned"
  proc,      \* the sidecar process; "exited" until Run takes its exit
  conn,      \* the client: "none", "open", "broken", "closed"
  socket     \* is there a socket file?

starterVars == <<starter, waited>>
supVars == <<state, gen, started, stopped, stopCh, startErr, restarts>>
runVars == <<run, after>>
sidecarVars == <<proc, conn, socket>>
vars == <<ctxDone, starterVars, runVars, supVars, stop, sidecarVars>>

All(v) == [f \in Fleets |-> v]

Init ==
  /\ ctxDone = FALSE
  /\ starter = "waiting" /\ waited = All("none")
  /\ run = All("unborn") /\ after = All("none")
  /\ state = All("Starting") /\ gen = All(0) /\ restarts = All(0)
  /\ started = All(FALSE) /\ stopped = All(FALSE) /\ stopCh = All("open")
  /\ startErr = All("unset")
  /\ stop = All("none")
  /\ proc = All("none") /\ conn = All("none") /\ socket = All(FALSE)

Goto(f, where) == run' = [run EXCEPT ![f] = where]

\* Run returns: doneCh is closed.
Exit(f) == Goto(f, "done")

SetState(f, s) == state' = [state EXCEPT ![f] = s]

\* markStarted, once.
MarkStarted(f, err) ==
  startErr' = [startErr EXCEPT ![f] = IF @ = "unset" THEN err ELSE @]

-----------------------------------------------------------------------------
(* Run.                                                                    *)

\* Run begins: it either sees an earlier Stop or claims the supervisor.
Begin(f) ==
  /\ run[f] = "unborn"
  /\ IF stopped[f]
       THEN /\ SetState(f, "Stopped") /\ MarkStarted(f, "cancelled") /\ Exit(f)
            /\ UNCHANGED started
       ELSE /\ started' = [started EXCEPT ![f] = TRUE] /\ Goto(f, "launch")
            /\ UNCHANGED <<state, startErr>>
  /\ UNCHANGED <<ctxDone, starterVars, after, gen, stopped, stopCh, restarts, stop, sidecarVars>>

\* Mutant: a refusal that WaitStarted never hears of.
StartFailedUnmarked(f) ==
  IF startErr[f] = "unset"
    THEN /\ SetState(f, IF ctxDone THEN "Stopped" ELSE "Down")
         /\ Exit(f)
         /\ UNCHANGED startErr
    ELSE Goto(f, "check") /\ UNCHANGED <<state, startErr>>

\* What a failed startOnce leads to: the first start is not retried, and is a
\* cancellation if ctx is done by then.
StartFailed(f) ==
  IF startErr[f] = "unset"
    THEN IF ctxDone
      THEN SetState(f, "Stopped") /\ MarkStarted(f, "cancelled") /\ Exit(f)
      ELSE SetState(f, "Down") /\ MarkStarted(f, "refused") /\ Exit(f)
    ELSE Goto(f, "check") /\ UNCHANGED <<state, startErr>>

\* Kill, then wait for the exit, then go on.
KillThen(f, next) ==
  /\ Goto(f, "kill")
  /\ after' = [after EXCEPT ![f] = next]

\* startOnce launches the process, once a stale socket is gone.
Launch(f) ==
  /\ run[f] = "launch"
  /\ socket' = [socket EXCEPT ![f] = FALSE]
  /\ conn' = [conn EXCEPT ![f] = "none"]
  /\ \/ /\ proc' = [proc EXCEPT ![f] = "running"] /\ Goto(f, "connect")
        /\ UNCHANGED <<state, startErr>>
     \/ StartFailed(f) /\ UNCHANGED proc
  /\ UNCHANGED <<ctxDone, starterVars, after, gen, started, stopped, stopCh, restarts, stop>>

\* waitForSocket dials the socket the sidecar bound.
Connect(f) ==
  /\ run[f] = "connect" /\ proc[f] = "running" /\ ~ctxDone
  /\ socket' = [socket EXCEPT ![f] = TRUE]
  /\ conn' = [conn EXCEPT ![f] = "open"]
  /\ Goto(f, "hello")
  /\ UNCHANGED <<ctxDone, starterVars, after, supVars, stop, proc>>

\* Mutant: it kills the process that exited, and waits for a second exit.
ConnectSeesExitAndKills(f) ==
  /\ run[f] = "connect" /\ proc[f] = "exited"
  /\ proc' = [proc EXCEPT ![f] = "reaped"]
  /\ KillThen(f, "startFailed")
  /\ UNCHANGED <<ctxDone, starterVars, supVars, stop, conn, socket>>

\* waitForSocket sees the process exit: its exit is taken, nothing to kill.
ConnectSeesExit(f) ==
  /\ run[f] = "connect" /\ proc[f] = "exited"
  /\ proc' = [proc EXCEPT ![f] = "reaped"]
  /\ StartFailed(f)
  /\ UNCHANGED <<ctxDone, starterVars, after, gen, started, stopped, stopCh, restarts, stop,
                 conn, socket>>

\* The start timeout or ctx ends waitForSocket; the socket may be bound by now.
ConnectFails(f) ==
  /\ run[f] = "connect"
  /\ \/ UNCHANGED socket
     \/ proc[f] = "running" /\ socket' = [socket EXCEPT ![f] = TRUE]
  /\ KillThen(f, "startFailed")
  /\ UNCHANGED <<ctxDone, starterVars, supVars, stop, proc, conn>>

\* hello fails or names another fleet: abortStart.
HelloFails(f) ==
  /\ run[f] = "hello"
  /\ conn' = [conn EXCEPT ![f] = "closed"]
  /\ KillThen(f, "startFailed")
  /\ UNCHANGED <<ctxDone, starterVars, supVars, stop, proc, socket>>

\* hello succeeds (the process may have exited since): setUp.
HelloOK(f) ==
  /\ run[f] = "hello"
  /\ SetState(f, "Up")
  /\ gen' = [gen EXCEPT ![f] = @ + 1]
  /\ MarkStarted(f, "ok")
  /\ Goto(f, "supervise")
  /\ UNCHANGED <<ctxDone, starterVars, after, started, stopped, stopCh, restarts,
                 stop, sidecarVars>>

\* The select of Run on a cancelled ctx or a Stop.
SuperviseEnds(f) ==
  /\ run[f] = "supervise"
  /\ ctxDone \/ stopCh[f] = "closed"
  /\ SetState(f, "Stopped")
  /\ Goto(f, "shutdown")
  /\ UNCHANGED <<ctxDone, starterVars, after, gen, started, stopped, stopCh, startErr, restarts,
                 stop, sidecarVars>>

\* Mutant: the client is closed before it is withdrawn.
SuperviseSeesExitAndCloses(f) ==
  /\ run[f] = "supervise" /\ proc[f] = "exited"
  /\ proc' = [proc EXCEPT ![f] = "reaped"]
  /\ conn' = [conn EXCEPT ![f] = "closed"]
  /\ Goto(f, "check")
  /\ UNCHANGED <<ctxDone, starterVars, after, supVars, stop, socket>>

\* The select of Run on the process's exit.
SuperviseSeesExit(f) ==
  /\ run[f] = "supervise" /\ proc[f] = "exited"
  /\ proc' = [proc EXCEPT ![f] = "reaped"]
  /\ SetState(f, "Restarting")
  /\ Goto(f, "close")
  /\ UNCHANGED <<ctxDone, starterVars, after, gen, started, stopped, stopCh, startErr,
                 restarts, stop, conn, socket>>

CloseClient(f) ==
  /\ run[f] = "close"
  /\ conn' = [conn EXCEPT ![f] = "closed"]
  /\ Goto(f, "check")
  /\ UNCHANGED <<ctxDone, starterVars, after, supVars, stop, proc, socket>>

\* Mutant: a process whose connection broke is left running.
SuperviseSeesBrokenAndLeaves(f) ==
  /\ run[f] = "supervise" /\ conn[f] = "broken"
  /\ SetState(f, "Restarting")
  /\ Goto(f, "check")
  /\ UNCHANGED <<ctxDone, starterVars, after, gen, started, stopped, stopCh, startErr,
                 restarts, stop, sidecarVars>>

\* The select of Run on the connection's Broken channel.
SuperviseSeesBroken(f) ==
  /\ run[f] = "supervise" /\ conn[f] = "broken"
  /\ SetState(f, "Restarting")
  /\ KillThen(f, "check")
  /\ UNCHANGED <<ctxDone, starterVars, gen, started, stopped, stopCh, startErr,
                 restarts, stop, sidecarVars>>

\* killAndReap sends SIGKILL ...
Kill(f) ==
  /\ run[f] = "kill"
  /\ proc' = [proc EXCEPT ![f] = IF @ = "running" THEN "exited" ELSE @]
  /\ Goto(f, "reap")
  /\ UNCHANGED <<ctxDone, starterVars, after, supVars, stop, conn, socket>>

\* ... and waits for the exit, which the process's channel carries only once.
Reap(f) ==
  /\ run[f] = "reap" /\ proc[f] = "exited"
  /\ proc' = [proc EXCEPT ![f] = "reaped"]
  /\ CASE after[f] = "startFailed" -> StartFailed(f) /\ UNCHANGED socket
       [] after[f] = "check" -> Goto(f, "check") /\ UNCHANGED <<state, startErr, socket>>
       [] after[f] = "done" -> /\ Goto(f, "done") /\ socket' = [socket EXCEPT ![f] = FALSE]
                               /\ UNCHANGED <<state, startErr>>
  /\ after' = [after EXCEPT ![f] = "none"]
  /\ UNCHANGED <<ctxDone, starterVars, gen, started, stopped, stopCh, restarts, stop, conn>>

\* exitDuringRestart: nothing runs any more, but a socket may be left.
ExitDuringRestart(f) ==
  /\ ctxDone \/ stopCh[f] = "closed"
  /\ SetState(f, "Stopped")
  /\ socket' = [socket EXCEPT ![f] = FALSE]
  /\ Exit(f)
  /\ UNCHANGED restarts

\* Mutant: one attempt too many.
SpendAttemptMore(f, kept) ==
  IF kept > MaxRestarts
    THEN /\ SetState(f, "Down") /\ Exit(f)
         /\ restarts' = [restarts EXCEPT ![f] = kept]
    ELSE /\ restarts' = [restarts EXCEPT ![f] = kept + 1]
         /\ Goto(f, "backoff")
         /\ UNCHANGED state

\* pruneRestarts keeps the attempts still in the window; is one left to spend?
SpendAttempt(f, kept) ==
  IF kept >= MaxRestarts
    THEN /\ SetState(f, "Down") /\ Exit(f)
         /\ restarts' = [restarts EXCEPT ![f] = kept]
    ELSE /\ restarts' = [restarts EXCEPT ![f] = kept + 1]
         /\ Goto(f, "backoff")
         /\ UNCHANGED state

\* Mutant: the budget is looked at before the cancellation.
CheckBudgetFirst(f) ==
  /\ run[f] = "check"
  /\ \E kept \in 0 .. restarts[f] :
       IF kept >= MaxRestarts \/ (~ctxDone /\ stopCh[f] = "open")
         THEN SpendAttempt(f, kept) /\ UNCHANGED socket
         ELSE ExitDuringRestart(f)
  /\ UNCHANGED <<ctxDone, starterVars, after, gen, started, stopped, stopCh, startErr, stop,
                 proc, conn>>

\* The top of the restart loop: a cancellation comes before the budget.
Check(f) ==
  /\ run[f] = "check"
  /\ \/ ExitDuringRestart(f)
     \/ /\ ~ctxDone /\ stopCh[f] = "open"
        /\ \E kept \in 0 .. restarts[f] : SpendAttempt(f, kept)
        /\ UNCHANGED socket
  /\ UNCHANGED <<ctxDone, starterVars, after, gen, started, stopped, stopCh, startErr, stop,
                 proc, conn>>

\* The backoff delay passes, or is cut short.
Backoff(f) ==
  /\ run[f] = "backoff"
  /\ \/ Goto(f, "launch") /\ UNCHANGED <<state, socket, restarts>>
     \/ ExitDuringRestart(f)
  /\ UNCHANGED <<ctxDone, starterVars, after, gen, started, stopped, stopCh, startErr, stop,
                 proc, conn>>

\* shutdown's RPC, bounded by the call timeout, then Close.
AskShutdown(f) ==
  /\ run[f] = "shutdown"
  /\ conn' = [conn EXCEPT ![f] = "closed"]
  /\ Goto(f, "grace")
  /\ UNCHANGED <<ctxDone, starterVars, after, supVars, stop, proc, socket>>

\* The process exits within one of the two grace periods.
GraceExit(f) ==
  /\ run[f] \in {"grace", "term"} /\ proc[f] = "exited"
  /\ proc' = [proc EXCEPT ![f] = "reaped"]
  /\ socket' = [socket EXCEPT ![f] = FALSE]
  /\ Goto(f, "done")
  /\ UNCHANGED <<ctxDone, starterVars, after, supVars, stop, conn>>

\* A grace period passes: SIGTERM, then SIGKILL.
GracePasses(f) ==
  /\ \/ run[f] = "grace" /\ Goto(f, "term") /\ UNCHANGED after
     \/ run[f] = "term" /\ KillThen(f, "done")
  /\ UNCHANGED <<ctxDone, starterVars, supVars, stop, sidecarVars>>

RunStep(f) ==
  \/ Begin(f) \/ Launch(f) \/ Connect(f) \/ ConnectSeesExit(f) \/ ConnectFails(f)
  \/ HelloFails(f) \/ HelloOK(f)
  \/ SuperviseEnds(f) \/ SuperviseSeesExit(f) \/ SuperviseSeesBroken(f)
  \/ CloseClient(f) \/ Kill(f) \/ Reap(f) \/ Check(f) \/ Backoff(f)
  \/ AskShutdown(f) \/ GraceExit(f) \/ GracePasses(f)

-----------------------------------------------------------------------------
(* startFleets, main and Stop.                                             *)

\* WaitStarted returns the outcome of the first start, or the end of ctx.
WaitStarted(f) ==
  /\ starter = "waiting" /\ waited[f] = "none"
  /\ \/ startErr[f] # "unset" /\ waited' = [waited EXCEPT ![f] = startErr[f]]
     \/ ctxDone /\ waited' = [waited EXCEPT ![f] = "cancelled"]
  /\ UNCHANGED <<ctxDone, starter, runVars, supVars, stop, sidecarVars>>

\* Mutant: one fleet is enough.
StartersDecideForOne ==
  /\ starter = "waiting"
  /\ \A f \in Fleets : waited[f] # "none"
  /\ starter' = IF \E f \in Fleets : waited[f] = "ok" THEN "up" ELSE "stopping"
  /\ UNCHANGED <<ctxDone, waited, runVars, supVars, stop, sidecarVars>>

\* All fleets answered: all of them are up, or all are stopped.
StartersDecide ==
  /\ starter = "waiting"
  /\ \A f \in Fleets : waited[f] # "none"
  /\ starter' = IF \A f \in Fleets : waited[f] = "ok" THEN "up" ELSE "stopping"
  /\ UNCHANGED <<ctxDone, waited, runVars, supVars, stop, sidecarVars>>

\* main ends, on a signal or otherwise, and calls the stop it was given.
MainEnds ==
  /\ starter = "up"
  /\ starter' = "stopping"
  /\ UNCHANGED <<ctxDone, waited, runVars, supVars, stop, sidecarVars>>

\* Stop, in a goroutine per fleet: before Run began it leaves a note and does
\* not wait.
StopCalled(f) ==
  /\ starter = "stopping" /\ stop[f] = "none"
  /\ IF started[f]
       THEN /\ stopCh' = [stopCh EXCEPT ![f] = "closed"]
            /\ stop' = [stop EXCEPT ![f] = "waiting"]
            /\ UNCHANGED stopped
       ELSE /\ stopped' = [stopped EXCEPT ![f] = TRUE]
            /\ stop' = [stop EXCEPT ![f] = "returned"]
            /\ UNCHANGED stopCh
  /\ UNCHANGED <<ctxDone, starterVars, runVars, state, gen, started, startErr, restarts,
                 sidecarVars>>

StopReturns(f) ==
  /\ stop[f] = "waiting" /\ run[f] = "done"
  /\ stop' = [stop EXCEPT ![f] = "returned"]
  /\ UNCHANGED <<ctxDone, starterVars, runVars, supVars, sidecarVars>>

\* stopFn returns: every Stop returned, and then every Run.
StoppedAll ==
  /\ starter = "stopping"
  /\ \A f \in Fleets : stop[f] = "returned" /\ run[f] = "done"
  /\ starter' = "stopped"
  /\ UNCHANGED <<ctxDone, waited, runVars, supVars, stop, sidecarVars>>

-----------------------------------------------------------------------------
(* The environment.                                                        *)

Signal ==
  /\ ~ctxDone
  /\ ctxDone' = TRUE
  /\ UNCHANGED <<starterVars, runVars, supVars, stop, sidecarVars>>

\* The process exits: in good order it removes its socket, in a crash it does not.
ProcExits(f) ==
  /\ proc[f] = "running" /\ (gen[f] < MaxGen[f] \/ run[f] \in {"grace", "term"})
  /\ proc' = [proc EXCEPT ![f] = "exited"]
  /\ socket' \in {socket, [socket EXCEPT ![f] = FALSE]}
  /\ UNCHANGED <<ctxDone, starterVars, runVars, supVars, stop, conn>>

\* A device's call breaks the connection.
ConnBreaks(f) ==
  /\ run[f] = "supervise" /\ conn[f] = "open" /\ gen[f] < MaxGen[f]
  /\ conn' = [conn EXCEPT ![f] = "broken"]
  /\ UNCHANGED <<ctxDone, starterVars, runVars, supVars, stop, proc, socket>>

Next ==
  \/ \E f \in Fleets :
       \/ RunStep(f) \/ WaitStarted(f) \/ StopCalled(f) \/ StopReturns(f)
       \/ ProcExits(f) \/ ConnBreaks(f)
  \/ StartersDecide \/ MainEnds \/ StoppedAll \/ Signal

Spec == Init /\ [][Next]_vars

\* Goroutines that can go on do, and a timeout the code sets passes.  The
\* environment owes nothing.
FairSpec ==
  /\ Spec
  /\ \A f \in Fleets :
       WF_vars(RunStep(f)) /\ WF_vars(WaitStarted(f) \/ StopCalled(f) \/ StopReturns(f))
  /\ WF_vars(StartersDecide) /\ WF_vars(StoppedAll)

-----------------------------------------------------------------------------
TypeOK ==
  /\ ctxDone \in BOOLEAN
  /\ starter \in {"waiting", "up", "stopping", "stopped"}
  /\ waited \in [Fleets -> {"none", "ok", "refused", "cancelled"}]
  /\ run \in [Fleets -> {"unborn", "launch", "connect", "hello", "supervise", "close", "kill",
                         "reap", "check", "backoff", "shutdown", "grace", "term", "done"}]
  /\ after \in [Fleets -> {"none", "startFailed", "check", "done"}]
  /\ state \in [Fleets -> {"Starting", "Up", "Restarting", "Down", "Stopped"}]
  /\ gen \in [Fleets -> Nat]
  /\ restarts \in [Fleets -> 0 .. MaxRestarts]
  /\ started \in [Fleets -> BOOLEAN] /\ stopped \in [Fleets -> BOOLEAN]
  /\ stopCh \in [Fleets -> {"open", "closed"}]
  /\ startErr \in [Fleets -> {"unset", "ok", "refused", "cancelled"}]
  /\ stop \in [Fleets -> {"none", "waiting", "returned"}]
  /\ proc \in [Fleets -> {"none", "running", "exited", "reaped"}]
  /\ conn \in [Fleets -> {"none", "open", "broken", "closed"}]
  /\ socket \in [Fleets -> BOOLEAN]

\* No sidecar outlives its supervisor: Run returns, and launches again, only
\* after the exit of the process it started was taken.
NoOrphan ==
  \A f \in Fleets : run[f] \in {"launch", "check", "backoff", "done"} =>
    proc[f] \in {"none", "reaped"}

\* A fleet that once came up and is then stopped leaves no socket behind.
NoSocketLeft ==
  \A f \in Fleets : run[f] = "done" /\ state[f] = "Stopped" /\ gen[f] > 0 => ~socket[f]

\* However a supervisor ends, or starts its sidecar again, it leaves no process
\* behind, and when it is stopped no socket either.
NothingLeftBehind == NoOrphan /\ NoSocketLeft

\* main goes on with the fleets only when every one of them came up.
UpTogether == starter = "up" => \A f \in Fleets : gen[f] > 0

\* The connection of a fleet that is Up was not closed by its supervisor, so
\* no device is handed a closed one.
UpIsConnected == \A f \in Fleets : state[f] = "Up" => conn[f] \in {"open", "broken"}

\* Was Run asked to end, so that it must not be reported Down?  A Stop during
\* the first start waits for its outcome instead.
Asked(f) == ctxDone \/ stopped[f] \/ (stopCh[f] = "closed" /\ gen[f] > 0)

\* What State reports of a fleet whose Run returned is final, and says why it
\* did: Stopped if a signal or a Stop came before it was decided, though the
\* budget be exhausted too, and Down otherwise.
FinalState ==
  [][\A f \in Fleets :
       /\ run[f] = "done" => run'[f] = "done" /\ state'[f] = state[f]
       /\ run[f] # "done" /\ run'[f] = "done" =>
            state'[f] = IF Asked(f) THEN "Stopped" ELSE "Down"]_vars

\* startFleets decides, whatever the sidecars do.
StartDecided == <>(starter # "waiting")

\* stop returns, whatever the sidecars do and however early it is called.
StopEnds == starter = "stopping" ~> starter = "stopped"
=============================================================================
