---------------------------- MODULE SidecarClient ----------------------------
(***************************************************************************)
(* The client of one fleet sidecar, internal/sim/gridlabd/client.go: many  *)
(* callers share one socket on which one request may be in flight.         *)
(*                                                                         *)
(* A call holds the mutex from before it writes until its reply has been   *)
(* read.  A caller whose ctx ends while it waits returns at once and hands *)
(* the mutex to drain, which reads the reply nobody waits for.  The round  *)
(* trip itself runs in a goroutine of its own (trip).  The sidecar, after  *)
(* sim/gridlabd/gldsidecar/server.py, serves requests in order; it may     *)
(* also die, answer late or answer something else.                         *)
(***************************************************************************)
EXTENDS Integers, Sequences

CONSTANTS Callers,   \* goroutines that call: the devices of the fleet
          MaxCalls,  \* no call starts once this many requests were written
          None, Drain

ASSUME CallersAssumption == None \notin Callers /\ Drain \notin Callers /\ None # Drain

ASSUME MaxCallsAssumption == MaxCalls \in Nat /\ None \notin Nat

VARIABLES
  phase,     \* per caller: "idle", "queued" for the mutex, "waiting" in the select
  ctxDone,   \* has the ctx of the caller's call ended?
  request,   \* id of the request of the caller's last call, None if it wrote none
  result,    \* how the caller's last call returned
  mu,        \* who holds the mutex: None, a caller or Drain
  nextID,
  trip,      \* the round trip: its request id, step and outcome
  conn,      \* "open", "closed" by Close or "dropped" by markBroken
  broken,    \* is the channel broken closed?
  toSidecar, fromSidecar,  \* the socket, each way
  sidecar,   \* "up" or "dead"
  applied,   \* ids of the requests the sidecar carried out
  faulty     \* has the sidecar died, answered wrongly or too late?

callVars == <<phase, ctxDone, request, result>>
clientVars == <<callVars, mu, nextID, trip, conn, broken>>
sidecarVars == <<toSidecar, fromSidecar, sidecar, applied, faulty>>
vars == <<clientVars, sidecarVars>>

\* A reply carries the id of its request; -1 stands for a line that does not
\* decode or carries no id.
Kinds == {"ok", "refused", "worker_dead"}
Replies == [id: Int, kind: Kinds]

\* How a round trip ended: with a reply, or with an I/O error.
Outcomes == [id: Int, kind: Kinds \cup {"error"}]

Idle == [id |-> None, step |-> "idle", outcome |-> None]

Init ==
  /\ phase = [c \in Callers |-> "idle"]
  /\ ctxDone = [c \in Callers |-> FALSE]
  /\ request = [c \in Callers |-> None]
  /\ result = [c \in Callers |-> "none"]
  /\ mu = None
  /\ nextID = 0
  /\ trip = Idle
  /\ conn = "open"
  /\ broken = FALSE
  /\ toSidecar = <<>> /\ fromSidecar = <<>>
  /\ sidecar = "up"
  /\ applied = {}
  /\ faulty = FALSE

Return(c, how) ==
  /\ phase' = [phase EXCEPT ![c] = "idle"]
  /\ result' = [result EXCEPT ![c] = how]

-----------------------------------------------------------------------------
(* Callers.                                                                *)

\* call starts; on a broken connection it returns at once.
Call(c) ==
  /\ phase[c] = "idle" /\ (broken \/ nextID < MaxCalls)
  /\ request' = [request EXCEPT ![c] = None]
  /\ ctxDone' = [ctxDone EXCEPT ![c] = FALSE]
  /\ IF broken
       THEN Return(c, "broken")
       ELSE /\ phase' = [phase EXCEPT ![c] = "queued"]
            /\ result' = [result EXCEPT ![c] = "none"]
  /\ UNCHANGED <<mu, nextID, trip, conn, broken, sidecarVars>>

\* The caller's ctx is cancelled or its deadline passes.
EndCtx(c) ==
  /\ phase[c] # "idle" /\ ~ctxDone[c]
  /\ ctxDone' = [ctxDone EXCEPT ![c] = TRUE]
  /\ UNCHANGED <<phase, request, result, mu, nextID, trip, conn, broken, sidecarVars>>

\* With the mutex held: a broken connection, or a ctx already done, ends the
\* call before anything is written.
LockAndReturn(c) ==
  /\ phase[c] = "queued" /\ mu = None
  /\ \/ broken /\ Return(c, "broken")
     \/ ~broken /\ ctxDone[c] /\ Return(c, "ctx")
  /\ UNCHANGED <<ctxDone, request, mu, nextID, trip, conn, broken, sidecarVars>>

\* SetDeadline fails on a connection Close has closed.
LockAndBreak(c) ==
  /\ phase[c] = "queued" /\ mu = None /\ ~broken /\ ~ctxDone[c]
  /\ conn = "closed"
  /\ nextID' = nextID + 1
  /\ broken' = TRUE
  /\ Return(c, "broken")
  /\ UNCHANGED <<ctxDone, request, mu, trip, conn, sidecarVars>>

\* The call takes its id, sets the deadline and starts the round trip.
LockAndSend(c) ==
  /\ phase[c] = "queued" /\ mu = None /\ ~broken /\ ~ctxDone[c]
  /\ conn = "open"
  /\ mu' = c
  /\ nextID' = nextID + 1
  /\ request' = [request EXCEPT ![c] = nextID]
  /\ trip' = [id |-> nextID, step |-> "write", outcome |-> None]
  /\ phase' = [phase EXCEPT ![c] = "waiting"]
  /\ UNCHANGED <<ctxDone, result, conn, broken, sidecarVars>>

\* Mutant: the reply's id is not compared.
JudgeByKind(outcome, id) ==
  IF outcome.kind \in {"worker_dead", "error"} THEN "broken" ELSE outcome.kind

\* decodeReply and the error paths of call and drain: what the outcome of a
\* trip means.  "broken" marks the connection broken.
Judge(outcome, id) ==
  IF outcome.id # id \/ outcome.kind \in {"worker_dead", "error"}
    THEN "broken" ELSE outcome.kind

\* markBroken, if that is the verdict; both branches then release the mutex.
Finish(verdict) ==
  /\ broken' = (broken \/ verdict = "broken")
  /\ conn' = IF verdict = "broken" THEN "dropped" ELSE conn
  /\ trip' = Idle
  /\ mu' = None

\* The select takes the reply.
TakeReply(c) ==
  /\ phase[c] = "waiting" /\ mu = c /\ trip.step = "done"
  /\ Finish(Judge(trip.outcome, trip.id))
  /\ Return(c, Judge(trip.outcome, trip.id))
  /\ UNCHANGED <<ctxDone, request, nextID, sidecarVars>>

\* Mutant: the mutex is released as the caller gives up; nobody drains.
DetachAndUnlock(c) ==
  /\ phase[c] = "waiting" /\ mu = c /\ ctxDone[c]
  /\ mu' = None
  /\ Return(c, "ctx")
  /\ UNCHANGED <<ctxDone, request, nextID, trip, conn, broken, sidecarVars>>

\* Mutant: a caller that gives up breaks the connection.
DetachAndBreak(c) ==
  /\ phase[c] = "waiting" /\ mu = c /\ ctxDone[c]
  /\ Finish("broken")
  /\ Return(c, "ctx")
  /\ UNCHANGED <<ctxDone, request, nextID, sidecarVars>>

\* Mutant: it returns the outcome, which is not there yet.
DetachWithOutcome(c) ==
  /\ phase[c] = "waiting" /\ mu = c /\ ctxDone[c]
  /\ mu' = Drain
  /\ Return(c, trip.outcome)
  /\ UNCHANGED <<ctxDone, request, nextID, trip, conn, broken, sidecarVars>>

\* The select takes ctx.Done, also when the reply is there too.
Detach(c) ==
  /\ phase[c] = "waiting" /\ mu = c /\ ctxDone[c]
  /\ mu' = Drain
  /\ Return(c, "ctx")
  /\ UNCHANGED <<ctxDone, request, nextID, trip, conn, broken, sidecarVars>>

\* Mutant: drain does not release the mutex of a connection it broke.
DrainKeepsMutex ==
  /\ mu = Drain /\ trip.step = "done"
  /\ IF Judge(trip.outcome, trip.id) = "broken"
       THEN broken' = TRUE /\ conn' = "dropped" /\ trip' = Idle /\ mu' = mu
       ELSE Finish("ok")
  /\ UNCHANGED <<callVars, nextID, sidecarVars>>

\* drain reads the abandoned reply and judges it the same way.
DrainReply ==
  /\ mu = Drain /\ trip.step = "done"
  /\ Finish(Judge(trip.outcome, trip.id))
  /\ UNCHANGED <<callVars, nextID, sidecarVars>>

\* Close waits for the mutex.
Close ==
  /\ mu = None /\ conn = "open"
  /\ conn' = "closed"
  /\ UNCHANGED <<callVars, mu, nextID, trip, broken, sidecarVars>>

-----------------------------------------------------------------------------
(* The round trip's goroutine.                                             *)

TripWrites ==
  /\ trip.step = "write" /\ sidecar = "up"
  /\ toSidecar' = Append(toSidecar, trip.id)
  /\ trip' = [trip EXCEPT !.step = "read"]
  /\ UNCHANGED <<callVars, mu, nextID, conn, broken, fromSidecar, sidecar, applied, faulty>>

TripReads ==
  /\ trip.step = "read" /\ fromSidecar # <<>>
  /\ trip' = [trip EXCEPT !.step = "done", !.outcome = Head(fromSidecar)]
  /\ fromSidecar' = Tail(fromSidecar)
  /\ UNCHANGED <<callVars, mu, nextID, conn, broken, toSidecar, sidecar, applied, faulty>>

\* The connection's deadline passes, or the sidecar hung up.
TripFails ==
  /\ trip.step \in {"write", "read"}
  /\ trip' = [trip EXCEPT !.step = "done", !.outcome = [id |-> trip.id, kind |-> "error"]]
  /\ faulty' = TRUE
  /\ UNCHANGED <<callVars, mu, nextID, conn, broken, toSidecar, fromSidecar, sidecar, applied>>

-----------------------------------------------------------------------------
(* The sidecar.                                                            *)

\* A request is carried out, or refused and undone; its id comes back.
SidecarServes ==
  /\ sidecar = "up" /\ toSidecar # <<>>
  /\ \E kind \in {"ok", "refused"} :
       /\ fromSidecar' = Append(fromSidecar, [id |-> Head(toSidecar), kind |-> kind])
       /\ applied' = IF kind = "ok" THEN applied \cup {Head(toSidecar)} ELSE applied
  /\ toSidecar' = Tail(toSidecar)
  /\ UNCHANGED <<clientVars, sidecar, faulty>>

\* gridlabd's worker died: the sidecar says so and hangs up.
SidecarWorkerDies ==
  /\ sidecar = "up" /\ toSidecar # <<>>
  /\ fromSidecar' = Append(fromSidecar, [id |-> Head(toSidecar), kind |-> "worker_dead"])
  /\ toSidecar' = Tail(toSidecar)
  /\ sidecar' = "dead"
  /\ faulty' = TRUE
  /\ UNCHANGED <<clientVars, applied>>

\* An answer that does not belong to the request.
SidecarAnswersBadly ==
  /\ sidecar = "up" /\ toSidecar # <<>>
  /\ \E id \in -1 .. nextID, kind \in Kinds :
       /\ id # Head(toSidecar)
       /\ fromSidecar' = Append(fromSidecar, [id |-> id, kind |-> kind])
  /\ toSidecar' = Tail(toSidecar)
  /\ faulty' = TRUE
  /\ UNCHANGED <<clientVars, sidecar, applied>>

SidecarDies ==
  /\ sidecar = "up"
  /\ sidecar' = "dead"
  /\ faulty' = TRUE
  /\ UNCHANGED <<clientVars, toSidecar, fromSidecar, applied>>

-----------------------------------------------------------------------------
CallerStep(c) ==
  Call(c) \/ EndCtx(c) \/ LockAndReturn(c) \/ LockAndBreak(c) \/ LockAndSend(c)
    \/ TakeReply(c) \/ Detach(c)

TripStep == TripWrites \/ TripReads \/ TripFails

SidecarStep == SidecarServes \/ SidecarWorkerDies \/ SidecarAnswersBadly \/ SidecarDies

Next == (\E c \in Callers : CallerStep(c)) \/ DrainReply \/ Close \/ TripStep \/ SidecarStep

Spec == Init /\ [][Next]_vars

\* A goroutine that can go on does; sync.Mutex starves no waiter; the deadline
\* of a round trip passes if nothing else ends it.  Nothing is assumed of the
\* sidecar.
FairSpec ==
  /\ Spec
  /\ \A c \in Callers :
       /\ SF_vars(LockAndReturn(c) \/ LockAndBreak(c) \/ LockAndSend(c))
       /\ WF_vars(TakeReply(c) \/ Detach(c))
  /\ WF_vars(DrainReply)
  /\ WF_vars(TripStep)

-----------------------------------------------------------------------------
TypeOK ==
  /\ phase \in [Callers -> {"idle", "queued", "waiting"}]
  /\ ctxDone \in [Callers -> BOOLEAN]
  /\ request \in [Callers -> Nat \cup {None}]
  /\ result \in [Callers -> {"none", "ok", "refused", "broken", "ctx"}]
  /\ mu \in Callers \cup {None, Drain}
  /\ nextID \in Nat
  /\ trip \in [id: Nat \cup {None}, step: {"idle", "write", "read", "done"},
               outcome: Outcomes \cup {None}]
  /\ conn \in {"open", "closed", "dropped"}
  /\ broken \in BOOLEAN
  /\ toSidecar \in Seq(Nat)
  /\ fromSidecar \in Seq(Replies)
  /\ sidecar \in {"up", "dead"}
  /\ applied \subseteq Nat
  /\ faulty \in BOOLEAN

\* When the mutex is free and the connection is still trusted, no reply is owed
\* on the wire: the next call cannot read an abandoned one (drain's comment).
WireInSync ==
  mu = None /\ conn = "open" => toSidecar = <<>> /\ fromSidecar = <<>>

\* What a call returns is the truth about its own request: "ok" only if the
\* sidecar carried it out, "refused" only if it did not.
OwnReply ==
  \A c \in Callers :
    /\ result[c] = "ok" => request[c] \in applied
    /\ result[c] = "refused" => request[c] \in Nat \ applied

\* A caller that gives up costs no restart: the connection breaks only if the
\* sidecar failed, or if a call came after Close (Design Decision 3).
BrokenOnlyByFault == broken => faulty \/ conn = "closed"

\* Every call returns, whatever the sidecar does and whoever gave up before:
\* each holder of the mutex has a deadline and releases it.
CallsReturn == \A c \in Callers : phase[c] # "idle" ~> phase[c] = "idle"
=============================================================================
