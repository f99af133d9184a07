---------------------------- MODULE SidecarProofs ----------------------------
(***************************************************************************)
(* Proofs about SidecarClient, for any number of callers and of calls.     *)
(***************************************************************************)
EXTENDS SidecarClient, TLAPS

-----------------------------------------------------------------------------
(* The inductive invariant.                                                *)

\* The mutex is held exactly while a round trip is under way, by the caller
\* that waits for it or by drain, on a connection that is still trusted.
Ownership ==
  /\ mu = None <=> trip.step = "idle"
  /\ \A c \in Callers :
       /\ phase[c] = "waiting" <=> mu = c
       /\ phase[c] = "waiting" => request[c] = trip.id
       /\ phase[c] # "idle" => result[c] = "none"
  /\ trip.step # "idle" =>
       conn = "open" /\ ~broken /\ trip.id \in Nat /\ trip.id < nextID

\* What is known of a reply to the round trip's request.
Sound(reply) ==
  /\ ~faulty => reply.id = trip.id /\ reply.kind \in {"ok", "refused"}
  /\ reply.id = trip.id /\ reply.kind = "ok" => trip.id \in applied
  /\ reply.id = trip.id /\ reply.kind = "refused" => trip.id \notin applied

\* Where the request and its reply are, at each step of the round trip.
Exchange ==
  /\ trip.step = "write" => toSidecar = <<>> /\ fromSidecar = <<>>
  /\ trip.step = "read" =>
       \/ toSidecar = <<trip.id>> /\ fromSidecar = <<>>
       \/ toSidecar = <<>> /\ \E r \in Replies : fromSidecar = <<r>> /\ Sound(r)
  /\ trip.step = "done" =>
       /\ trip.outcome \in Outcomes
       /\ trip.outcome.kind = "error" => faulty
       /\ trip.outcome.kind # "error" =>
            toSidecar = <<>> /\ fromSidecar = <<>> /\ Sound(trip.outcome)

\* A request on the wire was not carried out yet, and nobody was told about it.
Unserved(id) ==
  /\ id \in Nat /\ id < nextID /\ id \notin applied
  /\ \A c \in Callers : result[c] \in {"ok", "refused"} => request[c] # id

Requests ==
  /\ \A id \in applied : id < nextID
  /\ \A c \in Callers : result[c] \in {"ok", "refused"} =>
       request[c] \in Nat /\ request[c] < nextID
  /\ trip.step # "idle" =>
       \A c \in Callers : result[c] \in {"ok", "refused"} => request[c] # trip.id
  /\ trip.step = "write" => Unserved(trip.id)
  /\ toSidecar = <<>> \/ \E id \in Nat : toSidecar = <<id>> /\ Unserved(id)

IInv ==
  TypeOK /\ Ownership /\ Exchange /\ Requests /\ WireInSync /\ OwnReply /\ BrokenOnlyByFault

LEMMA InitInv == Init => IInv
<1> SUFFICES ASSUME Init PROVE IInv
  OBVIOUS
<1> USE CallersAssumption, MaxCallsAssumption
<1>1. trip = Idle /\ trip.id = None /\ trip.step = "idle" /\ trip.outcome = None
  BY DEF Init, Idle
<1>2. Idle \in [id: Nat \cup {None}, step: {"idle", "write", "read", "done"},
                outcome: Outcomes \cup {None}]
  BY DEF Idle
<1>3. TypeOK
  <2>1. trip = Idle /\ toSidecar = <<>> /\ fromSidecar = <<>>
    BY DEF Init
  <2>2. <<>> \in Seq(Nat) /\ <<>> \in Seq(Replies)
    OBVIOUS
  <2> HIDE DEF Idle
  <2> QED BY <1>2, <2>1, <2>2 DEF Init, TypeOK
<1>4. Ownership /\ Exchange /\ Requests
  BY <1>1 DEF Init, Ownership, Exchange, Requests
<1> QED BY <1>3, <1>4 DEF Init, IInv, WireInSync, OwnReply, BrokenOnlyByFault

\* Of a call that returns before it writes only its own result changes.
LEMMA CallInv ==
  ASSUME IInv, NEW c \in Callers, Call(c) \/ EndCtx(c) \/ LockAndReturn(c)
  PROVE  IInv'
<1> USE CallersAssumption, MaxCallsAssumption DEF IInv, Return
<1>0. /\ UNCHANGED <<mu, nextID, trip, conn, broken, sidecarVars>>
      /\ phase[c] # "waiting" \/ UNCHANGED <<phase, request, result>>
      /\ \A d \in Callers \ {c} : UNCHANGED <<phase[d], request[d], result[d]>>
  BY DEF Call, EndCtx, LockAndReturn, TypeOK
<1>1. TypeOK'
  BY DEF TypeOK, Call, EndCtx, LockAndReturn, sidecarVars
<1>2. /\ phase'[c] = "waiting" => UNCHANGED <<phase, request, result>>
      /\ result'[c] \in {"ok", "refused"} => UNCHANGED <<phase, request, result>>
  BY DEF TypeOK, Call, EndCtx, LockAndReturn
<1>3. Ownership'
  <2>1. phase'[c] # "idle" => result'[c] = "none"
    BY DEF TypeOK, Ownership, Call, EndCtx, LockAndReturn
  <2> QED BY <1>0, <1>2, <2>1 DEF Ownership, TypeOK
<1>4. Exchange'
  BY <1>0 DEF Exchange, Sound, sidecarVars
<1>5. Requests'
  BY <1>0, <1>2 DEF Requests, Unserved, sidecarVars
<1>6. OwnReply'
  BY <1>0, <1>2 DEF OwnReply, sidecarVars
<1>7. WireInSync' /\ BrokenOnlyByFault'
  BY <1>0 DEF WireInSync, BrokenOnlyByFault, sidecarVars
<1> QED BY <1>1, <1>3, <1>4, <1>5, <1>6, <1>7

LEMMA LockAndBreakInv ==
  ASSUME IInv, NEW c \in Callers, LockAndBreak(c)
  PROVE  IInv'
<1> USE DEF IInv
<1>1. /\ UNCHANGED <<mu, trip, conn, sidecarVars, request>>
      /\ phase'[c] = "idle" /\ result'[c] = "broken" /\ phase[c] = "queued"
      /\ nextID' = nextID + 1 /\ broken' /\ conn = "closed" /\ mu = None
      /\ \A d \in Callers \ {c} : UNCHANGED <<phase[d], result[d]>>
  BY DEF LockAndBreak, Return, TypeOK
<1>2. TypeOK'
  BY <1>1 DEF TypeOK, LockAndBreak, Return, sidecarVars
<1>3. Ownership'
  BY <1>1, CallersAssumption DEF Ownership, TypeOK
<1>4. Exchange'
  BY <1>1 DEF Exchange, Sound, sidecarVars
<1>5. Requests'
  BY <1>1 DEF Requests, Unserved, sidecarVars, Ownership, TypeOK
<1>6. OwnReply' /\ WireInSync' /\ BrokenOnlyByFault'
  BY <1>1 DEF OwnReply, WireInSync, BrokenOnlyByFault, sidecarVars
<1> QED BY <1>2, <1>3, <1>4, <1>5, <1>6

LEMMA LockAndSendInv ==
  ASSUME IInv, NEW c \in Callers, LockAndSend(c)
  PROVE  IInv'
<1> USE DEF IInv
<1>1. /\ UNCHANGED <<result, conn, broken, sidecarVars>>
      /\ phase'[c] = "waiting" /\ request'[c] = nextID /\ phase[c] = "queued"
      /\ nextID' = nextID + 1 /\ ~broken /\ conn = "open"
      /\ mu = None /\ mu' = c
      /\ \A d \in Callers \ {c} : UNCHANGED <<phase[d], request[d]>>
      /\ trip' = [id |-> nextID, step |-> "write", outcome |-> None]
  BY DEF LockAndSend, TypeOK
<1>2. trip'.id = nextID /\ trip'.step = "write" /\ trip'.outcome = None
  BY <1>1
<1>3. TypeOK'
  BY <1>1 DEF TypeOK, LockAndSend, sidecarVars
<1>4. result[c] = "none"
  BY <1>1 DEF Ownership
<1>5. Ownership'
  BY <1>1, <1>2, <1>4, CallersAssumption DEF Ownership, TypeOK
<1>6. Exchange'
  BY <1>1, <1>2 DEF Exchange, WireInSync, sidecarVars
<1>7. Requests'
  BY <1>1, <1>2, <1>4 DEF Requests, Unserved, WireInSync, sidecarVars, TypeOK
<1>8. OwnReply' /\ WireInSync' /\ BrokenOnlyByFault'
  BY <1>1, <1>4, CallersAssumption DEF OwnReply, WireInSync, BrokenOnlyByFault, sidecarVars
<1> QED BY <1>3, <1>5, <1>6, <1>7, <1>8

\* The verdict on a finished trip is "broken" only if something failed, and
\* otherwise tells what became of the request.
LEMMA JudgeIsSound ==
  ASSUME IInv, trip.step = "done", NEW verdict, verdict = Judge(trip.outcome, trip.id)
  PROVE  /\ verdict \in {"ok", "refused", "broken"}
         /\ verdict = "broken" => faulty
         /\ verdict # "broken" => toSidecar = <<>> /\ fromSidecar = <<>>
         /\ verdict = "ok" => trip.id \in applied
         /\ verdict = "refused" => trip.id \notin applied
<1>1. trip.outcome \in Outcomes /\ trip.id \in Nat
  BY DEF IInv, Exchange, Ownership
<1>2. trip.outcome.kind \in {"ok", "refused", "worker_dead", "error"}
  BY <1>1 DEF Outcomes, Kinds
<1>3. trip.outcome.kind # "error" =>
        toSidecar = <<>> /\ fromSidecar = <<>> /\ Sound(trip.outcome)
  BY DEF IInv, Exchange
<1>4. trip.outcome.kind = "error" => faulty
  BY DEF IInv, Exchange
<1>5. CASE trip.outcome.id # trip.id \/ trip.outcome.kind \in {"worker_dead", "error"}
  BY <1>3, <1>4, <1>5 DEF Judge, Sound
<1>6. CASE ~(trip.outcome.id # trip.id \/ trip.outcome.kind \in {"worker_dead", "error"})
  BY <1>2, <1>3, <1>6 DEF Judge, Sound
<1> QED BY <1>5, <1>6

\* What Finish leaves, whoever calls it.
LEMMA FinishFields ==
  ASSUME IInv, trip.step = "done", Finish(Judge(trip.outcome, trip.id))
  PROVE  /\ trip' = Idle /\ trip'.step = "idle" /\ mu' = None
         /\ conn' \in {"open", "dropped"} /\ broken' \in BOOLEAN
         /\ conn' = "open" => toSidecar = <<>> /\ fromSidecar = <<>>
         /\ broken' => faulty
<1> DEFINE verdict == Judge(trip.outcome, trip.id)
<1>1. /\ verdict = "broken" => faulty
      /\ verdict # "broken" => toSidecar = <<>> /\ fromSidecar = <<>>
  BY JudgeIsSound
<1>2. conn = "open" /\ ~broken
  BY DEF IInv, Ownership
<1> HIDE DEF verdict
<1>3. /\ broken' = (broken \/ verdict = "broken")
      /\ conn' = IF verdict = "broken" THEN "dropped" ELSE conn
      /\ trip' = Idle /\ mu' = None
  BY DEF Finish, verdict
<1> QED BY <1>1, <1>2, <1>3 DEF Idle

LEMMA TakeReplyInv ==
  ASSUME IInv, NEW c \in Callers, TakeReply(c)
  PROVE  IInv'
<1> DEFINE verdict == Judge(trip.outcome, trip.id)
<1>1. /\ trip' = Idle /\ trip'.step = "idle" /\ mu' = None
      /\ conn' \in {"open", "dropped"} /\ broken' \in BOOLEAN
      /\ conn' = "open" => toSidecar = <<>> /\ fromSidecar = <<>>
      /\ broken' => faulty
  BY FinishFields DEF TakeReply
<1>2. /\ verdict \in {"ok", "refused", "broken"}
      /\ verdict = "ok" => trip.id \in applied
      /\ verdict = "refused" => trip.id \notin applied
  BY JudgeIsSound DEF TakeReply
<1> HIDE DEF verdict
<1> USE DEF IInv
<1>3. /\ UNCHANGED <<ctxDone, request, nextID, sidecarVars>>
      /\ phase'[c] = "idle" /\ result'[c] = verdict /\ phase[c] = "waiting" /\ mu = c
      /\ \A d \in Callers \ {c} : UNCHANGED <<phase[d], result[d]>>
      /\ phase' \in [Callers -> {"idle", "queued", "waiting"}]
      /\ result' \in [Callers -> {"none", "ok", "refused", "broken", "ctx"}]
  BY <1>2 DEF TakeReply, Return, TypeOK, verdict
<1>4. request[c] = trip.id /\ trip.id \in Nat /\ trip.id < nextID
  BY <1>3, CallersAssumption DEF Ownership
<1>5. TypeOK'
  <2>1. Idle \in [id: Nat \cup {None}, step: {"idle", "write", "read", "done"},
                  outcome: Outcomes \cup {None}]
    BY DEF Idle
  <2> QED BY <1>1, <1>3, <2>1 DEF TypeOK, sidecarVars
<1>6. Ownership'
  BY <1>1, <1>3, CallersAssumption DEF Ownership, TypeOK
<1>7. Exchange'
  BY <1>1 DEF Exchange
<1>8. Requests'
  <2>1. toSidecar = <<>> \/ \E id \in Nat : toSidecar = <<id>> /\ Unserved(id)
    BY DEF Requests
  <2>2. toSidecar # <<>> => verdict = "broken"
    BY JudgeIsSound DEF TakeReply, verdict
  <2> QED BY <1>1, <1>2, <1>3, <1>4, <2>1, <2>2 DEF Requests, Unserved, sidecarVars
<1>9. OwnReply'
  BY <1>2, <1>3, <1>4 DEF OwnReply, sidecarVars
<1>10. WireInSync' /\ BrokenOnlyByFault'
  BY <1>1, <1>3 DEF WireInSync, BrokenOnlyByFault, sidecarVars
<1> QED BY <1>5, <1>6, <1>7, <1>8, <1>9, <1>10

LEMMA DetachInv ==
  ASSUME IInv, NEW c \in Callers, Detach(c)
  PROVE  IInv'
<1> USE DEF IInv
<1>1. /\ UNCHANGED <<ctxDone, request, nextID, trip, conn, broken, sidecarVars>>
      /\ phase'[c] = "idle" /\ result'[c] = "ctx" /\ phase[c] = "waiting" /\ mu = c
      /\ mu' = Drain
      /\ \A d \in Callers \ {c} : UNCHANGED <<phase[d], result[d]>>
      /\ phase' \in [Callers -> {"idle", "queued", "waiting"}]
      /\ result' \in [Callers -> {"none", "ok", "refused", "broken", "ctx"}]
  BY DEF Detach, Return, TypeOK
<1>2. TypeOK'
  BY <1>1 DEF TypeOK, sidecarVars
<1>3. Ownership'
  BY <1>1, CallersAssumption DEF Ownership, TypeOK
<1>4. Exchange'
  BY <1>1 DEF Exchange, Sound, sidecarVars
<1>5. Requests'
  BY <1>1 DEF Requests, Unserved, sidecarVars
<1>6. OwnReply' /\ WireInSync' /\ BrokenOnlyByFault'
  BY <1>1, CallersAssumption DEF OwnReply, WireInSync, BrokenOnlyByFault, sidecarVars
<1> QED BY <1>2, <1>3, <1>4, <1>5, <1>6

LEMMA DrainReplyInv ==
  ASSUME IInv, DrainReply
  PROVE  IInv'
<1> USE DEF IInv
<1>1. /\ trip' = Idle /\ trip'.step = "idle" /\ mu' = None
      /\ conn' \in {"open", "dropped"} /\ broken' \in BOOLEAN
      /\ conn' = "open" => toSidecar = <<>> /\ fromSidecar = <<>>
      /\ broken' => faulty
  BY FinishFields DEF DrainReply
<1>2. UNCHANGED <<callVars, nextID, sidecarVars>> /\ mu = Drain
  BY DEF DrainReply
<1>3. TypeOK'
  <2>1. Idle \in [id: Nat \cup {None}, step: {"idle", "write", "read", "done"},
                  outcome: Outcomes \cup {None}]
    BY DEF Idle
  <2> QED BY <1>1, <1>2, <2>1 DEF TypeOK, callVars, sidecarVars
<1>4. Ownership'
  BY <1>1, <1>2, CallersAssumption DEF Ownership, TypeOK, callVars
<1>5. Exchange' /\ Requests'
  BY <1>1, <1>2 DEF Exchange, Requests, Unserved, callVars, sidecarVars
<1>6. OwnReply' /\ WireInSync' /\ BrokenOnlyByFault'
  BY <1>1, <1>2 DEF OwnReply, WireInSync, BrokenOnlyByFault, callVars, sidecarVars
<1> QED BY <1>3, <1>4, <1>5, <1>6

LEMMA CloseInv ==
  ASSUME IInv, Close
  PROVE  IInv'
<1> USE DEF IInv
<1>1. /\ UNCHANGED <<callVars, mu, nextID, trip, broken, sidecarVars>>
      /\ mu = None /\ conn' = "closed"
  BY DEF Close
<1>2. TypeOK'
  BY <1>1 DEF TypeOK, callVars, sidecarVars
<1>3. Ownership'
  BY <1>1, CallersAssumption DEF Ownership, TypeOK, callVars
<1>4. Exchange' /\ Requests'
  BY <1>1 DEF Exchange, Sound, Requests, Unserved, callVars, sidecarVars
<1>5. OwnReply' /\ WireInSync' /\ BrokenOnlyByFault'
  BY <1>1 DEF OwnReply, WireInSync, BrokenOnlyByFault, callVars, sidecarVars
<1> QED BY <1>2, <1>3, <1>4, <1>5

\* The round trip's goroutine changes only the trip and the socket.
LEMMA TripWritesInv ==
  ASSUME IInv, TripWrites
  PROVE  IInv'
<1> USE DEF IInv
<1>1. /\ UNCHANGED <<callVars, mu, nextID, conn, broken, fromSidecar, sidecar, applied, faulty>>
      /\ trip.step = "write"
      /\ toSidecar = <<>> /\ fromSidecar = <<>> /\ trip.id \in Nat
  BY DEF TripWrites, Exchange, Ownership
<1>2. toSidecar' = <<trip.id>>
  BY <1>1 DEF TripWrites
<1>3. /\ trip'.id = trip.id /\ trip'.step = "read" /\ trip'.outcome = trip.outcome
      /\ trip' \in [id: Nat \cup {None}, step: {"idle", "write", "read", "done"},
                    outcome: Outcomes \cup {None}]
  BY DEF TripWrites, TypeOK
<1>4. TypeOK'
  BY <1>1, <1>2, <1>3 DEF TypeOK, callVars
<1>5. Ownership'
  BY <1>1, <1>3 DEF Ownership, callVars
<1>6. Exchange'
  BY <1>1, <1>2, <1>3 DEF Exchange
<1>7. Requests'
  BY <1>1, <1>2, <1>3 DEF Requests, Unserved, callVars
<1>8. OwnReply' /\ WireInSync' /\ BrokenOnlyByFault'
  BY <1>1 DEF OwnReply, WireInSync, BrokenOnlyByFault, Ownership, callVars
<1> QED BY <1>4, <1>5, <1>6, <1>7, <1>8

LEMMA TripReadsInv ==
  ASSUME IInv, TripReads
  PROVE  IInv'
<1> USE DEF IInv
<1>1. /\ UNCHANGED <<callVars, mu, nextID, conn, broken, toSidecar, sidecar, applied, faulty>>
      /\ trip.step = "read" /\ fromSidecar # <<>>
  BY DEF TripReads
<1>2. PICK r \in Replies : toSidecar = <<>> /\ fromSidecar = <<r>> /\ Sound(r)
  BY <1>1 DEF Exchange
<1>3. fromSidecar' = <<>> /\ Head(fromSidecar) = r
  BY <1>2 DEF TripReads
<1>4. r \in Outcomes /\ r.kind # "error"
  BY DEF Replies, Outcomes, Kinds
<1>5. /\ trip'.id = trip.id /\ trip'.step = "done" /\ trip'.outcome = r
      /\ trip' \in [id: Nat \cup {None}, step: {"idle", "write", "read", "done"},
                    outcome: Outcomes \cup {None}]
  BY <1>3, <1>4 DEF TripReads, TypeOK
<1>6. TypeOK'
  BY <1>1, <1>3, <1>5 DEF TypeOK, callVars
<1>7. Ownership'
  BY <1>1, <1>5 DEF Ownership, callVars
<1>8. Exchange'
  BY <1>1, <1>2, <1>3, <1>4, <1>5 DEF Exchange, Sound
<1>9. Requests'
  BY <1>1, <1>5 DEF Requests, Unserved, callVars
<1>10. OwnReply' /\ WireInSync' /\ BrokenOnlyByFault'
  BY <1>1 DEF OwnReply, WireInSync, BrokenOnlyByFault, Ownership, callVars
<1> QED BY <1>6, <1>7, <1>8, <1>9, <1>10

LEMMA TripFailsInv ==
  ASSUME IInv, TripFails
  PROVE  IInv'
<1> USE DEF IInv
<1>1. /\ UNCHANGED <<callVars, mu, nextID, conn, broken, toSidecar, fromSidecar, sidecar, applied>>
      /\ trip.step \in {"write", "read"} /\ faulty' = TRUE
  BY DEF TripFails
<1> DEFINE failure == [id |-> trip.id, kind |-> "error"]
<1>2. failure \in Outcomes /\ failure.kind = "error"
  BY <1>1 DEF Outcomes, Ownership
<1>3. /\ trip'.id = trip.id /\ trip'.step = "done" /\ trip'.outcome = failure
      /\ trip' \in [id: Nat \cup {None}, step: {"idle", "write", "read", "done"},
                    outcome: Outcomes \cup {None}]
  BY <1>2 DEF TripFails, TypeOK
<1> HIDE DEF failure
<1>4. TypeOK'
  BY <1>1, <1>3 DEF TypeOK, callVars
<1>5. Ownership'
  BY <1>1, <1>3 DEF Ownership, callVars
<1>6. Exchange'
  BY <1>1, <1>2, <1>3 DEF Exchange
<1>7. Requests'
  BY <1>1, <1>3 DEF Requests, Unserved, callVars
<1>8. OwnReply' /\ WireInSync' /\ BrokenOnlyByFault'
  BY <1>1 DEF OwnReply, WireInSync, BrokenOnlyByFault, callVars
<1> QED BY <1>4, <1>5, <1>6, <1>7, <1>8

\* An answer of the sidecar keeps the invariant if it is what the round trip
\* may get: nothing that it did not carry out is answered "ok".
LEMMA AnswerInv ==
  ASSUME IInv, UNCHANGED clientVars, toSidecar # <<>>, toSidecar' = Tail(toSidecar),
         NEW r \in Replies, fromSidecar' = Append(fromSidecar, r),
         sidecar' \in {"up", "dead"}, faulty' \in BOOLEAN, faulty => faulty',
         applied' = applied \/ applied' = applied \cup {Head(toSidecar)},
         ~faulty' => r.id = Head(toSidecar) /\ r.kind \in {"ok", "refused"},
         r.id = Head(toSidecar) /\ r.kind = "ok" => Head(toSidecar) \in applied',
         r.id = Head(toSidecar) /\ r.kind = "refused" => applied' = applied
  PROVE  IInv'
<1> USE DEF IInv, clientVars, callVars
<1>1. PICK id \in Nat : toSidecar = <<id>> /\ Unserved(id)
  BY DEF Requests
<1>2. Head(toSidecar) = id /\ toSidecar' = <<>>
  BY <1>1
<1>3. TypeOK'
  <2>1. fromSidecar \in Seq(Replies)
    BY DEF TypeOK
  <2>2. fromSidecar' \in Seq(Replies)
    <3> HIDE DEF IInv
    <3> QED BY <2>1
  <2>3. toSidecar' \in Seq(Nat)
    <3> HIDE DEF IInv
    <3>1. <<>> \in Seq(Nat)
      OBVIOUS
    <3> QED BY <1>2, <3>1, Zenon
  <2>4. applied \subseteq Nat
    BY DEF TypeOK
  <2>5. applied' \subseteq Nat
    <3> HIDE DEF IInv
    <3> QED BY <1>2, <2>4
  <2> QED BY <2>2, <2>3, <2>5 DEF TypeOK
<1>4. Ownership'
  BY DEF Ownership
<1>5. Exchange'
  <2>1. trip.step # "write"
    BY <1>1 DEF Exchange
  <2>2. CASE trip.step = "read"
    <3>1. trip.id = id /\ fromSidecar = <<>>
      BY <1>1, <2>2 DEF Exchange
    <3>2. fromSidecar' = <<r>>
      BY <3>1
    <3>3. Sound(r)'
      BY <1>1, <1>2, <3>1 DEF Sound, Unserved
    <3> QED BY <1>2, <2>2, <3>2, <3>3 DEF Exchange
  <2>3. CASE trip.step = "done"
    BY <1>1, <2>3 DEF Exchange
  <2>4. CASE trip.step = "idle"
    BY <2>4 DEF Exchange
  <2> QED BY <2>1, <2>2, <2>3, <2>4 DEF TypeOK
<1>6. Requests'
  BY <1>1, <1>2, <1>5 DEF Requests, Unserved, Exchange
<1>7. OwnReply'
  BY <1>1, <1>2 DEF OwnReply, Unserved
<1>8. WireInSync' /\ BrokenOnlyByFault'
  BY <1>1 DEF WireInSync, BrokenOnlyByFault
<1> QED BY <1>3, <1>4, <1>5, <1>6, <1>7, <1>8

LEMMA SidecarInv ==
  ASSUME IInv, SidecarStep
  PROVE  IInv'
<1>0. toSidecar # <<>> => Head(toSidecar) \in Nat
  BY DEF IInv, TypeOK
<1>1. CASE SidecarServes
  <2>1. PICK kind \in {"ok", "refused"} :
          /\ fromSidecar' = Append(fromSidecar, [id |-> Head(toSidecar), kind |-> kind])
          /\ applied' = IF kind = "ok" THEN applied \cup {Head(toSidecar)} ELSE applied
    BY <1>1 DEF SidecarServes
  <2> DEFINE r == [id |-> Head(toSidecar), kind |-> kind]
  <2>2. r \in Replies /\ r.id = Head(toSidecar) /\ r.kind = kind
    BY <1>0, <1>1 DEF Replies, Kinds, SidecarServes
  <2>3. /\ UNCHANGED <<clientVars, sidecar, faulty>>
        /\ toSidecar # <<>> /\ toSidecar' = Tail(toSidecar)
        /\ fromSidecar' = Append(fromSidecar, r)
        /\ sidecar' \in {"up", "dead"} /\ faulty' \in BOOLEAN
    BY <1>1, <2>1 DEF SidecarServes, IInv, TypeOK
  <2> HIDE DEF r
  <2> QED BY <2>1, <2>2, <2>3, AnswerInv
<1>2. CASE SidecarWorkerDies
  <2> DEFINE r == [id |-> Head(toSidecar), kind |-> "worker_dead"]
  <2>1. r \in Replies /\ r.kind = "worker_dead"
    BY <1>0, <1>2 DEF Replies, Kinds, SidecarWorkerDies
  <2>2. /\ UNCHANGED <<clientVars, applied>>
        /\ toSidecar # <<>> /\ toSidecar' = Tail(toSidecar)
        /\ fromSidecar' = Append(fromSidecar, r)
        /\ sidecar' = "dead" /\ faulty' = TRUE
    BY <1>2 DEF SidecarWorkerDies
  <2> HIDE DEF r
  <2> QED BY <2>1, <2>2, AnswerInv
<1>3. CASE SidecarAnswersBadly
  <2>1. PICK id \in -1 .. nextID, kind \in Kinds :
          id # Head(toSidecar) /\ fromSidecar' = Append(fromSidecar, [id |-> id, kind |-> kind])
    BY <1>3 DEF SidecarAnswersBadly
  <2> DEFINE r == [id |-> id, kind |-> kind]
  <2>2. r \in Replies /\ r.id # Head(toSidecar)
    BY <2>1 DEF Replies, IInv, TypeOK
  <2>3. /\ UNCHANGED <<clientVars, sidecar, applied>>
        /\ toSidecar # <<>> /\ toSidecar' = Tail(toSidecar)
        /\ fromSidecar' = Append(fromSidecar, r)
        /\ sidecar' \in {"up", "dead"} /\ faulty' = TRUE
    BY <1>3, <2>1 DEF SidecarAnswersBadly, IInv, TypeOK
  <2> HIDE DEF r
  <2> QED BY <2>2, <2>3, AnswerInv
<1>4. CASE SidecarDies
  <2> USE DEF IInv, clientVars, callVars
  <2>1. /\ UNCHANGED <<clientVars, toSidecar, fromSidecar, applied>>
        /\ sidecar' = "dead" /\ faulty' = TRUE
    BY <1>4 DEF SidecarDies
  <2>2. TypeOK' /\ Ownership'
    BY <2>1 DEF TypeOK, Ownership
  <2>3. Exchange'
    BY <2>1 DEF Exchange, Sound
  <2>4. Requests'
    BY <2>1 DEF Requests, Unserved
  <2> QED BY <2>1, <2>2, <2>3, <2>4 DEF OwnReply, WireInSync, BrokenOnlyByFault
<1> QED BY <1>1, <1>2, <1>3, <1>4 DEF SidecarStep

-----------------------------------------------------------------------------
\* The invariant holds in every state of the specification.
THEOREM Invariance == Spec => []IInv
<1>1. IInv /\ [Next]_vars => IInv'
  <2> SUFFICES ASSUME IInv, [Next]_vars PROVE IInv'
    OBVIOUS
  <2>1. CASE \E c \in Callers : CallerStep(c)
    <3> SUFFICES ASSUME NEW c \in Callers, CallerStep(c) PROVE IInv'
      BY <2>1
    <3> QED BY CallInv, LockAndBreakInv, LockAndSendInv, TakeReplyInv, DetachInv DEF CallerStep
  <2>2. CASE DrainReply \/ Close
    BY <2>2, DrainReplyInv, CloseInv
  <2>3. CASE TripStep
    BY <2>3, TripWritesInv, TripReadsInv, TripFailsInv DEF TripStep
  <2>4. CASE SidecarStep
    BY <2>4, SidecarInv
  <2>5. CASE UNCHANGED vars
    BY <2>5 DEF vars, clientVars, callVars, sidecarVars, IInv, TypeOK, Ownership, Exchange,
                Sound, Requests, Unserved, WireInSync, OwnReply, BrokenOnlyByFault
  <2> QED BY <2>1, <2>2, <2>3, <2>4, <2>5 DEF Next
<1> QED BY <1>1, InitInv, PTL DEF Spec

\* The client's variables keep their types.
THEOREM TypeCorrect == Spec => []TypeOK
<1>1. IInv => TypeOK
  BY DEF IInv
<1> QED BY <1>1, Invariance, PTL

\* No reply is owed on a trusted connection whose mutex is free.
THEOREM NothingOwed == Spec => []WireInSync
<1>1. IInv => WireInSync
  BY DEF IInv
<1> QED BY <1>1, Invariance, PTL

\* What a call returns is the truth about its own request.
THEOREM RepliesAreOwn == Spec => []OwnReply
<1>1. IInv => OwnReply
  BY DEF IInv
<1> QED BY <1>1, Invariance, PTL

\* A caller that gives up never breaks the connection.
THEOREM GivingUpBreaksNothing == Spec => []BrokenOnlyByFault
<1>1. IInv => BrokenOnlyByFault
  BY DEF IInv
<1> QED BY <1>1, Invariance, PTL
=============================================================================
