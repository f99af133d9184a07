-------------------------- MODULE EventStateMachine --------------------------
(***************************************************************************)
(* The DERControl event engine of one device: internal/inverter/           *)
(* statemachine.go with its scheduler, driven by stepEvents of             *)
(* cmd/inverterclient/main.go, and the Response hook it fires.             *)
(*                                                                         *)
(* One step of the driving goroutine is: read the cache's rejected items   *)
(* and Reject them; read the cache's controls, compare them with the       *)
(* previous snapshot and Tick.  Both hold the machine's mutex while they   *)
(* compute, and fire the recorded transitions after they unlock, on the    *)
(* same goroutine.  The two reads are separate, so the list they see may   *)
(* have changed in between: here each read sees any list at all.           *)
(* DERControlSession.tla feeds the same actions from a cache.              *)
(***************************************************************************)
EXTENDS EventQueue, Sequences

CONSTANTS None,            \* no event
          Horizon,         \* bound on the clock readings
          ClockStepsBack   \* may a time sync step the clock back?

ASSUME ClockAssumption == Horizon \in Nat /\ ClockStepsBack \in BOOLEAN

ASSUME NoneAssumption == None \notin MRIDs /\ None \notin Int

VARIABLES
  sm,        \* the machine and its queue: state, active, expireAt, queue, rejected
  prev,      \* the snapshot of the last Tick, as the driving goroutine holds it
  now,       \* client.Now() as this step read it
  pc,        \* "reject" or "tick": what the driving goroutine runs next
  pending,   \* transitions recorded under the mutex, their hooks not yet fired
  answered   \* the last Response status posted about each event, 0 for none

vars == <<sm, prev, now, pc, pending, answered>>

\* The states the machine rests in, and those only a transition record names.
Resting == {"DEFAULT", "EVENT_RECEIVED", "EVENT_STARTED"}
EventState == Resting \cup {"EVENT_COMPLETED", "EVENT_CANCELLED", "EVENT_REJECTED"}

\* What a list can say about an mRID.  A control the validator refuses is
\* "unsupported"; an item whose DERControlBase does not decode is "garbled".
Control == {"scheduled", "noInterval", "unsupported", "cancelled"}
RejectedItem == {"garbled", "garbledCancelled"}
Lists == [MRIDs -> Control \cup RejectedItem \cup {"absent"}]

\* Refresh: the cache's controls, its rejected items, and a snapshot of them.
Controls(list) == {e \in MRIDs : list[e] \in Control}
RejectedItems(list) == {e \in MRIDs : list[e] \in RejectedItem}
Snapshot(list) == [e \in Controls(list) |-> list[e]]
IsSnapshot(p) == DOMAIN p \subseteq MRIDs /\ p \in [DOMAIN p -> Control]

\* diffSnapshots of the previous snapshot and the current one.
Added(p, curr) == {e \in DOMAIN curr \ DOMAIN p : curr[e] # "cancelled"}
\* Mutant: a control that vanished from the list is not taken for cancelled.
CancelledIfMarked(p, curr) == {e \in DOMAIN curr : curr[e] = "cancelled"}

Cancelled(p, curr) == {e \in DOMAIN curr : curr[e] = "cancelled"} \cup (DOMAIN p \ DOMAIN curr)

-----------------------------------------------------------------------------
(* One pass of the machine, as functions of a machine record m.            *)

IsMachine(m) ==
  /\ m = [state |-> m.state, active |-> m.active, expireAt |-> m.expireAt,
          queue |-> m.queue, rejected |-> m.rejected]
  /\ m.state \in Resting
  /\ m.active \in MRIDs \cup {None}
  /\ m.expireAt \in Int \cup {None}
  /\ IsQueue(m.queue)
  /\ m.rejected \subseteq MRIDs

Transition == [prev: EventState, next: EventState, mRID: MRIDs]

\* A pass p is the machine as it goes and the transitions recorded so far.
\* transitionLocked with an event: enter next and record it.
Enter(p, next) ==
  [machine |-> [p.machine EXCEPT !.state = next],
   out |-> Append(p.out, [prev |-> p.machine.state, next |-> next, mRID |-> p.machine.active])]

\* transitionLocked to DEFAULT.  Its record carries no event and no hook acts
\* on it, so it is not kept.
Revert(p) ==
  [p EXCEPT !.machine = [@ EXCEPT !.state = "DEFAULT", !.active = None, !.expireAt = None]]

\* The scheduler's queue becomes q.
Requeue(p, q) == [p EXCEPT !.machine = [@ EXCEPT !.queue = q]]

\* The active event becomes e, as it is queued.
Activate(p, e, entry) ==
  [p EXCEPT !.machine = [@ EXCEPT !.active = e, !.expireAt = entry.expireAt]]

\* The orders in which a pass can meet the events of a set.
Orders(S) == {s \in [1 .. Cardinality(S) -> S] : \A i, j \in DOMAIN s : s[i] = s[j] => i = j}

\* Mutant: only an item that is the active event is answered.
RejectAllAnsweringActive(m, refused, order) ==
  LET kept == [machine |-> [m EXCEPT !.rejected = @ \cup refused,
                                     !.queue = OnEventsCancelled(@, refused)],
               out |-> <<>>]
  IN  IF m.active \in refused /\ m.state # "DEFAULT"
        THEN Revert(Enter(kept, "EVENT_REJECTED")) ELSE kept

\* Reject of the rejected items refused, in the order they were listed.
RejectAll(m, refused, order) ==
  LET record(i) ==
        [prev |-> IF \E j \in 1 .. i - 1 : order[j] = m.active THEN "DEFAULT" ELSE m.state,
         next |-> "EVENT_REJECTED", mRID |-> order[i]]
      kept == [machine |-> [m EXCEPT !.rejected = @ \cup refused,
                                     !.queue = OnEventsCancelled(@, refused)],
               out |-> [i \in DOMAIN order |-> record(i)]]
  IN  IF m.active \in refused /\ m.state # "DEFAULT" THEN Revert(kept) ELSE kept

\* Step 1: added events the machine refuses are rejected, the rest scheduled.
\* An accepted event with no interval is skipped by the scheduler.
Refused(m, added, curr) == {e \in added \ m.rejected : curr[e] = "unsupported"}
\* Mutant: a re-added event is not looked up among the rejected ones.
AcceptedAgain(m, added, curr) == added \ Refused(m, added, curr)

Accepted(m, added, curr) == (added \ m.rejected) \ Refused(m, added, curr)
Schedulable(m, added, curr) == {e \in Accepted(m, added, curr) : curr[e] = "scheduled"}

Admit(m, added, curr, order, windows, sort) ==
  [machine |-> [m EXCEPT !.rejected = @ \cup Refused(m, added, curr),
                         !.queue = IF Accepted(m, added, curr) = {} THEN @
                                   ELSE OnEventsAdded(@, windows, sort)],
   out |-> [i \in DOMAIN order |->
              [prev |-> m.state, next |-> "EVENT_REJECTED", mRID |-> order[i]]]]

\* Mutant: a cancelled event leaves the queue, but stays the active one.
CancelQueued(p, gone) == Requeue(p, OnEventsCancelled(p.machine.queue, gone))

\* Step 2: cancelled events leave the queue, and the active one its window.
Cancel(p, gone) ==
  LET q == Requeue(p, OnEventsCancelled(p.machine.queue, gone))
  IN  IF p.machine.active \in gone /\ p.machine.state # "DEFAULT"
        THEN Revert(Enter(q, "EVENT_CANCELLED")) ELSE q

\* Step 3, and the end of step 4: the started event's window is over.
Expired(m, t) == m.state = "EVENT_STARTED" /\ m.expireAt # None /\ t >= m.expireAt

\* Mutant: the completed event is not cleared.
CompleteWithoutRevert(p, t) ==
  IF Expired(p.machine, t) THEN Enter(p, "EVENT_COMPLETED") ELSE p

Complete(p, t) ==
  IF Expired(p.machine, t) THEN Revert(Enter(p, "EVENT_COMPLETED")) ELSE p

\* Mutant of StartDue: an event popped after its expiry is left running.
StartDueOnly(p, t) ==
  LET q      == p.machine.queue
      head   == HeadOf(q)
      popped == Requeue(p, PopExpired(q, t))
      seen   == IF p.machine.state = "DEFAULT"
                  THEN Enter(Activate(popped, head, q[head]), "EVENT_RECEIVED")
                  ELSE popped
  IN  IF Due(q, t) = {} THEN p
      ELSE IF seen.machine.state = "EVENT_RECEIVED" /\ seen.machine.active = head
        THEN Enter(Activate(seen, head, q[head]), "EVENT_STARTED")
        ELSE seen

\* Mutant of StartDue: a due event that was never announced starts at once.
StartDueUnannounced(p, t) ==
  LET q    == p.machine.queue
      head == HeadOf(q)
  IN  IF Due(q, t) = {} THEN p
      ELSE IF p.machine.state = "DEFAULT" \/ p.machine.active = head
        THEN Complete(Enter(Activate(Requeue(p, PopExpired(q, t)), head, q[head]),
                            "EVENT_STARTED"), t)
        ELSE Requeue(p, PopExpired(q, t))

\* Step 4: pop what is due.  The head starts if the machine is idle or has
\* received it; every other popped event is dropped.
StartDue(p, t) ==
  LET q      == p.machine.queue
      head   == HeadOf(q)
      popped == Requeue(p, PopExpired(q, t))
      seen   == IF p.machine.state = "DEFAULT"
                  THEN Enter(Activate(popped, head, q[head]), "EVENT_RECEIVED")
                  ELSE popped
  IN  IF Due(q, t) = {} THEN p
      ELSE IF seen.machine.state = "EVENT_RECEIVED" /\ seen.machine.active = head
        THEN Complete(Enter(Activate(seen, head, q[head]), "EVENT_STARTED"), t)
        ELSE seen

\* Step 5: an idle machine announces the head of its queue.
Announce(p) ==
  LET q == p.machine.queue
  IN  IF p.machine.state = "DEFAULT" /\ DOMAIN q # {}
        THEN Enter(Activate(p, HeadOf(q), q[HeadOf(q)]), "EVENT_RECEIVED")
        ELSE p

\* computeTransitionsLocked, all five steps.
Pass(m, added, curr, order, windows, sort, gone, t) ==
  Announce(StartDue(Complete(Cancel(
    Admit(m, added, curr, order, windows, sort), gone), t), t))

-----------------------------------------------------------------------------
(* The driving goroutine.                                                  *)

Time == 0 .. Horizon

Init ==
  /\ sm = [state |-> "DEFAULT", active |-> None, expireAt |-> None,
           queue |-> EmptyQueue, rejected |-> {}]
  /\ prev \in {Snapshot(list) : list \in Lists}
  /\ now = 0
  /\ pc = "reject"
  /\ pending = <<>>
  /\ answered = [e \in MRIDs |-> 0]

\* Ticks are at least a minute apart (pinPollInterval), so a later step reads
\* a later clock, unless a time sync moved the clock back.
Reading(t) == t > now \/ t = Horizon \/ ClockStepsBack

\* Mutant: the snapshot to compare with is taken here, not by the last tick.
RejectAndCompare(list) ==
  /\ pc = "reject" /\ pending = <<>>
  /\ LET refused == {e \in RejectedItems(list) : list[e] = "garbled"} \ sm.rejected
     IN  \E order \in Orders(refused) :
           LET p == RejectAll(sm, refused, order)
           IN  sm' = p.machine /\ pending' = p.out
  /\ now' \in {t \in Time : Reading(t)}
  /\ pc' = "tick"
  /\ prev' = Snapshot(list)
  /\ UNCHANGED answered

\* stepEvents reads the clock and the rejected items, and rejects those it has
\* not rejected before and the server has not cancelled.
Reject(list) ==
  /\ pc = "reject" /\ pending = <<>>
  /\ LET refused == {e \in RejectedItems(list) : list[e] = "garbled"} \ sm.rejected
     IN  \E order \in Orders(refused) :
           LET p == RejectAll(sm, refused, order)
           IN  sm' = p.machine /\ pending' = p.out
  /\ now' \in {t \in Time : Reading(t)}
  /\ pc' = "tick"
  /\ UNCHANGED <<prev, answered>>

\* stepEvents takes a snapshot of the cache, and ticks on what changed.
Tick(list) ==
  /\ pc = "tick" /\ pending = <<>>
  /\ LET curr  == Snapshot(list)
         added == Added(prev, curr)
     IN  /\ \E order \in Orders(Refused(sm, added, curr)),
               windows \in [Schedulable(sm, added, curr) -> Windows],
               sort \in Sorts :
              LET p == Pass(sm, added, curr, order, windows, sort, Cancelled(prev, curr), now)
              IN  sm' = p.machine /\ pending' = p.out
         /\ prev' = curr
  /\ pc' = "reject"
  /\ UNCHANGED <<now, answered>>

\* Mutant: only the cancellation of a running event is answered.
StatusOfStarted(t) ==
  CASE t.next = "EVENT_RECEIVED" -> 1
    [] t.next = "EVENT_STARTED" /\ t.prev = "EVENT_RECEIVED" -> 2
    [] t.next = "EVENT_COMPLETED" /\ t.prev = "EVENT_STARTED" -> 3
    [] t.next = "EVENT_CANCELLED" /\ t.prev = "EVENT_STARTED" -> 6
    [] t.next = "EVENT_REJECTED" -> 253
    [] OTHER -> 0

\* mapTransitionToStatus
StatusOf(t) ==
  CASE t.next = "EVENT_RECEIVED" -> 1
    [] t.next = "EVENT_STARTED" /\ t.prev = "EVENT_RECEIVED" -> 2
    [] t.next = "EVENT_COMPLETED" /\ t.prev = "EVENT_STARTED" -> 3
    [] t.next = "EVENT_CANCELLED" -> 6
    [] t.next = "EVENT_REJECTED" -> 253
    [] OTHER -> 0

\* fireTransitions: one recorded transition reaches the Response hook, which
\* posts its status.  Every event here has a replyTo and asks for every status.
Fire ==
  /\ pending # <<>>
  /\ LET t == Head(pending)
     IN  answered' = IF StatusOf(t) = 0 THEN answered
                     ELSE [answered EXCEPT ![t.mRID] = StatusOf(t)]
  /\ pending' = Tail(pending)
  /\ UNCHANGED <<sm, prev, now, pc>>

Next ==
  \/ \E list \in Lists : Reject(list) \/ Tick(list)
  \/ Fire

Spec == Init /\ [][Next]_vars

-----------------------------------------------------------------------------
(* What the engine promises.                                               *)

TypeOK ==
  /\ IsMachine(sm)
  /\ IsSnapshot(prev)
  /\ now \in Time
  /\ pc \in {"reject", "tick"}
  /\ pending \in Seq(Transition)
  /\ answered \in [MRIDs -> {0, 1, 2, 3, 6, 253}]

Tracked(m) == DOMAIN m.queue \cup ({m.active} \ {None})

\* A refused event is never scheduled, received or started again, even when a
\* well-formed control with the same mRID arrives in a later list.
RejectedNeverTracked == sm.rejected \cap Tracked(sm) = {}

\* The engine forgets what the server took away: whatever is queued, received
\* or running was in the snapshot of the last tick and not cancelled there.
TrackedStillListed == \A e \in Tracked(sm) : e \in DOMAIN prev /\ prev[e] # "cancelled"

\* A running event left the queue, so it cannot start a second time.
StartedNotQueued == sm.state = "EVENT_STARTED" => sm.active \notin DOMAIN sm.queue

\* Right after a tick nothing is overdue: no queued event has reached its fire
\* time and no running event its expiry, and the machine announces whatever
\* is queued instead of resting in DEFAULT.
NothingOverdue ==
  pc = "reject" =>
    /\ Due(sm.queue, now) = {}
    /\ ~Expired(sm, now)
    /\ sm.state = "DEFAULT" => DOMAIN sm.queue = {}

\* Once the hooks have run, the server's last answer about an event says what
\* the machine does with it: received (1) or started (2) for the active event
\* and for no other.
AnswersMatchState ==
  pending = <<>> =>
    \A e \in MRIDs :
      /\ answered[e] = 1 <=> sm.state = "EVENT_RECEIVED" /\ sm.active = e
      /\ answered[e] = 2 <=> sm.state = "EVENT_STARTED" /\ sm.active = e
      /\ answered[e] = 253 <=> e \in sm.rejected

\* The trail of Response statuses of every event is a legal one.
Answers == INSTANCE EventAnswers WITH MRIDs <- MRIDs, answered <- answered
AnswersLegal == Answers!Spec

\* Every started event ends: it completes, is cancelled or is rejected.
StartedEnds ==
  \A e \in MRIDs :
    (sm.state = "EVENT_STARTED" /\ sm.active = e) ~> (sm.active # e)

\* Step 4 of the transition order promises that "each popped event triggers
\* DEFAULT -> EVENT_RECEIVED -> EVENT_STARTED if it matches the active mRID":
\* a received event whose fire time is reached is started by that tick, unless
\* the server cancelled it.
DueReceivedStarts ==
  [][(/\ pc = "tick" /\ pc' = "reject"
      /\ sm.state = "EVENT_RECEIVED" /\ sm.active \in Due(sm.queue, now))
       => \E i \in DOMAIN pending' :
            /\ pending'[i].mRID = sm.active
            /\ pending'[i].next \in {"EVENT_STARTED", "EVENT_CANCELLED"}]_vars
=============================================================================
