----------------------------- MODULE EventProofs -----------------------------
(***************************************************************************)
(* Proofs about EventStateMachine, for any set of events, any intervals    *)
(* and any clock: first what the engine tracks and starts, then what it    *)
(* answers, up to the refinement of EventAnswers, and last that all it     *)
(* keeps is kept by the session, which feeds it from the cache.            *)
(***************************************************************************)
EXTENDS DERControlSession, FiniteSetTheorems, TLAPS

-----------------------------------------------------------------------------
(* The queue.                                                              *)

\* The entries that come before a in the queue.
Predecessors(q, a) == {b \in DOMAIN q : Before(q, b, a)}

\* A queue that is not empty has a head: an entry that no other precedes, which
\* is what Scheduler.Next returns.
LEMMA HeadInQueue ==
  ASSUME NEW q, IsQueue(q), DOMAIN q # {}
  PROVE  /\ HeadOf(q) \in DOMAIN q
         /\ \A b \in DOMAIN q \ {HeadOf(q)} : ~Before(q, b, HeadOf(q))
<1> DEFINE D == DOMAIN q
<1> DEFINE R == StrictSubsetOrdering(D)
<1> DEFINE T == {Predecessors(q, a) : a \in D}
<1>1. IsFiniteSet(D)
  BY MRIDsAssumption, FS_Subset DEF IsQueue
<1>2. T \subseteq FiniteSubsetsOf(D)
  <2> SUFFICES ASSUME NEW a \in D PROVE Predecessors(q, a) \in FiniteSubsetsOf(D)
    OBVIOUS
  <2>1. Predecessors(q, a) \in SUBSET D
    BY DEF Predecessors
  <2> QED BY <1>1, <2>1, FS_Subset DEF FiniteSubsetsOf
<1>3. T # {}
  OBVIOUS
<1>4. PICK X \in T : \A Y \in T : ~(<<Y, X>> \in R)
  BY <1>2, <1>3, FS_StrictSubsetOrderingWellFounded, WFMin, Zenon
<1>5. PICK a \in D : X = Predecessors(q, a)
  OBVIOUS
<1>6. \A b \in D \ {a} : ~Before(q, b, a)
  <2> SUFFICES ASSUME NEW b \in D \ {a}, Before(q, b, a) PROVE FALSE
    OBVIOUS
  <2>1. \A c \in D : q[c].fireAt \in Int /\ q[c].place \in Nat
    BY DEF IsQueue, Entry
  <2>2. Predecessors(q, b) \subseteq Predecessors(q, a)
    BY <2>1 DEF Predecessors, Before
  <2>3. b \in Predecessors(q, a) /\ b \notin Predecessors(q, b)
    BY <2>1 DEF Predecessors, Before
  <2>4. <<Predecessors(q, b), Predecessors(q, a)>> \in R
    BY <2>2, <2>3 DEF StrictSubsetOrdering, Predecessors
  <2> QED BY <1>4, <1>5, <2>4
<1> QED BY <1>6 DEF HeadOf

\* Removing entries leaves a queue.
LEMMA WithoutIsQueue ==
  ASSUME NEW q, NEW gone, IsQueue(q)
  PROVE  /\ IsQueue(Without(q, gone))
         /\ DOMAIN Without(q, gone) = DOMAIN q \ gone
         /\ \A e \in DOMAIN q \ gone : Without(q, gone)[e] = q[e]
BY DEF Without, IsQueue

\* A drawn window never ends before it starts, whatever the randomization:
\* computeWindow clamps the jittered duration at zero.
LEMMA WindowsOrdered == Windows \subseteq Window
<1> SUFFICES ASSUME NEW iv \in Intervals, NEW s \in StartTimes(iv),
                    NEW d \in RandomizedDurations(iv)
             PROVE  [fireAt |-> s, expireAt |-> IF d < 0 THEN s ELSE s + d] \in Window
  BY DEF Windows, WindowsOf
<1>1. iv.start \in Int /\ iv.randomizeStart \in Int
  BY IntervalsAssumption
<1>2. s \in Int
  BY <1>1 DEF StartTimes
<1>3. d \in Int
  BY DEF RandomizedDurations
<1> QED BY <1>2, <1>3 DEF Window

\* Scheduling events leaves a queue, which holds them and what it held.
LEMMA OnEventsAddedIsQueue ==
  ASSUME NEW q, IsQueue(q), NEW E \in SUBSET MRIDs,
         NEW windows \in [E -> Windows], NEW sort \in Sorts
  PROVE  /\ IsQueue(OnEventsAdded(q, windows, sort))
         /\ DOMAIN OnEventsAdded(q, windows, sort) = DOMAIN q \cup E
<1>1. DOMAIN OnEventsAdded(q, windows, sort) = DOMAIN q \cup E
  BY DEF OnEventsAdded
<1>2. \A e \in E : windows[e].fireAt \in Int /\ windows[e].expireAt \in Int
  BY WindowsOrdered DEF Window
<1>3. \A e \in DOMAIN q : q[e].fireAt \in Int /\ q[e].expireAt \in Int
  BY DEF IsQueue, Entry
<1>4. Cardinality(MRIDs) \in Nat
  BY MRIDsAssumption, FS_CardinalityType
<1>5. \A e \in MRIDs : sort[e] \in Nat
  BY <1>4 DEF Sorts
<1>6. \A e \in DOMAIN q \cup E : OnEventsAdded(q, windows, sort)[e] \in Entry
  BY <1>2, <1>3, <1>5 DEF OnEventsAdded, IsQueue, Entry
<1> QED BY <1>1, <1>6 DEF IsQueue, OnEventsAdded

-----------------------------------------------------------------------------
(* The shape of a pass, and the building blocks of its steps.              *)

HasMachineFields(m) ==
  /\ m = [state |-> m.state, active |-> m.active, expireAt |-> m.expireAt,
          queue |-> m.queue, rejected |-> m.rejected]
  /\ m.state \in EventState
  /\ m.active \in MRIDs \cup {None}
  /\ m.expireAt \in Int \cup {None}
  /\ IsQueue(m.queue)
  /\ m.rejected \subseteq MRIDs

IsPass(p) ==
  /\ p = [machine |-> p.machine, out |-> p.out]
  /\ p.out \in Seq(Transition)
  /\ HasMachineFields(p.machine)

\* What a machine between two steps of a pass satisfies.
Consistent(m) ==
  /\ m.state \in Resting
  /\ m.active = None <=> m.state = "DEFAULT"
  /\ m.state = "EVENT_STARTED" => m.expireAt \in Int /\ m.active \notin DOMAIN m.queue
  /\ m.rejected \cap Tracked(m) = {}

Good(p) == IsPass(p) /\ Consistent(p.machine)

LEMMA EnterFields ==
  ASSUME NEW p, IsPass(p), p.machine.active \in MRIDs, NEW next \in EventState
  PROVE  /\ IsPass(Enter(p, next))
         /\ Enter(p, next).machine.state = next
         /\ Enter(p, next).machine.active = p.machine.active
         /\ Enter(p, next).machine.expireAt = p.machine.expireAt
         /\ Enter(p, next).machine.queue = p.machine.queue
         /\ Enter(p, next).machine.rejected = p.machine.rejected
<1> DEFINE t == [prev |-> p.machine.state, next |-> next, mRID |-> p.machine.active]
<1> DEFINE m == [p.machine EXCEPT !.state = next]
<1>1. t \in Transition
  BY DEF IsPass, HasMachineFields, Transition
<1>2. Append(p.out, t) \in Seq(Transition)
  BY <1>1 DEF IsPass
<1>3. m = [state |-> next, active |-> p.machine.active, expireAt |-> p.machine.expireAt,
           queue |-> p.machine.queue, rejected |-> p.machine.rejected]
  BY DEF IsPass, HasMachineFields
<1>4. Enter(p, next) = [machine |-> m, out |-> Append(p.out, t)]
  BY DEF Enter
<1> HIDE DEF t, m
<1> QED BY <1>2, <1>3, <1>4 DEF IsPass, HasMachineFields

LEMMA RevertFields ==
  ASSUME NEW p, IsPass(p)
  PROVE  /\ IsPass(Revert(p))
         /\ Revert(p).machine.state = "DEFAULT"
         /\ Revert(p).machine.active = None
         /\ Revert(p).machine.expireAt = None
         /\ Revert(p).machine.queue = p.machine.queue
         /\ Revert(p).machine.rejected = p.machine.rejected
<1> DEFINE m == [p.machine EXCEPT !.state = "DEFAULT", !.active = None, !.expireAt = None]
<1>1. m = [state |-> "DEFAULT", active |-> None, expireAt |-> None,
           queue |-> p.machine.queue, rejected |-> p.machine.rejected]
  <2>1. /\ DOMAIN m = {"state", "active", "expireAt", "queue", "rejected"}
        /\ m = [field \in DOMAIN m |-> m[field]]
    BY DEF IsPass, HasMachineFields
  <2>2. m.state = "DEFAULT" /\ m.active = None /\ m.expireAt = None
    BY DEF IsPass, HasMachineFields
  <2>3. m.queue = p.machine.queue /\ m.rejected = p.machine.rejected
    BY DEF IsPass, HasMachineFields
  <2> HIDE DEF m
  <2> QED BY <2>1, <2>2, <2>3
<1>2. Revert(p) = [machine |-> m, out |-> p.out]
  BY DEF Revert, IsPass
<1> HIDE DEF m
<1> QED BY <1>1, <1>2 DEF IsPass, HasMachineFields, EventState, Resting

LEMMA ActivateFields ==
  ASSUME NEW p, IsPass(p), NEW e \in MRIDs, NEW entry \in Entry
  PROVE  /\ IsPass(Activate(p, e, entry))
         /\ Activate(p, e, entry).machine.state = p.machine.state
         /\ Activate(p, e, entry).machine.active = e
         /\ Activate(p, e, entry).machine.expireAt = entry.expireAt
         /\ Activate(p, e, entry).machine.queue = p.machine.queue
         /\ Activate(p, e, entry).machine.rejected = p.machine.rejected
<1> DEFINE m == [p.machine EXCEPT !.active = e, !.expireAt = entry.expireAt]
<1>1. m = [state |-> p.machine.state, active |-> e, expireAt |-> entry.expireAt,
           queue |-> p.machine.queue, rejected |-> p.machine.rejected]
  <2>1. /\ DOMAIN m = {"state", "active", "expireAt", "queue", "rejected"}
        /\ m = [field \in DOMAIN m |-> m[field]]
    BY DEF IsPass, HasMachineFields
  <2>2. m.active = e /\ m.expireAt = entry.expireAt
    BY DEF IsPass, HasMachineFields
  <2>3. m.state = p.machine.state /\ m.queue = p.machine.queue
        /\ m.rejected = p.machine.rejected
    BY DEF IsPass, HasMachineFields
  <2> HIDE DEF m
  <2> QED BY <2>1, <2>2, <2>3
<1>2. Activate(p, e, entry) = [machine |-> m, out |-> p.out]
  BY DEF Activate, IsPass
<1>3. entry.expireAt \in Int
  BY DEF Entry
<1> HIDE DEF m
<1> QED BY <1>1, <1>2, <1>3 DEF IsPass, HasMachineFields

LEMMA RequeueFields ==
  ASSUME NEW p, IsPass(p), NEW q, IsQueue(q)
  PROVE  /\ IsPass(Requeue(p, q))
         /\ Requeue(p, q).machine.state = p.machine.state
         /\ Requeue(p, q).machine.active = p.machine.active
         /\ Requeue(p, q).machine.expireAt = p.machine.expireAt
         /\ Requeue(p, q).machine.queue = q
         /\ Requeue(p, q).machine.rejected = p.machine.rejected
<1> DEFINE m == [p.machine EXCEPT !.queue = q]
<1>1. m = [state |-> p.machine.state, active |-> p.machine.active,
           expireAt |-> p.machine.expireAt, queue |-> q, rejected |-> p.machine.rejected]
  BY DEF IsPass, HasMachineFields
<1>2. Requeue(p, q) = [machine |-> m, out |-> p.out]
  BY DEF Requeue, IsPass
<1> HIDE DEF m
<1> QED BY <1>1, <1>2 DEF IsPass, HasMachineFields

-----------------------------------------------------------------------------
(* The steps of a pass.  Each keeps a good pass good and tracks no event   *)
(* that was not tracked before.                                            *)

\* Transition records of rejections, in any order, make a sequence.
LEMMA RejectionsAreTransitions ==
  ASSUME NEW S \in SUBSET MRIDs, NEW order \in Orders(S), NEW out,
         DOMAIN out = DOMAIN order, out = [i \in DOMAIN out |-> out[i]],
         \A i \in DOMAIN out : out[i] \in Transition
  PROVE  out \in Seq(Transition)
<1>1. Cardinality(S) \in Nat
  BY MRIDsAssumption, FS_Subset, FS_CardinalityType
<1>2. DOMAIN out = 1 .. Cardinality(S)
  BY DEF Orders
<1> QED BY <1>1, <1>2

LEMMA CancelStep ==
  ASSUME NEW p, Good(p), NEW gone
  PROVE  /\ Good(Cancel(p, gone))
         /\ Tracked(Cancel(p, gone).machine) \subseteq Tracked(p.machine) \ gone
<1> DEFINE q == Requeue(p, OnEventsCancelled(p.machine.queue, gone))
<1>1. q = Requeue(p, Without(p.machine.queue, gone))
  BY DEF OnEventsCancelled
<1>2. /\ IsQueue(Without(p.machine.queue, gone))
      /\ DOMAIN Without(p.machine.queue, gone) = DOMAIN p.machine.queue \ gone
  BY WithoutIsQueue DEF Good, IsPass, HasMachineFields
<1> HIDE DEF q
<1>3. /\ IsPass(q)
      /\ q.machine.state = p.machine.state
      /\ q.machine.active = p.machine.active
      /\ q.machine.expireAt = p.machine.expireAt
      /\ q.machine.queue = Without(p.machine.queue, gone)
      /\ q.machine.rejected = p.machine.rejected
  BY <1>1, <1>2, RequeueFields DEF Good
<1>4. CASE p.machine.active \in gone /\ p.machine.state # "DEFAULT"
  <2>1. Cancel(p, gone) = Revert(Enter(q, "EVENT_CANCELLED"))
    BY <1>4 DEF Cancel, q
  <2>2. p.machine.active \in MRIDs
    BY <1>4 DEF Good, IsPass, HasMachineFields, Consistent
  <2>3. "EVENT_CANCELLED" \in EventState
    BY DEF EventState
  <2> DEFINE c == Enter(q, "EVENT_CANCELLED")
  <2>4. /\ IsPass(c)
        /\ c.machine.queue = q.machine.queue
        /\ c.machine.rejected = q.machine.rejected
    BY <1>3, <2>2, <2>3, EnterFields
  <2> HIDE DEF c
  <2> DEFINE r == Revert(c)
  <2>5. /\ IsPass(r)
        /\ r.machine.state = "DEFAULT" /\ r.machine.active = None
        /\ r.machine.queue = c.machine.queue
        /\ r.machine.rejected = c.machine.rejected
    BY <2>4, RevertFields
  <2>6. Cancel(p, gone) = r
    BY <2>1 DEF c
  <2> HIDE DEF r
  <2> QED BY <1>2, <1>3, <2>4, <2>5, <2>6 DEF Good, Consistent, Tracked, Resting
<1>5. CASE ~(p.machine.active \in gone /\ p.machine.state # "DEFAULT")
  <2>1. Cancel(p, gone) = q
    BY <1>5 DEF Cancel, q
  <2> QED BY <1>2, <1>3, <1>5, <2>1 DEF Good, Consistent, Tracked
<1> QED BY <1>4, <1>5

LEMMA CompleteStep ==
  ASSUME NEW p, Good(p), NEW t \in Int
  PROVE  /\ Good(Complete(p, t))
         /\ Tracked(Complete(p, t).machine) \subseteq Tracked(p.machine)
         /\ Complete(p, t).machine.queue = p.machine.queue
         /\ ~Expired(Complete(p, t).machine, t)
<1>1. CASE Expired(p.machine, t)
  <2> DEFINE c == Enter(p, "EVENT_COMPLETED")
  <2>1. p.machine.active \in MRIDs /\ "EVENT_COMPLETED" \in EventState
    BY <1>1 DEF Good, IsPass, HasMachineFields, Consistent, Expired, EventState
  <2>2. /\ IsPass(c)
        /\ c.machine.queue = p.machine.queue
        /\ c.machine.rejected = p.machine.rejected
    BY <2>1, EnterFields DEF Good
  <2> HIDE DEF c
  <2> DEFINE r == Revert(c)
  <2>3. /\ IsPass(r)
        /\ r.machine.state = "DEFAULT" /\ r.machine.active = None
        /\ r.machine.queue = c.machine.queue
        /\ r.machine.rejected = c.machine.rejected
    BY <2>2, RevertFields
  <2>4. Complete(p, t) = r
    BY <1>1 DEF Complete, c
  <2> HIDE DEF r
  <2> QED BY <2>2, <2>3, <2>4 DEF Good, Consistent, Tracked, Resting, Expired
<1>2. CASE ~Expired(p.machine, t)
  BY <1>2 DEF Complete
<1> QED BY <1>1, <1>2

\* If anything is due, the head of the queue is.
LEMMA HeadIsDue ==
  ASSUME NEW q, IsQueue(q), NEW t \in Int, Due(q, t) # {}
  PROVE  HeadOf(q) \in Due(q, t)
<1>1. PICK e \in DOMAIN q : q[e].fireAt <= t
  BY DEF Due
<1>2. HeadOf(q) \in DOMAIN q /\ (~Before(q, e, HeadOf(q)) \/ HeadOf(q) = e)
  BY <1>1, HeadInQueue
<1>3. \A a \in DOMAIN q : q[a].fireAt \in Int /\ q[a].place \in Nat
  BY DEF IsQueue, Entry
<1> QED BY <1>1, <1>2, <1>3 DEF Due, Before

LEMMA StartDueStep ==
  ASSUME NEW p, Good(p), NEW t \in Int, ~Expired(p.machine, t)
  PROVE  /\ Good(StartDue(p, t))
         /\ Tracked(StartDue(p, t).machine) \subseteq Tracked(p.machine)
         /\ Due(StartDue(p, t).machine.queue, t) = {}
         /\ ~Expired(StartDue(p, t).machine, t)
<1> DEFINE q == p.machine.queue
<1> DEFINE head == HeadOf(q)
<1> DEFINE popped == Requeue(p, PopExpired(q, t))
<1> DEFINE received == Enter(Activate(popped, head, q[head]), "EVENT_RECEIVED")
<1> DEFINE seen == IF p.machine.state = "DEFAULT" THEN received ELSE popped
<1> DEFINE started == Enter(Activate(seen, head, q[head]), "EVENT_STARTED")
<1> DEFINE starts == seen.machine.state = "EVENT_RECEIVED" /\ seen.machine.active = head
<1>1. StartDue(p, t) = IF Due(q, t) = {} THEN p
                       ELSE IF starts THEN Complete(started, t) ELSE seen
  BY DEF StartDue
<1>2. CASE Due(q, t) = {}
  BY <1>1, <1>2
<1>3. CASE Due(q, t) # {}
  <2>1. /\ IsPass(p) /\ Consistent(p.machine) /\ IsQueue(q)
        /\ p.machine.state \in Resting
    BY DEF Good, IsPass, HasMachineFields, Consistent
  <2>2. head \in Due(q, t) /\ head \in DOMAIN q /\ head \in MRIDs /\ q[head] \in Entry
    BY <1>3, <2>1, HeadIsDue DEF Due, IsQueue
  <2>3. /\ IsQueue(PopExpired(q, t))
        /\ DOMAIN PopExpired(q, t) = DOMAIN q \ Due(q, t)
        /\ \A e \in DOMAIN q \ Due(q, t) : PopExpired(q, t)[e] = q[e]
    BY <2>1, WithoutIsQueue DEF PopExpired
  <2>4. Due(PopExpired(q, t), t) = {}
    BY <2>3 DEF Due
  <2> HIDE DEF q, head
  <2>5. /\ IsPass(popped)
        /\ popped.machine.state = p.machine.state
        /\ popped.machine.active = p.machine.active
        /\ popped.machine.expireAt = p.machine.expireAt
        /\ popped.machine.queue = PopExpired(q, t)
        /\ popped.machine.rejected = p.machine.rejected
    BY <2>1, <2>3, RequeueFields
  <2> HIDE DEF popped
  <2> DEFINE activated == Activate(popped, head, q[head])
  <2>6. /\ IsPass(activated)
        /\ activated.machine.active = head
        /\ activated.machine.expireAt = q[head].expireAt
        /\ activated.machine.queue = popped.machine.queue
        /\ activated.machine.rejected = popped.machine.rejected
    BY <2>2, <2>5, ActivateFields
  <2> HIDE DEF activated
  <2>7. /\ IsPass(received)
        /\ received.machine.state = "EVENT_RECEIVED"
        /\ received.machine.active = head
        /\ received.machine.queue = popped.machine.queue
        /\ received.machine.rejected = popped.machine.rejected
    BY <2>2, <2>6, EnterFields DEF EventState, Resting, activated
  <2> HIDE DEF received
  <2>8. /\ DOMAIN q \subseteq Tracked(p.machine)
        /\ p.machine.rejected \cap Tracked(p.machine) = {}
    BY <2>1 DEF Consistent, Tracked, q
  <2>9. /\ Good(seen)
        /\ seen.machine.queue = PopExpired(q, t)
        /\ seen.machine.rejected = p.machine.rejected
        /\ Tracked(seen.machine) \subseteq Tracked(p.machine)
        /\ seen.machine.state # "DEFAULT"
    <3>1. CASE p.machine.state = "DEFAULT"
      <4>1. seen = received
        BY <3>1
      <4> QED BY <2>2, <2>3, <2>5, <2>7, <2>8, <4>1, NoneAssumption
              DEF Good, Consistent, Tracked, Resting
    <3>2. CASE p.machine.state # "DEFAULT"
      <4>1. seen = popped
        BY <3>2
      <4> QED BY <2>1, <2>3, <2>5, <2>8, <3>2, <4>1 DEF Good, Consistent, Tracked, q
    <3> QED BY <3>1, <3>2
  <2>10. seen.machine.state = "EVENT_STARTED" => ~Expired(seen.machine, t)
    BY <2>5, <2>7 DEF Expired
  <2> HIDE DEF seen
  <2>11. CASE ~starts
    BY <1>1, <1>3, <2>4, <2>9, <2>10, <2>11 DEF Expired
  <2>12. CASE starts
    <3> DEFINE running == Activate(seen, head, q[head])
    <3>1. /\ IsPass(running)
          /\ running.machine.active = head
          /\ running.machine.expireAt = q[head].expireAt
          /\ running.machine.queue = PopExpired(q, t)
          /\ running.machine.rejected = p.machine.rejected
      BY <2>2, <2>9, ActivateFields DEF Good
    <3> HIDE DEF running
    <3>2. /\ IsPass(started)
          /\ started.machine.state = "EVENT_STARTED"
          /\ started.machine.active = head
          /\ started.machine.expireAt = q[head].expireAt
          /\ started.machine.queue = PopExpired(q, t)
          /\ started.machine.rejected = p.machine.rejected
      BY <2>2, <3>1, EnterFields DEF EventState, Resting, running
    <3> HIDE DEF started
    <3>3. q[head].expireAt \in Int
      BY <2>2 DEF Entry
    <3>4. Good(started) /\ Tracked(started.machine) \subseteq Tracked(p.machine)
      BY <2>2, <2>3, <2>8, <3>2, <3>3, NoneAssumption DEF Good, Consistent, Tracked, Resting
    <3>5. /\ Good(Complete(started, t))
          /\ Tracked(Complete(started, t).machine) \subseteq Tracked(started.machine)
          /\ Complete(started, t).machine.queue = started.machine.queue
          /\ ~Expired(Complete(started, t).machine, t)
      BY <3>4, CompleteStep
    <3> QED BY <1>1, <1>3, <2>4, <2>12, <3>2, <3>4, <3>5
  <2> QED BY <2>11, <2>12
<1> QED BY <1>2, <1>3

LEMMA AnnounceStep ==
  ASSUME NEW p, Good(p), NEW t \in Int, ~Expired(p.machine, t), Due(p.machine.queue, t) = {}
  PROVE  /\ Good(Announce(p))
         /\ Tracked(Announce(p).machine) \subseteq Tracked(p.machine)
         /\ Due(Announce(p).machine.queue, t) = {}
         /\ ~Expired(Announce(p).machine, t)
         /\ Announce(p).machine.state = "DEFAULT" => DOMAIN Announce(p).machine.queue = {}
<1> DEFINE q == p.machine.queue
<1> DEFINE head == HeadOf(q)
<1> DEFINE idle == p.machine.state = "DEFAULT" /\ DOMAIN q # {}
<1> DEFINE activated == Activate(p, head, q[head])
<1> DEFINE received == Enter(activated, "EVENT_RECEIVED")
<1>1. Announce(p) = IF idle THEN received ELSE p
  BY DEF Announce
<1>2. CASE ~idle
  BY <1>1, <1>2
<1>3. CASE idle
  <2>1. IsPass(p) /\ Consistent(p.machine) /\ IsQueue(q)
    BY DEF Good, IsPass, HasMachineFields
  <2>2. head \in DOMAIN q /\ head \in MRIDs /\ q[head] \in Entry
    BY <1>3, <2>1, HeadInQueue DEF IsQueue
  <2>3. DOMAIN q \subseteq Tracked(p.machine) /\ p.machine.rejected \cap Tracked(p.machine) = {}
    BY <2>1 DEF Consistent, Tracked
  <2> HIDE DEF head
  <2>4. /\ IsPass(activated)
        /\ activated.machine.active = head
        /\ activated.machine.queue = q
        /\ activated.machine.rejected = p.machine.rejected
    BY <2>1, <2>2, ActivateFields
  <2> HIDE DEF activated
  <2>5. /\ IsPass(received)
        /\ received.machine.state = "EVENT_RECEIVED"
        /\ received.machine.active = head
        /\ received.machine.queue = q
        /\ received.machine.rejected = p.machine.rejected
    BY <2>2, <2>4, EnterFields DEF EventState, Resting
  <2> HIDE DEF received
  <2> QED BY <1>1, <1>3, <2>2, <2>3, <2>5, NoneAssumption
          DEF Good, Consistent, Tracked, Resting, Expired
<1> QED BY <1>2, <1>3

\* What Reject does to a consistent machine.
LEMMA RejectAllStep ==
  ASSUME NEW m, HasMachineFields(m), Consistent(m),
         NEW refused \in SUBSET MRIDs, NEW order \in Orders(refused)
  PROVE  /\ Good(RejectAll(m, refused, order))
         /\ Tracked(RejectAll(m, refused, order).machine) \subseteq Tracked(m)
<1> DEFINE record(i) ==
             [prev |-> IF \E j \in 1 .. i - 1 : order[j] = m.active THEN "DEFAULT" ELSE m.state,
              next |-> "EVENT_REJECTED", mRID |-> order[i]]
<1> DEFINE out == [i \in DOMAIN order |-> record(i)]
<1> DEFINE k == [m EXCEPT !.rejected = @ \cup refused,
                          !.queue = OnEventsCancelled(@, refused)]
<1> DEFINE kept == [machine |-> k, out |-> out]
<1> DEFINE withdraws == m.active \in refused /\ m.state # "DEFAULT"
<1>1. RejectAll(m, refused, order) = IF withdraws THEN Revert(kept) ELSE kept
  BY DEF RejectAll
<1>2. out \in Seq(Transition)
  <2>1. \A i \in DOMAIN order : order[i] \in MRIDs
    BY DEF Orders
  <2>2. \A i \in DOMAIN out : out[i] \in Transition
    BY <2>1 DEF Transition, EventState, HasMachineFields, Resting
  <2> QED BY <2>2, RejectionsAreTransitions
<1>3. k = [state |-> m.state, active |-> m.active, expireAt |-> m.expireAt,
           queue |-> Without(m.queue, refused), rejected |-> m.rejected \cup refused]
  <2>1. /\ DOMAIN k = {"state", "active", "expireAt", "queue", "rejected"}
        /\ k = [field \in DOMAIN k |-> k[field]]
    BY DEF HasMachineFields
  <2>2. k.queue = Without(m.queue, refused) /\ k.rejected = m.rejected \cup refused
    BY DEF HasMachineFields, OnEventsCancelled
  <2>3. k.state = m.state /\ k.active = m.active /\ k.expireAt = m.expireAt
    BY DEF HasMachineFields
  <2> HIDE DEF k
  <2> QED BY <2>1, <2>2, <2>3
<1>4. /\ IsQueue(Without(m.queue, refused))
      /\ DOMAIN Without(m.queue, refused) = DOMAIN m.queue \ refused
  BY WithoutIsQueue DEF HasMachineFields
<1> HIDE DEF out, k
<1>5. /\ IsPass(kept)
      /\ kept.machine.state = m.state /\ kept.machine.active = m.active
      /\ kept.machine.expireAt = m.expireAt
      /\ kept.machine.queue = Without(m.queue, refused)
      /\ kept.machine.rejected = m.rejected \cup refused
  BY <1>2, <1>3, <1>4 DEF IsPass, HasMachineFields
<1> HIDE DEF kept
<1>6. CASE withdraws
  <2> DEFINE r == Revert(kept)
  <2>1. /\ IsPass(r)
        /\ r.machine.state = "DEFAULT" /\ r.machine.active = None
        /\ r.machine.queue = kept.machine.queue
        /\ r.machine.rejected = kept.machine.rejected
    BY <1>5, RevertFields
  <2> HIDE DEF r
  <2>2. RejectAll(m, refused, order) = r
    BY <1>1, <1>6 DEF r
  <2> QED BY <1>4, <1>5, <2>1, <2>2 DEF Good, Consistent, Tracked, Resting
<1>7. CASE ~withdraws
  <2>1. m.active = None \/ m.active \notin refused
    BY <1>7 DEF Consistent
  <2>2. RejectAll(m, refused, order) = kept
    BY <1>1, <1>7
  <2> QED BY <1>4, <1>5, <2>1, <2>2 DEF Good, Consistent, Tracked
<1> QED BY <1>6, <1>7

\* What step 1 of a tick does, when the added events are not tracked yet.
LEMMA AdmitStep ==
  ASSUME NEW m, HasMachineFields(m), Consistent(m),
         NEW curr, NEW added \in SUBSET MRIDs, added \cap Tracked(m) = {},
         NEW order \in Orders(Refused(m, added, curr)),
         NEW windows \in [Schedulable(m, added, curr) -> Windows], NEW sort \in Sorts
  PROVE  /\ Good(Admit(m, added, curr, order, windows, sort))
         /\ Tracked(Admit(m, added, curr, order, windows, sort).machine)
              \subseteq Tracked(m) \cup Schedulable(m, added, curr)
<1> DEFINE R == Refused(m, added, curr)
<1> DEFINE S == Schedulable(m, added, curr)
<1> DEFINE out == [i \in DOMAIN order |->
              [prev |-> m.state, next |-> "EVENT_REJECTED", mRID |-> order[i]]]
<1> DEFINE q == IF Accepted(m, added, curr) = {} THEN m.queue
                ELSE OnEventsAdded(m.queue, windows, sort)
<1> DEFINE k == [m EXCEPT !.rejected = @ \cup R,
                          !.queue = IF Accepted(m, added, curr) = {} THEN @
                                    ELSE OnEventsAdded(@, windows, sort)]
<1> DEFINE p == Admit(m, added, curr, order, windows, sort)
<1>1. p = [machine |-> k, out |-> out]
  BY DEF Admit
<1>2. /\ R \in SUBSET MRIDs /\ S \in SUBSET MRIDs
      /\ R \subseteq added /\ S \subseteq added
      /\ S \cap (m.rejected \cup R) = {}
  BY DEF Refused, Schedulable, Accepted
<1>3. out \in Seq(Transition)
  <2>1. \A i \in DOMAIN order : order[i] \in MRIDs
    BY <1>2 DEF Orders
  <2>2. \A i \in DOMAIN out : out[i] \in Transition
    BY <2>1 DEF Transition, EventState, HasMachineFields, Resting
  <2> QED BY <1>2, <2>2, RejectionsAreTransitions
<1>4. k = [state |-> m.state, active |-> m.active, expireAt |-> m.expireAt,
           queue |-> q, rejected |-> m.rejected \cup R]
  <2>1. /\ DOMAIN k = {"state", "active", "expireAt", "queue", "rejected"}
        /\ k = [field \in DOMAIN k |-> k[field]]
    BY DEF HasMachineFields
  <2>2. k.rejected = m.rejected \cup R
    <3> HIDE DEF R
    <3> QED BY DEF HasMachineFields
  <2>3. k.queue = q
    <3> HIDE DEF R
    <3> QED BY DEF HasMachineFields
  <2>4. k.state = m.state /\ k.active = m.active /\ k.expireAt = m.expireAt
    BY DEF HasMachineFields
  <2> HIDE DEF k, q
  <2> QED BY <2>1, <2>2, <2>3, <2>4
<1> HIDE DEF out, k
<1>5. IsQueue(q) /\ DOMAIN q \subseteq DOMAIN m.queue \cup S
  <2>1. IsQueue(m.queue)
    BY DEF HasMachineFields
  <2>2. windows \in [S -> Windows] /\ S \in SUBSET MRIDs
    BY <1>2
  <2> HIDE DEF S
  <2>3. /\ IsQueue(OnEventsAdded(m.queue, windows, sort))
        /\ DOMAIN OnEventsAdded(m.queue, windows, sort) = DOMAIN m.queue \cup S
    BY <2>1, <2>2, OnEventsAddedIsQueue
  <2> QED BY <2>1, <2>3
<1> HIDE DEF q, p, R, S
<1>6. /\ IsPass(p)
      /\ p.machine.state = m.state /\ p.machine.active = m.active
      /\ p.machine.expireAt = m.expireAt
      /\ p.machine.queue = q
      /\ p.machine.rejected = m.rejected \cup R
  BY <1>1, <1>2, <1>3, <1>4, <1>5 DEF IsPass, HasMachineFields
<1>7. m.rejected \cap Tracked(m) = {} /\ m.active \in MRIDs \cup {None}
  BY DEF Consistent, HasMachineFields
<1>8. Tracked(p.machine) \subseteq Tracked(m) \cup S
  BY <1>5, <1>6 DEF Tracked
<1>9. p.machine.rejected \cap Tracked(p.machine) = {}
  BY <1>2, <1>6, <1>7, <1>8
<1>10. m.state = "EVENT_STARTED" => m.active \notin DOMAIN q
  <2>1. m.state = "EVENT_STARTED" => m.active \in Tracked(m)
    BY DEF Consistent, Tracked
  <2> QED BY <1>2, <1>5, <2>1 DEF Consistent
<1>11. Consistent(p.machine)
  BY <1>6, <1>9, <1>10 DEF Consistent
<1> QED BY <1>6, <1>8, <1>11 DEF Good, p, S

\* What a whole tick does.
LEMMA PassStep ==
  ASSUME NEW m, HasMachineFields(m), Consistent(m),
         NEW curr, NEW added \in SUBSET MRIDs, added \cap Tracked(m) = {},
         NEW order \in Orders(Refused(m, added, curr)),
         NEW windows \in [Schedulable(m, added, curr) -> Windows], NEW sort \in Sorts,
         NEW gone, NEW t \in Int,
         NEW p, p = Pass(m, added, curr, order, windows, sort, gone, t)
  PROVE  /\ Good(p)
         /\ Tracked(p.machine) \subseteq (Tracked(m) \cup Schedulable(m, added, curr)) \ gone
         /\ Due(p.machine.queue, t) = {}
         /\ ~Expired(p.machine, t)
         /\ p.machine.state = "DEFAULT" => DOMAIN p.machine.queue = {}
<1> DEFINE admitted == Admit(m, added, curr, order, windows, sort)
<1> DEFINE cancelled == Cancel(admitted, gone)
<1> DEFINE completed == Complete(cancelled, t)
<1> DEFINE started == StartDue(completed, t)
<1> DEFINE S == Schedulable(m, added, curr)
<1>1. p = Announce(started)
  BY DEF Pass
<1>2. Good(admitted) /\ Tracked(admitted.machine) \subseteq Tracked(m) \cup S
  BY AdmitStep
<1> HIDE DEF admitted
<1>3. Good(cancelled) /\ Tracked(cancelled.machine) \subseteq Tracked(admitted.machine) \ gone
  BY <1>2, CancelStep
<1> HIDE DEF cancelled
<1>4. /\ Good(completed) /\ ~Expired(completed.machine, t)
      /\ Tracked(completed.machine) \subseteq Tracked(cancelled.machine)
  BY <1>3, CompleteStep
<1> HIDE DEF completed
<1>5. /\ Good(started) /\ ~Expired(started.machine, t)
      /\ Due(started.machine.queue, t) = {}
      /\ Tracked(started.machine) \subseteq Tracked(completed.machine)
  BY <1>4, StartDueStep
<1> HIDE DEF started
<1>6. /\ Good(p) /\ ~Expired(p.machine, t)
      /\ Due(p.machine.queue, t) = {}
      /\ Tracked(p.machine) \subseteq Tracked(started.machine)
      /\ p.machine.state = "DEFAULT" => DOMAIN p.machine.queue = {}
  BY <1>1, <1>5, AnnounceStep
<1> HIDE DEF S
<1>7. Tracked(p.machine) \subseteq (Tracked(m) \cup S) \ gone
  BY <1>2, <1>3, <1>4, <1>5, <1>6
<1> QED BY <1>6, <1>7 DEF S

-----------------------------------------------------------------------------
(* The inductive invariant.  TrackedStillListed and Consistent feed each   *)
(* other: an added event is not tracked yet because every tracked event    *)
(* was in the previous snapshot, and this is what keeps a running event    *)
(* out of the queue and a rejected one away from the machine.              *)

IInv == TypeOK /\ Consistent(sm) /\ TrackedStillListed /\ NothingOverdue

LEMMA SnapshotIsSnapshot ==
  ASSUME NEW list \in Lists
  PROVE  IsSnapshot(Snapshot(list))
BY DEF Snapshot, IsSnapshot, Controls

LEMMA IsMachineFields ==
  ASSUME NEW m
  PROVE  IsMachine(m) <=> HasMachineFields(m) /\ m.state \in Resting
BY DEF IsMachine, HasMachineFields, EventState

LEMMA InitInv == Init => IInv
<1> SUFFICES ASSUME Init PROVE IInv
  OBVIOUS
<1>1. IsQueue(EmptyQueue) /\ DOMAIN EmptyQueue = {}
  BY DEF EmptyQueue, IsQueue, Entry
<1>2. /\ sm.state = "DEFAULT" /\ sm.active = None /\ sm.expireAt = None
      /\ sm.queue = EmptyQueue /\ sm.rejected = {}
  BY DEF Init
<1>3. IsMachine(sm)
  BY <1>1 DEF Init, IsMachine, Resting
<1>4. IsSnapshot(prev)
  BY SnapshotIsSnapshot DEF Init
<1>5. now \in Time
  BY ClockAssumption DEF Init, Time
<1>6. Tracked(sm) = {}
  BY <1>1, <1>2 DEF Tracked
<1>7. Consistent(sm) /\ TrackedStillListed
  BY <1>2, <1>6 DEF Consistent, TrackedStillListed, Resting
<1>8. NothingOverdue
  BY <1>1, <1>2 DEF NothingOverdue, Due, Expired
<1> QED BY <1>3, <1>4, <1>5, <1>7, <1>8 DEF Init, IInv, TypeOK

LEMMA RejectInv ==
  ASSUME IInv, NEW list \in Lists, Reject(list)
  PROVE  IInv'
<1> DEFINE refused == {e \in RejectedItems(list) : list[e] = "garbled"} \ sm.rejected
<1>1. PICK order \in Orders(refused) :
        /\ sm' = RejectAll(sm, refused, order).machine
        /\ pending' = RejectAll(sm, refused, order).out
  BY DEF Reject
<1>2. refused \in SUBSET MRIDs
  BY DEF RejectedItems
<1>3. HasMachineFields(sm) /\ Consistent(sm)
  BY IsMachineFields DEF IInv, TypeOK
<1> HIDE DEF refused
<1>4. /\ Good(RejectAll(sm, refused, order))
      /\ Tracked(RejectAll(sm, refused, order).machine) \subseteq Tracked(sm)
  BY <1>1, <1>2, <1>3, RejectAllStep
<1>5. /\ HasMachineFields(sm') /\ Consistent(sm') /\ Tracked(sm') \subseteq Tracked(sm)
      /\ pending' \in Seq(Transition)
  BY <1>1, <1>4 DEF Good, IsPass
<1>6. now' \in Time /\ pc' = "tick" /\ prev' = prev /\ answered' = answered
  BY DEF Reject
<1>7. IsMachine(sm')
  BY <1>5, IsMachineFields DEF Consistent
<1>8. TypeOK'
  BY <1>5, <1>6, <1>7 DEF TypeOK, IInv
<1>9. TrackedStillListed'
  BY <1>5, <1>6 DEF TrackedStillListed, IInv
<1> QED BY <1>5, <1>6, <1>8, <1>9 DEF IInv, NothingOverdue

LEMMA TickInv ==
  ASSUME IInv, NEW list \in Lists, Tick(list)
  PROVE  IInv'
<1> DEFINE curr == Snapshot(list)
<1> DEFINE added == Added(prev, curr)
<1> DEFINE gone == Cancelled(prev, curr)
<1>1. IsSnapshot(curr) /\ IsSnapshot(prev)
  BY SnapshotIsSnapshot DEF IInv, TypeOK
<1>2. PICK order \in Orders(Refused(sm, added, curr)),
           windows \in [Schedulable(sm, added, curr) -> Windows],
           sort \in Sorts :
        /\ sm' = Pass(sm, added, curr, order, windows, sort, gone, now).machine
        /\ pending' = Pass(sm, added, curr, order, windows, sort, gone, now).out
  BY DEF Tick
<1>3. /\ prev' = curr /\ pc' = "reject" /\ now' = now /\ answered' = answered
  BY DEF Tick
<1> HIDE DEF curr
<1>4. added \in SUBSET MRIDs /\ added \cap Tracked(sm) = {}
  BY <1>1 DEF Added, IsSnapshot, IInv, TrackedStillListed
<1>5. HasMachineFields(sm) /\ Consistent(sm) /\ now \in Int
  BY IsMachineFields DEF IInv, TypeOK, Time
<1> HIDE DEF added, gone
<1> DEFINE p == Pass(sm, added, curr, order, windows, sort, gone, now)
<1>6. /\ Good(p)
      /\ Tracked(p.machine) \subseteq (Tracked(sm) \cup Schedulable(sm, added, curr)) \ gone
      /\ Due(p.machine.queue, now) = {}
      /\ ~Expired(p.machine, now)
      /\ p.machine.state = "DEFAULT" => DOMAIN p.machine.queue = {}
  <2>1. p = Pass(sm, added, curr, order, windows, sort, gone, now)
    OBVIOUS
  <2>2. /\ order \in Orders(Refused(sm, added, curr)) /\ sort \in Sorts
        /\ windows \in [Schedulable(sm, added, curr) -> Windows]
    OBVIOUS
  <2> HIDE DEF p
  <2> QED BY ONLY <2>1, <2>2, <1>4, <1>5, PassStep
<1>7. sm' = p.machine /\ pending' = p.out
  BY <1>2
<1> HIDE DEF p
<1>8. HasMachineFields(sm') /\ Consistent(sm') /\ pending' \in Seq(Transition)
  BY <1>6, <1>7 DEF Good, IsPass
<1>9. IsMachine(sm')
  BY <1>8, IsMachineFields DEF Consistent
<1>10. TypeOK'
  BY <1>1, <1>3, <1>8, <1>9 DEF TypeOK, IInv
<1>11. TrackedStillListed'
  <2> SUFFICES ASSUME NEW e \in Tracked(sm') PROVE e \in DOMAIN curr /\ curr[e] # "cancelled"
    BY <1>3 DEF TrackedStillListed
  <2>1. e \in Tracked(sm) \cup Schedulable(sm, added, curr) /\ e \notin gone
    BY <1>6, <1>7
  <2>2. CASE e \in Tracked(sm)
    BY <2>1, <2>2 DEF IInv, TrackedStillListed, gone, Cancelled
  <2>3. CASE e \in Schedulable(sm, added, curr)
    BY <2>3 DEF Schedulable, Accepted, added, Added
  <2> QED BY <2>1, <2>2, <2>3
<1>12. NothingOverdue'
  BY <1>3, <1>6, <1>7 DEF NothingOverdue
<1> QED BY <1>8, <1>10, <1>11, <1>12 DEF IInv

LEMMA FireInv ==
  ASSUME IInv, Fire
  PROVE  IInv'
<1>1. UNCHANGED <<sm, prev, now, pc>>
  BY DEF Fire
<1>2. pending \in Seq(Transition) /\ pending # <<>>
  BY DEF IInv, TypeOK, Fire
<1>3. pending' \in Seq(Transition)
  BY <1>2 DEF Fire
<1>4. StatusOf(Head(pending)) \in {0, 1, 2, 3, 6, 253}
  BY DEF StatusOf
<1>5. answered' \in [MRIDs -> {0, 1, 2, 3, 6, 253}]
  BY <1>4 DEF Fire, IInv, TypeOK
<1> QED BY <1>1, <1>3, <1>5
        DEF IInv, TypeOK, Consistent, Tracked, TrackedStillListed, NothingOverdue

\* The invariant holds in every state of the specification.
THEOREM Invariance == Spec => []IInv
<1>1. IInv /\ [Next]_vars => IInv'
  <2> SUFFICES ASSUME IInv, [Next]_vars PROVE IInv'
    OBVIOUS
  <2>1. CASE \E list \in Lists : Reject(list) \/ Tick(list)
    BY <2>1, RejectInv, TickInv
  <2>2. CASE Fire
    BY <2>2, FireInv
  <2>3. CASE UNCHANGED vars
    BY <2>3 DEF vars, IInv, TypeOK, Consistent, Tracked, TrackedStillListed, NothingOverdue
  <2> QED BY <2>1, <2>2, <2>3 DEF Next
<1> QED BY <1>1, InitInv, PTL DEF Spec

-----------------------------------------------------------------------------
(* What follows, for every set of events, intervals and clock.             *)

\* The engine's variables keep their types.
THEOREM TypeCorrect == Spec => []TypeOK
<1>1. IInv => TypeOK
  BY DEF IInv
<1> QED BY <1>1, Invariance, PTL

\* A refused event is never scheduled, received or started again.
THEOREM RejectedStaysOut == Spec => []RejectedNeverTracked
<1>1. IInv => RejectedNeverTracked
  BY DEF IInv, Consistent, RejectedNeverTracked
<1> QED BY <1>1, Invariance, PTL

\* The engine forgets what the server took away.
THEOREM WithdrawnIsForgotten == Spec => []TrackedStillListed
<1>1. IInv => TrackedStillListed
  BY DEF IInv
<1> QED BY <1>1, Invariance, PTL

\* A running event cannot start a second time.
THEOREM StartsOnce == Spec => []StartedNotQueued
<1>1. IInv => StartedNotQueued
  BY DEF IInv, Consistent, StartedNotQueued
<1> QED BY <1>1, Invariance, PTL

\* After a tick nothing is overdue.
THEOREM TickCatchesUp == Spec => []NothingOverdue
<1>1. IInv => NothingOverdue
  BY DEF IInv
<1> QED BY <1>1, Invariance, PTL

-----------------------------------------------------------------------------
(***************************************************************************)
(* The answers: once its hooks have run, the server knows what the machine *)
(* does.                                                                   *)
(*                                                                         *)
(* The hooks run after the mutex is released, so the argument is about     *)
(* what is told once every pending transition was fired: a run of ledgers, *)
(* each an answer ahead of the one before it.                              *)
(***************************************************************************)

Statuses == {0, 1, 2, 3, 6, 253}

\* A ledger is what the server was last told about each event.
Ledger == [MRIDs -> Statuses]

\* May an event that was told s be told status next?
Follows(s, status) == status \in Answers!Successors[Answers!Stage(s)]

\* Telling the server a transition.
Tell(ledger, t) == [ledger EXCEPT ![t.mRID] = StatusOf(t)]

\* Firing out, one transition after the other, takes the ledger from to the
\* ledger to, and every answer on the way is a legal one.
IsRun(A, out, from, to) ==
  /\ A \in [1 .. Len(out) + 1 -> Ledger]
  /\ A[1] = from /\ A[Len(out) + 1] = to
  /\ \A i \in 1 .. Len(out) :
       /\ StatusOf(out[i]) # 0
       /\ Follows(A[i][out[i].mRID], StatusOf(out[i]))
       /\ A[i + 1] = Tell(A[i], out[i])

Told(out, from, to) == \E A : IsRun(A, out, from, to)

\* The ledger says what machine m does.
Matches(ledger, m) ==
  \A e \in MRIDs :
    /\ ledger[e] = 1 <=> m.state = "EVENT_RECEIVED" /\ m.active = e
    /\ ledger[e] = 2 <=> m.state = "EVENT_STARTED" /\ m.active = e
    /\ ledger[e] = 253 <=> e \in m.rejected

\* Once its transitions are fired, a pass leaves a ledger that matches it.
Faithful(p, from) ==
  \E to \in Ledger : Told(p.out, from, to) /\ Matches(to, p.machine)

-----------------------------------------------------------------------------
(* Statuses and runs of ledgers.                                           *)

\* The table of EventAnswers, as the steps below read it.
LEMMA LegalAnswers ==
  /\ Follows(0, 1) /\ Follows(3, 1) /\ Follows(6, 1)
  /\ Follows(1, 2)
  /\ Follows(2, 3)
  /\ Follows(1, 6) /\ Follows(2, 6)
  /\ Follows(0, 253) /\ Follows(1, 253) /\ Follows(2, 253)
  /\ Follows(3, 253) /\ Follows(6, 253)
BY DEF Follows, Answers!Successors, Answers!Stage

LEMMA StatusTable ==
  ASSUME NEW t
  PROVE  /\ StatusOf(t) \in Statuses
         /\ t.next = "EVENT_RECEIVED" => StatusOf(t) = 1
         /\ t.next = "EVENT_STARTED" /\ t.prev = "EVENT_RECEIVED" => StatusOf(t) = 2
         /\ t.next = "EVENT_COMPLETED" /\ t.prev = "EVENT_STARTED" => StatusOf(t) = 3
         /\ t.next = "EVENT_CANCELLED" => StatusOf(t) = 6
         /\ t.next = "EVENT_REJECTED" => StatusOf(t) = 253
BY DEF StatusOf, Statuses

LEMMA NothingTold ==
  ASSUME NEW from \in Ledger
  PROVE  Told(<<>>, from, from)
<1> DEFINE A == [i \in 1 .. 1 |-> from]
<1>1. Len(<<>>) = 0
  OBVIOUS
<1>2. IsRun(A, <<>>, from, from)
  BY <1>1 DEF IsRun
<1> QED BY <1>2 DEF Told

LEMMA NothingPending ==
  ASSUME NEW from, NEW to, Told(<<>>, from, to)
  PROVE  from = to
BY DEF Told, IsRun

LEMMA TellIsLedger ==
  ASSUME NEW ledger \in Ledger, NEW t
  PROVE  Tell(ledger, t) \in Ledger
BY StatusTable DEF Ledger, Tell

\* One more transition is told last.
LEMMA TellMore ==
  ASSUME NEW out \in Seq(Transition), NEW t \in Transition, NEW from, NEW to \in Ledger,
         Told(out, from, to), StatusOf(t) # 0, Follows(to[t.mRID], StatusOf(t))
  PROVE  Told(Append(out, t), from, Tell(to, t))
<1> DEFINE n == Len(out)
<1> DEFINE out2 == Append(out, t)
<1>1. PICK A : IsRun(A, out, from, to)
  BY DEF Told
<1> DEFINE B == [i \in 1 .. n + 2 |-> IF i = n + 2 THEN Tell(to, t) ELSE A[i]]
<1>2. n \in Nat /\ Len(out2) = n + 1 /\ out2[n + 1] = t /\ \A i \in 1 .. n : out2[i] = out[i]
  OBVIOUS
<1> HIDE DEF out2
<1>3. A \in [1 .. n + 1 -> Ledger] /\ A[1] = from /\ A[n + 1] = to
  BY <1>1 DEF IsRun
<1>4. B \in [1 .. n + 2 -> Ledger]
  BY <1>2, <1>3, TellIsLedger
<1>5. B[1] = from /\ B[n + 2] = Tell(to, t) /\ B[n + 1] = to /\ \A i \in 1 .. n : B[i] = A[i]
  BY <1>2, <1>3
<1> HIDE DEF B
<1>6. ASSUME NEW i \in 1 .. n + 1
      PROVE  /\ StatusOf(out2[i]) # 0
             /\ Follows(B[i][out2[i].mRID], StatusOf(out2[i]))
             /\ B[i + 1] = Tell(B[i], out2[i])
  <2>1. CASE i = n + 1
    <3>1. i + 1 = n + 2
      BY <1>2, <2>1
    <3> QED BY <1>2, <1>5, <2>1, <3>1
  <2>2. CASE i # n + 1
    <3>1. i \in 1 .. n
      BY <1>2, <2>2
    <3>2. /\ StatusOf(out[i]) # 0
          /\ Follows(A[i][out[i].mRID], StatusOf(out[i]))
          /\ A[i + 1] = Tell(A[i], out[i])
      BY <1>1, <3>1 DEF IsRun
    <3>3. B[i + 1] = A[i + 1]
      <4>1. CASE i = n
        BY <1>3, <1>5, <4>1
      <4>2. CASE i # n
        BY <1>2, <1>5, <3>1, <4>2
      <4> QED BY <4>1, <4>2
    <3> QED BY <1>2, <1>5, <3>1, <3>2, <3>3
  <2> QED BY <2>1, <2>2
<1>7. Len(out2) + 1 = n + 2
  BY <1>2
<1>8. IsRun(B, out2, from, Tell(to, t))
  BY <1>2, <1>4, <1>5, <1>6, <1>7 DEF IsRun
<1> QED BY <1>8 DEF Told, out2

\* The transition that is fired first is told legally, and leaves a run.
LEMMA TellFirst ==
  ASSUME NEW out \in Seq(Transition), out # <<>>, NEW from, NEW to, Told(out, from, to)
  PROVE  /\ StatusOf(Head(out)) # 0
         /\ Follows(from[Head(out).mRID], StatusOf(Head(out)))
         /\ Told(Tail(out), Tell(from, Head(out)), to)
<1> DEFINE n == Len(out)
<1>1. PICK A : IsRun(A, out, from, to)
  BY DEF Told
<1>2. /\ n \in Nat /\ n >= 1 /\ Head(out) = out[1]
      /\ Len(Tail(out)) = n - 1
      /\ \A i \in 1 .. n - 1 : Tail(out)[i] = out[i + 1]
  OBVIOUS
<1>3. A \in [1 .. n + 1 -> Ledger] /\ A[1] = from /\ A[n + 1] = to
  BY <1>1 DEF IsRun
<1>4. /\ StatusOf(out[1]) # 0
      /\ Follows(A[1][out[1].mRID], StatusOf(out[1]))
      /\ A[1 + 1] = Tell(A[1], out[1])
  BY <1>1, <1>2 DEF IsRun
<1> DEFINE rest == Tail(out)
<1> DEFINE B == [i \in 1 .. n |-> A[i + 1]]
<1>5. B \in [1 .. n -> Ledger] /\ B[1] = Tell(from, Head(out)) /\ B[n] = to
  BY <1>2, <1>3, <1>4
<1>6. ASSUME NEW i \in 1 .. n - 1
      PROVE  /\ StatusOf(rest[i]) # 0
             /\ Follows(B[i][rest[i].mRID], StatusOf(rest[i]))
             /\ B[i + 1] = Tell(B[i], rest[i])
  <2>1. i + 1 \in 1 .. n /\ i \in 1 .. n /\ rest[i] = out[i + 1]
    BY <1>2
  <2>2. /\ StatusOf(out[i + 1]) # 0
        /\ Follows(A[i + 1][out[i + 1].mRID], StatusOf(out[i + 1]))
        /\ A[(i + 1) + 1] = Tell(A[i + 1], out[i + 1])
    BY <1>1, <2>1 DEF IsRun
  <2>3. B[i] = A[i + 1] /\ B[i + 1] = A[(i + 1) + 1]
    BY <2>1
  <2> QED BY <2>1, <2>2, <2>3
<1>7. Len(rest) + 1 = n /\ 1 .. Len(rest) = 1 .. n - 1
  BY <1>2
<1> HIDE DEF B, rest
<1>8. IsRun(B, rest, Tell(from, Head(out)), to)
  BY <1>5, <1>6, <1>7 DEF IsRun
<1> QED BY <1>2, <1>3, <1>4, <1>8 DEF Told, rest

\* An order of a set meets each of its events once.
LEMMA OrdersCover ==
  ASSUME NEW S \in SUBSET MRIDs, NEW order \in Orders(S)
  PROVE  /\ Cardinality(S) \in Nat
         /\ order \in [1 .. Cardinality(S) -> S]
         /\ \A i, j \in 1 .. Cardinality(S) : order[i] = order[j] => i = j
         /\ \A e \in S : \E i \in 1 .. Cardinality(S) : order[i] = e
<1> DEFINE n == Cardinality(S)
<1>1. IsFiniteSet(S) /\ n \in Nat
  BY MRIDsAssumption, FS_Subset, FS_CardinalityType
<1>2. order \in [1 .. n -> S] /\ \A i, j \in 1 .. n : order[i] = order[j] => i = j
  BY DEF Orders
<1>3. order \in Injection(1 .. n, S)
  BY <1>2 DEF Injection, IsInjective
<1>4. Cardinality(1 .. n) = n
  <2>1. Cardinality(1 .. n) = IF 1 > n THEN 0 ELSE n - 1 + 1
    BY <1>1, FS_Interval
  <2> QED BY <1>1, <2>1
<1>5. order \in Surjection(1 .. n, S)
  BY <1>1, <1>3, <1>4, FS_Injection
<1> QED BY <1>1, <1>2, <1>5 DEF Surjection

\* Events not refused before are refused one after the other.
LEMMA RejectionsTold ==
  ASSUME NEW S \in SUBSET MRIDs, NEW order \in Orders(S), NEW out,
         DOMAIN out = DOMAIN order, out \in Seq(Transition),
         \A i \in DOMAIN out : out[i].mRID = order[i] /\ out[i].next = "EVENT_REJECTED",
         NEW from \in Ledger, \A e \in S : from[e] # 253
  PROVE  Told(out, from, [e \in MRIDs |-> IF e \in S THEN 253 ELSE from[e]])
<1> DEFINE n == Cardinality(S)
<1>1. /\ n \in Nat /\ order \in [1 .. n -> S]
      /\ \A i, j \in 1 .. n : order[i] = order[j] => i = j
      /\ \A e \in S : \E i \in 1 .. n : order[i] = e
  <2>1. S \in SUBSET MRIDs /\ order \in Orders(S)
    OBVIOUS
  <2> QED BY ONLY <2>1, OrdersCover
<1> DEFINE to == [e \in MRIDs |-> IF e \in S THEN 253 ELSE from[e]]
<1> DEFINE A == [i \in 1 .. n + 1 |->
                   [e \in MRIDs |-> IF \E j \in 1 .. i - 1 : order[j] = e THEN 253 ELSE from[e]]]
<1>2. Len(out) = n
  BY <1>1
<1>3. A \in [1 .. n + 1 -> Ledger]
  BY DEF Ledger, Statuses
<1>4. A[1] = from
  <2>1. 1 \in 1 .. n + 1 /\ 1 .. 1 - 1 = {}
    BY <1>1
  <2>2. A[1] = [e \in MRIDs |-> from[e]]
    BY <2>1
  <2> QED BY <2>2 DEF Ledger
<1>5. A[n + 1] = to
  <2>1. n + 1 \in 1 .. n + 1 /\ (n + 1) - 1 = n
    BY <1>1
  <2>2. A[n + 1] = [e \in MRIDs |-> IF \E j \in 1 .. n : order[j] = e THEN 253 ELSE from[e]]
    BY <2>1
  <2>3. \A e \in MRIDs : (\E j \in 1 .. n : order[j] = e) <=> e \in S
    BY <1>1
  <2> QED BY <2>2, <2>3
<1>6. ASSUME NEW i \in 1 .. n
      PROVE  /\ StatusOf(out[i]) # 0
             /\ Follows(A[i][out[i].mRID], StatusOf(out[i]))
             /\ A[i + 1] = Tell(A[i], out[i])
  <2>1. out[i].mRID = order[i] /\ order[i] \in S /\ order[i] \in MRIDs /\ StatusOf(out[i]) = 253
    BY <1>1, <1>2, StatusTable
  <2>2. /\ i \in 1 .. n + 1 /\ i + 1 \in 1 .. n + 1
        /\ 1 .. (i + 1) - 1 = (1 .. i - 1) \cup {i}
    BY <1>1
  <2>3. A[i] = [e \in MRIDs |-> IF \E j \in 1 .. i - 1 : order[j] = e THEN 253 ELSE from[e]]
    BY <2>2
  <2>4. A[i + 1] =
          [e \in MRIDs |-> IF \E j \in 1 .. (i + 1) - 1 : order[j] = e THEN 253 ELSE from[e]]
    BY <2>2
  <2> HIDE DEF A
  <2>5. ~(\E j \in 1 .. i - 1 : order[j] = order[i])
    BY <1>1
  <2>6. A[i][order[i]] = from[order[i]]
    BY <2>1, <2>3, <2>5
  <2>7. from[order[i]] \in {0, 1, 2, 3, 6}
    BY <2>1 DEF Ledger, Statuses
  <2>8. A[i + 1] = [A[i] EXCEPT ![order[i]] = 253]
    <3>1. \A e \in MRIDs : (\E j \in 1 .. (i + 1) - 1 : order[j] = e)
                            <=> (\E j \in 1 .. i - 1 : order[j] = e) \/ e = order[i]
      BY <2>2
    <3>2. \A e \in MRIDs :
            A[i][e] = IF \E j \in 1 .. i - 1 : order[j] = e THEN 253 ELSE from[e]
      BY <2>3
    <3>3. \A e \in MRIDs : A[i + 1][e] = IF e = order[i] THEN 253 ELSE A[i][e]
      BY <2>4, <3>1, <3>2
    <3>4. A[i] \in [MRIDs -> Statuses] /\ A[i + 1] \in [MRIDs -> Statuses]
      BY <1>3, <2>2 DEF Ledger
    <3> QED BY ONLY <3>3, <3>4
  <2> QED BY <2>1, <2>6, <2>7, <2>8, LegalAnswers DEF Tell
<1> HIDE DEF A, to
<1>7. IsRun(A, out, from, to)
  BY <1>2, <1>3, <1>4, <1>5, <1>6 DEF IsRun
<1> QED BY <1>7 DEF Told, to

-----------------------------------------------------------------------------
(* The steps of a pass.                                                    *)

\* Entering a state tells the active event its status.
LEMMA EnterTold ==
  ASSUME NEW p, IsPass(p), p.machine.active \in MRIDs, NEW next \in EventState,
         NEW from, NEW to \in Ledger, Told(p.out, from, to), NEW s \in Statuses \ {0},
         s = StatusOf([prev |-> p.machine.state, next |-> next, mRID |-> p.machine.active]),
         Follows(to[p.machine.active], s)
  PROVE  /\ Told(Enter(p, next).out, from, [to EXCEPT ![p.machine.active] = s])
         /\ [to EXCEPT ![p.machine.active] = s] \in Ledger
<1> DEFINE t == [prev |-> p.machine.state, next |-> next, mRID |-> p.machine.active]
<1>1. t \in Transition /\ t.mRID = p.machine.active /\ p.out \in Seq(Transition)
  BY DEF IsPass, HasMachineFields, Transition
<1>2. Enter(p, next).out = Append(p.out, t)
  BY DEF Enter
<1>3. [to EXCEPT ![p.machine.active] = s] = Tell(to, t)
  BY <1>1 DEF Tell
<1>4. s = StatusOf(t)
  OBVIOUS
<1> HIDE DEF t
<1>5. StatusOf(t) # 0 /\ Follows(to[t.mRID], StatusOf(t))
  BY <1>1, <1>4
<1>6. Told(Append(p.out, t), from, Tell(to, t)) /\ Tell(to, t) \in Ledger
  BY <1>1, <1>5, TellMore, TellIsLedger
<1> QED BY ONLY <1>2, <1>3, <1>6

LEMMA OutFields ==
  ASSUME NEW p, IsPass(p)
  PROVE  /\ Revert(p).out = p.out
         /\ \A q : Requeue(p, q).out = p.out
         /\ \A e, entry : Activate(p, e, entry).out = p.out
BY DEF IsPass, Revert, Requeue, Activate

LEMMA CancelFaithful ==
  ASSUME NEW p, Good(p), NEW from, Faithful(p, from), NEW gone
  PROVE  Faithful(Cancel(p, gone), from)
<1> DEFINE q == Requeue(p, OnEventsCancelled(p.machine.queue, gone))
<1>1. PICK to \in Ledger : Told(p.out, from, to) /\ Matches(to, p.machine)
  BY DEF Faithful
<1>2. IsPass(p) /\ Consistent(p.machine) /\ IsQueue(OnEventsCancelled(p.machine.queue, gone))
  BY WithoutIsQueue DEF Good, IsPass, HasMachineFields, OnEventsCancelled
<1>3. /\ IsPass(q) /\ q.out = p.out
      /\ q.machine.state = p.machine.state
      /\ q.machine.active = p.machine.active
      /\ q.machine.rejected = p.machine.rejected
  BY <1>2, RequeueFields, OutFields
<1> HIDE DEF q
<1>4. CASE p.machine.active \in gone /\ p.machine.state # "DEFAULT"
  <2> DEFINE c == Enter(q, "EVENT_CANCELLED")
  <2> DEFINE told == [to EXCEPT ![p.machine.active] = 6]
  <2>1. Cancel(p, gone) = Revert(c)
    BY <1>4 DEF Cancel, q
  <2>2. /\ p.machine.active \in MRIDs
        /\ p.machine.state \in {"EVENT_RECEIVED", "EVENT_STARTED"}
    BY <1>2, <1>4 DEF IsPass, HasMachineFields, Consistent, Resting
  <2>3. "EVENT_CANCELLED" \in EventState /\ 6 \in Statuses \ {0}
    BY DEF EventState, Statuses
  <2>4. to[p.machine.active] \in {1, 2}
    BY <1>1, <2>2 DEF Matches
  <2>5. 6 = StatusOf([prev |-> q.machine.state, next |-> "EVENT_CANCELLED",
                      mRID |-> q.machine.active])
    BY StatusTable
  <2>6. Follows(to[p.machine.active], 6)
    BY <2>4, LegalAnswers
  <2>7. Told(c.out, from, told) /\ told \in Ledger
    BY <1>1, <1>3, <2>2, <2>3, <2>5, <2>6, EnterTold
  <2>8. IsPass(c) /\ c.machine.rejected = p.machine.rejected
    BY <1>3, <2>2, <2>3, EnterFields
  <2> HIDE DEF c
  <2>9. /\ Revert(c).machine.state = "DEFAULT" /\ Revert(c).out = c.out
        /\ Revert(c).machine.rejected = p.machine.rejected
    BY <2>8, RevertFields, OutFields
  <2>10. Matches(told, Revert(c).machine)
    BY <1>1, <2>2, <2>4, <2>9 DEF Matches, Ledger
  <2> QED BY <2>1, <2>7, <2>9, <2>10 DEF Faithful
<1>5. CASE ~(p.machine.active \in gone /\ p.machine.state # "DEFAULT")
  <2>1. Cancel(p, gone) = q
    BY <1>5 DEF Cancel, q
  <2> QED BY <1>1, <1>3, <2>1 DEF Faithful, Matches
<1> QED BY <1>4, <1>5

LEMMA CompleteFaithful ==
  ASSUME NEW p, Good(p), NEW from, Faithful(p, from), NEW t
  PROVE  Faithful(Complete(p, t), from)
<1>1. PICK to \in Ledger : Told(p.out, from, to) /\ Matches(to, p.machine)
  BY DEF Faithful
<1>2. CASE Expired(p.machine, t)
  <2> DEFINE c == Enter(p, "EVENT_COMPLETED")
  <2> DEFINE told == [to EXCEPT ![p.machine.active] = 3]
  <2>1. Complete(p, t) = Revert(c)
    BY <1>2 DEF Complete
  <2>2. p.machine.active \in MRIDs /\ p.machine.state = "EVENT_STARTED" /\ IsPass(p)
    BY <1>2 DEF Good, IsPass, HasMachineFields, Consistent, Expired
  <2>3. "EVENT_COMPLETED" \in EventState /\ 3 \in Statuses \ {0}
    BY DEF EventState, Statuses
  <2>4. to[p.machine.active] = 2
    BY <1>1, <2>2 DEF Matches
  <2>5. 3 = StatusOf([prev |-> p.machine.state, next |-> "EVENT_COMPLETED",
                      mRID |-> p.machine.active])
    BY <2>2, StatusTable
  <2>6. Told(c.out, from, told) /\ told \in Ledger
    BY <1>1, <2>2, <2>3, <2>4, <2>5, LegalAnswers, EnterTold
  <2>7. IsPass(c) /\ c.machine.rejected = p.machine.rejected
    BY <2>2, <2>3, EnterFields
  <2> HIDE DEF c
  <2>8. /\ Revert(c).machine.state = "DEFAULT" /\ Revert(c).out = c.out
        /\ Revert(c).machine.rejected = p.machine.rejected
    BY <2>7, RevertFields, OutFields
  <2>9. Matches(told, Revert(c).machine)
    BY <1>1, <2>2, <2>4, <2>8 DEF Matches, Ledger
  <2> QED BY <2>1, <2>6, <2>8, <2>9 DEF Faithful
<1>3. CASE ~Expired(p.machine, t)
  BY <1>3 DEF Complete
<1> QED BY <1>2, <1>3

\* An idle machine tells that it received an event it tracks.
LEMMA ReceiveFaithful ==
  ASSUME NEW p, IsPass(p), p.machine.state = "DEFAULT", NEW from, Faithful(p, from),
         NEW e \in MRIDs \ p.machine.rejected, NEW entry \in Entry,
         NEW r, r = Enter(Activate(p, e, entry), "EVENT_RECEIVED")
  PROVE  Faithful(r, from)
<1> DEFINE a == Activate(p, e, entry)
<1>1. PICK to \in Ledger : Told(p.out, from, to) /\ Matches(to, p.machine)
  BY DEF Faithful
<1> DEFINE told == [to EXCEPT ![e] = 1]
<1>2. /\ IsPass(a) /\ a.out = p.out /\ a.machine.active = e
      /\ a.machine.rejected = p.machine.rejected
  BY ActivateFields, OutFields
<1>3. r = Enter(a, "EVENT_RECEIVED")
  OBVIOUS
<1> HIDE DEF a
<1>4. "EVENT_RECEIVED" \in EventState /\ 1 \in Statuses \ {0}
  BY DEF EventState, Resting, Statuses
<1>5. to[e] \in {0, 3, 6}
  BY <1>1 DEF Matches, Ledger, Statuses
<1>6. 1 = StatusOf([prev |-> a.machine.state, next |-> "EVENT_RECEIVED",
                    mRID |-> a.machine.active])
  BY StatusTable
<1>7. Follows(to[e], 1)
  BY <1>5, LegalAnswers
<1>8. Told(r.out, from, told) /\ told \in Ledger
  BY <1>1, <1>2, <1>3, <1>4, <1>6, <1>7, EnterTold
<1>9. /\ r.machine.state = "EVENT_RECEIVED" /\ r.machine.active = e
      /\ r.machine.rejected = p.machine.rejected
  BY <1>2, <1>3, <1>4, EnterFields
<1>10. Matches(told, r.machine)
  BY <1>1, <1>9 DEF Matches, Ledger
<1> QED BY <1>8, <1>10 DEF Faithful

\* A machine that received an event tells that it started it.
LEMMA StartFaithful ==
  ASSUME NEW p, IsPass(p), p.machine.state = "EVENT_RECEIVED", NEW from, Faithful(p, from),
         NEW e \in MRIDs, p.machine.active = e, NEW entry \in Entry,
         NEW r, r = Enter(Activate(p, e, entry), "EVENT_STARTED")
  PROVE  Faithful(r, from)
<1> DEFINE a == Activate(p, e, entry)
<1>1. PICK to \in Ledger : Told(p.out, from, to) /\ Matches(to, p.machine)
  BY DEF Faithful
<1> DEFINE told == [to EXCEPT ![e] = 2]
<1>2. /\ IsPass(a) /\ a.out = p.out /\ a.machine.active = e
      /\ a.machine.state = "EVENT_RECEIVED"
      /\ a.machine.rejected = p.machine.rejected
  BY ActivateFields, OutFields
<1>3. r = Enter(a, "EVENT_STARTED")
  OBVIOUS
<1> HIDE DEF a
<1>4. "EVENT_STARTED" \in EventState /\ 2 \in Statuses \ {0}
  BY DEF EventState, Resting, Statuses
<1>5. to[e] = 1
  BY <1>1 DEF Matches
<1>6. 2 = StatusOf([prev |-> a.machine.state, next |-> "EVENT_STARTED",
                    mRID |-> a.machine.active])
  BY <1>2, StatusTable
<1>7. Follows(to[e], 2)
  BY <1>5, LegalAnswers
<1>8. Told(r.out, from, told) /\ told \in Ledger
  BY <1>1, <1>2, <1>3, <1>4, <1>6, <1>7, EnterTold
<1>9. /\ r.machine.state = "EVENT_STARTED" /\ r.machine.active = e
      /\ r.machine.rejected = p.machine.rejected
  BY <1>2, <1>3, <1>4, EnterFields
<1>10. Matches(told, r.machine)
  BY <1>1, <1>5, <1>9 DEF Matches, Ledger
<1> QED BY <1>8, <1>10 DEF Faithful

LEMMA AnnounceFaithful ==
  ASSUME NEW p, Good(p), NEW from, Faithful(p, from)
  PROVE  Faithful(Announce(p), from)
<1> DEFINE q == p.machine.queue
<1> DEFINE head == HeadOf(q)
<1>1. IsPass(p) /\ Consistent(p.machine) /\ IsQueue(q)
  BY DEF Good, IsPass, HasMachineFields
<1>2. CASE p.machine.state = "DEFAULT" /\ DOMAIN q # {}
  <2>1. head \in DOMAIN q /\ head \in MRIDs /\ q[head] \in Entry
    BY <1>1, <1>2, HeadInQueue DEF IsQueue
  <2>2. head \notin p.machine.rejected
    BY <1>1, <2>1 DEF Consistent, Tracked
  <2>3. Announce(p) = Enter(Activate(p, head, q[head]), "EVENT_RECEIVED")
    BY <1>2 DEF Announce
  <2> HIDE DEF head
  <2> QED BY <1>1, <1>2, <2>1, <2>2, <2>3, ReceiveFaithful
<1>3. CASE ~(p.machine.state = "DEFAULT" /\ DOMAIN q # {})
  BY <1>3 DEF Announce
<1> QED BY <1>2, <1>3

\* The head of a queue with something due is popped, received if the machine
\* was idle, and started if it is the received event.
LEMMA StartDueFaithful ==
  ASSUME NEW p, Good(p), NEW t \in Int, NEW from, Faithful(p, from)
  PROVE  Faithful(StartDue(p, t), from)
<1> DEFINE q == p.machine.queue
<1> DEFINE head == HeadOf(q)
<1> DEFINE popped == Requeue(p, PopExpired(q, t))
<1> DEFINE received == Enter(Activate(popped, head, q[head]), "EVENT_RECEIVED")
<1> DEFINE seen == IF p.machine.state = "DEFAULT" THEN received ELSE popped
<1> DEFINE started == Enter(Activate(seen, head, q[head]), "EVENT_STARTED")
<1> DEFINE starts == seen.machine.state = "EVENT_RECEIVED" /\ seen.machine.active = head
<1>1. StartDue(p, t) = IF Due(q, t) = {} THEN p
                       ELSE IF starts THEN Complete(started, t) ELSE seen
  BY DEF StartDue
<1>2. CASE Due(q, t) = {}
  BY <1>1, <1>2
<1>3. CASE Due(q, t) # {}
  <2>1. IsPass(p) /\ Consistent(p.machine) /\ IsQueue(q)
    BY DEF Good, IsPass, HasMachineFields
  <2>2. IsQueue(PopExpired(q, t)) /\ DOMAIN PopExpired(q, t) = DOMAIN q \ Due(q, t)
    BY <2>1, WithoutIsQueue DEF PopExpired
  <2>3. /\ head \in DOMAIN q /\ head \notin DOMAIN PopExpired(q, t)
        /\ head \in MRIDs /\ q[head] \in Entry
    <3>1. head \in Due(q, t)
      BY <1>3, <2>1, HeadIsDue
    <3> QED BY <2>1, <2>2, <3>1 DEF Due, IsQueue
  <2>4. head \notin p.machine.rejected
    BY <2>1, <2>3 DEF Consistent, Tracked
  <2> HIDE DEF q, head
  <2>5. /\ IsPass(popped) /\ popped.out = p.out
        /\ popped.machine.state = p.machine.state
        /\ popped.machine.active = p.machine.active
        /\ popped.machine.queue = PopExpired(q, t)
        /\ popped.machine.rejected = p.machine.rejected
    BY <2>1, <2>2, RequeueFields, OutFields
  <2> HIDE DEF popped
  <2>6. Faithful(popped, from)
    BY <2>5 DEF Faithful, Matches
  <2>7. Faithful(received, from)
        \/ p.machine.state # "DEFAULT"
    BY <2>3, <2>4, <2>5, <2>6, ReceiveFaithful
  <2>8. /\ IsPass(received)
        /\ received.machine.queue = PopExpired(q, t)
        /\ received.machine.rejected = p.machine.rejected
    <3> DEFINE a == Activate(popped, head, q[head])
    <3>1. /\ IsPass(a) /\ a.machine.active \in MRIDs
          /\ a.machine.queue = PopExpired(q, t)
          /\ a.machine.rejected = p.machine.rejected
      BY <2>3, <2>5, ActivateFields
    <3> HIDE DEF a
    <3>2. "EVENT_RECEIVED" \in EventState
      BY DEF EventState, Resting
    <3>3. /\ IsPass(Enter(a, "EVENT_RECEIVED"))
          /\ Enter(a, "EVENT_RECEIVED").machine.queue = PopExpired(q, t)
          /\ Enter(a, "EVENT_RECEIVED").machine.rejected = p.machine.rejected
      BY <3>1, <3>2, EnterFields
    <3> QED BY <3>3 DEF a
  <2> HIDE DEF received
  <2>9. /\ IsPass(seen) /\ Faithful(seen, from)
        /\ seen.machine.queue = PopExpired(q, t)
        /\ seen.machine.rejected = p.machine.rejected
    BY <2>5, <2>6, <2>7, <2>8
  <2> HIDE DEF seen
  <2>10. CASE ~starts
    BY <1>1, <1>3, <2>9, <2>10
  <2>11. CASE starts
    <3>1. Faithful(started, from)
      BY <2>3, <2>9, <2>11, StartFaithful
    <3>2. Good(started)
      <4> DEFINE a == Activate(seen, head, q[head])
      <4>1. /\ IsPass(a) /\ a.machine.active = head
            /\ a.machine.expireAt = q[head].expireAt
            /\ a.machine.queue = PopExpired(q, t)
            /\ a.machine.rejected = p.machine.rejected
        BY <2>3, <2>9, ActivateFields
      <4>2. started = Enter(a, "EVENT_STARTED")
        OBVIOUS
      <4> HIDE DEF a, started
      <4>3. "EVENT_STARTED" \in EventState
        BY DEF EventState, Resting
      <4>4. /\ IsPass(started)
            /\ started.machine.state = "EVENT_STARTED"
            /\ started.machine.active = head
            /\ started.machine.expireAt = q[head].expireAt
            /\ started.machine.queue = PopExpired(q, t)
            /\ started.machine.rejected = p.machine.rejected
        BY <2>3, <4>1, <4>2, <4>3, EnterFields
      <4>5. q[head].expireAt \in Int
        BY <2>3 DEF Entry
      <4>6. p.machine.rejected \cap DOMAIN PopExpired(q, t) = {}
        BY <2>1, <2>2 DEF Consistent, Tracked, q
      <4> QED BY <2>3, <2>4, <4>4, <4>5, <4>6, NoneAssumption
              DEF Good, Consistent, Tracked, Resting
    <3> HIDE DEF started
    <3>3. Faithful(Complete(started, t), from)
      BY <3>1, <3>2, CompleteFaithful
    <3> QED BY <1>1, <1>3, <2>11, <3>3
  <2> QED BY <2>10, <2>11
<1> QED BY <1>2, <1>3

\* Admitting events tells of each refused one, and of nothing else.
LEMMA AdmitFaithful ==
  ASSUME NEW m, HasMachineFields(m), Consistent(m),
         NEW curr, NEW added \in SUBSET MRIDs, added \cap Tracked(m) = {},
         NEW order \in Orders(Refused(m, added, curr)), NEW windows, NEW sort,
         NEW from \in Ledger, Matches(from, m),
         NEW p, p = Admit(m, added, curr, order, windows, sort), Good(p)
  PROVE  Faithful(p, from)
<1> DEFINE R == Refused(m, added, curr)
<1> DEFINE to == [e \in MRIDs |-> IF e \in R THEN 253 ELSE from[e]]
<1>1. R \in SUBSET MRIDs /\ R \cap m.rejected = {} /\ R \cap Tracked(m) = {}
  BY DEF Refused
<1>2. /\ DOMAIN p.out = DOMAIN order /\ p.out \in Seq(Transition)
      /\ \A i \in DOMAIN p.out : p.out[i].mRID = order[i] /\ p.out[i].next = "EVENT_REJECTED"
  BY DEF Admit, Good, IsPass
<1>3. /\ p.machine.state = m.state /\ p.machine.active = m.active
      /\ p.machine.rejected = m.rejected \cup R
  BY DEF Admit, HasMachineFields
<1> HIDE DEF R
<1>4. \A e \in R : from[e] # 253
  BY <1>1 DEF Matches
<1>5. Told(p.out, from, to)
  BY <1>1, <1>2, <1>4, RejectionsTold DEF R
<1>6. to \in Ledger
  BY DEF Ledger, Statuses
<1>7. m.active \notin R
  <2>1. m.active = None \/ m.active \in Tracked(m)
    BY DEF Tracked
  <2> QED BY <1>1, <2>1, NoneAssumption
<1>8. Matches(to, p.machine)
  BY <1>1, <1>3, <1>7 DEF Matches, Ledger
<1> QED BY <1>5, <1>6, <1>8 DEF Faithful

\* Rejecting items tells of each, and takes the active event off the machine.
LEMMA RejectAllFaithful ==
  ASSUME NEW m, HasMachineFields(m), Consistent(m),
         NEW refused \in SUBSET MRIDs, refused \cap m.rejected = {},
         NEW order \in Orders(refused), NEW from \in Ledger, Matches(from, m),
         NEW p, p = RejectAll(m, refused, order), Good(p)
  PROVE  Faithful(p, from)
<1> DEFINE to == [e \in MRIDs |-> IF e \in refused THEN 253 ELSE from[e]]
<1> DEFINE record(i) ==
             [prev |-> IF \E j \in 1 .. i - 1 : order[j] = m.active THEN "DEFAULT" ELSE m.state,
              next |-> "EVENT_REJECTED", mRID |-> order[i]]
<1> DEFINE out == [i \in DOMAIN order |-> record(i)]
<1> DEFINE k == [m EXCEPT !.rejected = @ \cup refused, !.queue = OnEventsCancelled(@, refused)]
<1> DEFINE kept == [machine |-> k, out |-> out]
<1> DEFINE ended == m.active \in refused /\ m.state # "DEFAULT"
<1>1. p = IF ended THEN Revert(kept) ELSE kept
  BY DEF RejectAll
<1>2. p.out = out
  BY <1>1 DEF Revert
<1>3. /\ k.state = m.state /\ k.active = m.active /\ k.rejected = m.rejected \cup refused
      /\ DOMAIN k = {"state", "active", "expireAt", "queue", "rejected"}
  BY DEF HasMachineFields
<1> HIDE DEF k
<1>4. /\ p.machine.rejected = m.rejected \cup refused
      /\ ended => p.machine.state = "DEFAULT"
      /\ ~ended => p.machine.state = m.state /\ p.machine.active = m.active
  BY <1>1, <1>3 DEF Revert
<1>5. /\ DOMAIN p.out = DOMAIN order /\ p.out \in Seq(Transition)
      /\ \A i \in DOMAIN p.out : p.out[i].mRID = order[i] /\ p.out[i].next = "EVENT_REJECTED"
  BY <1>2 DEF Good, IsPass
<1>6. \A e \in refused : from[e] # 253
  BY DEF Matches
<1>7. Told(p.out, from, to)
  BY <1>5, <1>6, RejectionsTold
<1>8. to \in Ledger
  BY DEF Ledger, Statuses
<1>9. ended \/ m.active \notin refused
  BY NoneAssumption DEF Consistent
<1>10. Matches(to, p.machine)
  BY <1>4, <1>9 DEF Matches, Ledger
<1> QED BY <1>7, <1>8, <1>10 DEF Faithful

\* What a whole tick does.
LEMMA PassFaithful ==
  ASSUME NEW m, HasMachineFields(m), Consistent(m),
         NEW curr, NEW added \in SUBSET MRIDs, added \cap Tracked(m) = {},
         NEW order \in Orders(Refused(m, added, curr)),
         NEW windows \in [Schedulable(m, added, curr) -> Windows], NEW sort \in Sorts,
         NEW gone, NEW t \in Int, NEW from \in Ledger, Matches(from, m)
  PROVE  Faithful(Pass(m, added, curr, order, windows, sort, gone, t), from)
<1> DEFINE admitted == Admit(m, added, curr, order, windows, sort)
<1> DEFINE cancelled == Cancel(admitted, gone)
<1> DEFINE completed == Complete(cancelled, t)
<1> DEFINE started == StartDue(completed, t)
<1>1. Pass(m, added, curr, order, windows, sort, gone, t) = Announce(started)
  BY DEF Pass
<1>2. Good(admitted)
  BY AdmitStep
<1>3. Faithful(admitted, from)
  BY <1>2, AdmitFaithful
<1> HIDE DEF admitted
<1>4. Good(cancelled) /\ Faithful(cancelled, from)
  BY <1>2, <1>3, CancelStep, CancelFaithful
<1> HIDE DEF cancelled
<1>5. Good(completed) /\ ~Expired(completed.machine, t) /\ Faithful(completed, from)
  BY <1>4, CompleteStep, CompleteFaithful
<1> HIDE DEF completed
<1>6. Good(started) /\ Faithful(started, from)
  BY <1>5, StartDueStep, StartDueFaithful
<1> HIDE DEF started
<1> QED BY <1>1, <1>6, AnnounceFaithful

-----------------------------------------------------------------------------
(* The invariant: firing what is pending makes the answers match.          *)

AnswersInv ==
  /\ IInv
  /\ \E to \in Ledger : Told(pending, answered, to) /\ Matches(to, sm)

LEMMA InitAnswers == Init => AnswersInv
<1> SUFFICES ASSUME Init PROVE AnswersInv
  OBVIOUS
<1>1. answered \in Ledger /\ pending = <<>>
  BY DEF Init, Ledger, Statuses
<1>2. Told(pending, answered, answered)
  BY <1>1, NothingTold
<1>3. Matches(answered, sm)
  BY DEF Init, Matches
<1> QED BY <1>1, <1>2, <1>3, InitInv DEF AnswersInv

\* With nothing pending the answers match already.
LEMMA NothingPendingMatches ==
  ASSUME AnswersInv, pending = <<>>
  PROVE  answered \in Ledger /\ Matches(answered, sm)
<1>1. PICK to \in Ledger : Told(pending, answered, to) /\ Matches(to, sm)
  BY DEF AnswersInv
<1>2. to = answered
  BY <1>1, NothingPending
<1> QED BY <1>1, <1>2

LEMMA RejectAnswers ==
  ASSUME AnswersInv, NEW list \in Lists, Reject(list)
  PROVE  AnswersInv'
<1> DEFINE refused == {e \in RejectedItems(list) : list[e] = "garbled"} \ sm.rejected
<1>1. PICK order \in Orders(refused) :
        /\ sm' = RejectAll(sm, refused, order).machine
        /\ pending' = RejectAll(sm, refused, order).out
  BY DEF Reject
<1>2. refused \in SUBSET MRIDs /\ refused \cap sm.rejected = {}
  BY DEF RejectedItems
<1>3. HasMachineFields(sm) /\ Consistent(sm)
  BY IsMachineFields DEF AnswersInv, IInv, TypeOK
<1>4. pending = <<>> /\ answered' = answered
  BY DEF Reject
<1> HIDE DEF refused
<1>5. answered \in Ledger /\ Matches(answered, sm)
  BY <1>4, NothingPendingMatches
<1>6. Good(RejectAll(sm, refused, order))
  BY <1>1, <1>2, <1>3, RejectAllStep
<1>7. Faithful(RejectAll(sm, refused, order), answered)
  BY <1>1, <1>2, <1>3, <1>5, <1>6, RejectAllFaithful
<1>8. IInv'
  BY RejectInv DEF AnswersInv
<1> QED BY <1>1, <1>4, <1>7, <1>8 DEF AnswersInv, Faithful

LEMMA TickAnswers ==
  ASSUME AnswersInv, NEW list \in Lists, Tick(list)
  PROVE  AnswersInv'
<1> DEFINE curr == Snapshot(list)
<1> DEFINE added == Added(prev, curr)
<1> DEFINE gone == Cancelled(prev, curr)
<1>1. IsSnapshot(curr) /\ IsSnapshot(prev) /\ IInv
  BY SnapshotIsSnapshot DEF AnswersInv, IInv, TypeOK
<1>2. PICK order \in Orders(Refused(sm, added, curr)),
           windows \in [Schedulable(sm, added, curr) -> Windows],
           sort \in Sorts :
        /\ sm' = Pass(sm, added, curr, order, windows, sort, gone, now).machine
        /\ pending' = Pass(sm, added, curr, order, windows, sort, gone, now).out
  BY DEF Tick
<1>3. pending = <<>> /\ answered' = answered
  BY DEF Tick
<1> HIDE DEF curr
<1>4. added \in SUBSET MRIDs /\ added \cap Tracked(sm) = {}
  BY <1>1 DEF Added, IsSnapshot, IInv, TrackedStillListed
<1>5. HasMachineFields(sm) /\ Consistent(sm) /\ now \in Int
  BY <1>1, IsMachineFields DEF IInv, TypeOK, Time
<1> HIDE DEF added, gone
<1>6. answered \in Ledger /\ Matches(answered, sm)
  BY <1>3, NothingPendingMatches
<1>7. Faithful(Pass(sm, added, curr, order, windows, sort, gone, now), answered)
  BY <1>2, <1>4, <1>5, <1>6, PassFaithful
<1>8. IInv'
  BY <1>1, TickInv
<1> QED BY <1>2, <1>3, <1>7, <1>8 DEF AnswersInv, Faithful

\* Firing a transition tells it, legally.
LEMMA FireAnswers ==
  ASSUME AnswersInv, Fire
  PROVE  /\ AnswersInv'
         /\ \E e \in MRIDs : Answers!Answer(e)
<1>1. PICK to \in Ledger : Told(pending, answered, to) /\ Matches(to, sm)
  BY DEF AnswersInv
<1>2. /\ pending \in Seq(Transition) /\ pending # <<>>
      /\ pending' = Tail(pending) /\ sm' = sm
  BY DEF AnswersInv, IInv, TypeOK, Fire
<1> DEFINE t == Head(pending)
<1>3. t.mRID \in MRIDs
  <2>1. t \in Transition
    BY ONLY <1>2
  <2> QED BY <2>1 DEF Transition
<1>4. /\ StatusOf(t) # 0
      /\ Follows(answered[t.mRID], StatusOf(t))
      /\ Told(Tail(pending), Tell(answered, t), to)
  BY <1>1, <1>2, TellFirst
<1>5. answered' = Tell(answered, t)
  BY <1>4 DEF Fire, Tell
<1>6. IInv'
  BY FireInv DEF AnswersInv
<1>7. AnswersInv'
  BY <1>1, <1>2, <1>4, <1>5, <1>6 DEF AnswersInv
<1>8. Answers!Answer(t.mRID)
  BY <1>4, <1>5 DEF Tell, Follows, Answers!Answer
<1> QED BY <1>3, <1>7, <1>8

\* What the hooks still have to post follows, legally, from what was posted, and
\* ends in what the machine does, in every behaviour of the engine.
THEOREM AnswersInvariance == Spec => []AnswersInv
<1>1. AnswersInv /\ [Next]_vars => AnswersInv'
  <2> SUFFICES ASSUME AnswersInv, [Next]_vars PROVE AnswersInv'
    OBVIOUS
  <2>1. CASE \E list \in Lists : Reject(list) \/ Tick(list)
    BY <2>1, RejectAnswers, TickAnswers
  <2>2. CASE Fire
    BY <2>2, FireAnswers
  <2>3. CASE UNCHANGED vars
    BY <2>3 DEF vars, AnswersInv, IInv, TypeOK, Consistent, Tracked, TrackedStillListed,
                NothingOverdue
  <2> QED BY <2>1, <2>2, <2>3 DEF Next
<1> QED BY <1>1, InitAnswers, PTL DEF Spec

\* Once the Response hooks of a step have run, the last status posted about an
\* event is 1 or 2 for the event the machine received or runs, and for no other,
\* and 253 for exactly the events it refused.
THEOREM AnswersTrue == Spec => []AnswersMatchState
<1>1. AnswersInv => AnswersMatchState
  BY NothingPendingMatches DEF AnswersMatchState, Matches
<1> QED BY <1>1, AnswersInvariance, PTL

\* The trail of statuses each event gets (mapTransitionToStatus) is a legal one:
\* the engine and its hook implement EventAnswers.
THEOREM AnswersImplement == Spec => AnswersLegal
<1>1. Init => Answers!Init
  BY DEF Init, Answers!Init
<1>2. AnswersInv /\ [Next]_vars => [Answers!Next]_answered
  <2> SUFFICES ASSUME AnswersInv, [Next]_vars PROVE [Answers!Next]_answered
    OBVIOUS
  <2>1. CASE \E list \in Lists : Reject(list) \/ Tick(list)
    BY <2>1 DEF Reject, Tick
  <2>2. CASE Fire
    BY <2>2, FireAnswers DEF Answers!Next
  <2>3. CASE UNCHANGED vars
    BY <2>3 DEF vars
  <2> QED BY <2>1, <2>2, <2>3 DEF Next
<1> QED BY <1>1, <1>2, AnswersInvariance, PTL DEF Spec, AnswersLegal, Answers!Spec

-----------------------------------------------------------------------------
(***************************************************************************)
(* The session: whatever the two readers store in the cache, and however   *)
(* the POSTs of the hooks end.                                             *)
(***************************************************************************)

\* What is stored and on its way are lists; and until the tick goroutine took
\* its first snapshot, which replaces the previous one, the engine tracks
\* nothing that could be missing in it.
SessionInv ==
  /\ IInv
  /\ server \in Lists /\ cache \in Lists
  /\ response \in [Readers -> Lists \cup {None}]
  /\ ~ticking => Tracked(sm) = {}

LEMMA SessionInitInv == SessionInit => SessionInv
<1> SUFFICES ASSUME SessionInit PROVE SessionInv
  OBVIOUS
<1>1. IInv
  BY InitInv DEF SessionInit
<1>2. EmptyList \in Lists
  BY DEF EmptyList, Lists
<1>3. Tracked(sm) = {}
  BY DEF SessionInit, Init, Tracked, EmptyQueue
<1> QED BY <1>1, <1>2, <1>3, ServerAssumption DEF SessionInv, SessionInit

\* The readers and the server touch nothing of the engine's.
LEMMA CacheStepInv ==
  ASSUME SessionInv,
         ServerChanges \/ \E r \in Readers : Get(r) \/ Refresh(r) \/ GetFails(r) \/ GetExpires(r)
  PROVE  SessionInv'
<1>1. UNCHANGED <<sm, prev, now, pc, pending, answered, ticking>>
  BY DEF ServerChanges, Get, Refresh, GetFails, GetExpires, engineVars
<1>2. IInv' /\ (~ticking' => Tracked(sm)' = {})
  BY <1>1 DEF SessionInv, IInv, TypeOK, Consistent, Tracked, TrackedStillListed, NothingOverdue
<1>3. /\ server' \in Lists /\ cache' \in Lists
      /\ response' \in [Readers -> Lists \cup {None}]
  BY ServerAssumption DEF SessionInv, ServerChanges, Get, Refresh, GetFails, GetExpires
<1> QED BY <1>2, <1>3 DEF SessionInv

LEMMA StartTickingInv == SessionInv /\ StartTicking => SessionInv'
<1> SUFFICES ASSUME SessionInv, StartTicking PROVE SessionInv'
  OBVIOUS
<1>1. /\ UNCHANGED <<sm, now, pc, pending, answered, server, cache, response>>
      /\ prev' = Snapshot(cache) /\ ticking' = TRUE
  BY DEF StartTicking, listVars
<1>2. Tracked(sm') = {}
  BY <1>1 DEF SessionInv, StartTicking
<1>3. IsSnapshot(prev')
  BY <1>1, SnapshotIsSnapshot DEF SessionInv
<1>4. TypeOK' /\ Consistent(sm') /\ NothingOverdue'
  BY <1>1, <1>3 DEF SessionInv, IInv, TypeOK, Consistent, Tracked, NothingOverdue
<1> QED BY <1>1, <1>2, <1>4 DEF SessionInv, IInv, TrackedStillListed

\* A step of the engine is one on the list the cache holds at that moment.
LEMMA EngineStepInv ==
  ASSUME SessionInv, StepReject \/ StepTick
  PROVE  SessionInv'
<1>1. ticking /\ (Reject(cache) \/ Tick(cache)) /\ UNCHANGED <<server, cache, response, ticking>>
  BY DEF StepReject, StepTick, listVars
<1>2. IInv'
  BY <1>1, RejectInv, TickInv DEF SessionInv
<1> QED BY <1>1, <1>2 DEF SessionInv

\* A POST takes at most its own transition from those that are pending.
LEMMA HookStepInv ==
  ASSUME SessionInv, StepPost \/ StepSkip
  PROVE  SessionInv'
<1>1. UNCHANGED <<sm, prev, now, pc, server, cache, response, ticking>>
  BY DEF StepPost, StepSkip, Fire, listVars, engineVars
<1>2. IInv'
  <2>1. CASE Fire
    BY <2>1, FireInv DEF SessionInv
  <2>2. CASE UNCHANGED engineVars
    BY <2>2 DEF engineVars, SessionInv, IInv, TypeOK, Consistent, Tracked, TrackedStillListed,
                NothingOverdue
  <2>3. CASE StepSkip
    <3>1. pending' \in Seq(Transition) /\ answered' = answered
      BY <2>3 DEF StepSkip, SessionInv, IInv, TypeOK
    <3> QED BY <1>1, <3>1
            DEF SessionInv, IInv, TypeOK, Consistent, Tracked, TrackedStillListed, NothingOverdue
  <2> QED BY <2>1, <2>2, <2>3 DEF StepPost
<1>3. Tracked(sm)' = Tracked(sm)
  BY <1>1 DEF Tracked
<1> QED BY <1>1, <1>2, <1>3 DEF SessionInv

\* What the engine keeps holds in every behaviour of the session: with lists
\* stored out of order, readers that fail, and Responses that are never taken.
THEOREM SessionInvariance == SessionSpec => []SessionInv
<1>1. SessionInv /\ [SessionNext]_sessionVars => SessionInv'
  <2> SUFFICES ASSUME SessionInv, [SessionNext]_sessionVars PROVE SessionInv'
    OBVIOUS
  <2>1. CASE SessionNext
    BY <2>1, CacheStepInv, StartTickingInv, EngineStepInv, HookStepInv DEF SessionNext
  <2>2. CASE UNCHANGED sessionVars
    BY <2>2 DEF sessionVars, engineVars, listVars, SessionInv, IInv, TypeOK, Consistent, Tracked,
                TrackedStillListed, NothingOverdue
  <2> QED BY <2>1, <2>2
<1> QED BY <1>1, SessionInitInv, PTL DEF SessionSpec

\* In the session, too, a refused event is never scheduled, received or started
\* again: stepEvents rejects on one read of the cache and ticks on another.
THEOREM SessionRejectedStaysOut == SessionSpec => []RejectedNeverTracked
<1>1. SessionInv => RejectedNeverTracked
  BY DEF SessionInv, IInv, Consistent, RejectedNeverTracked
<1> QED BY <1>1, SessionInvariance, PTL

\* In the session, too, the engine tracks only what the last snapshot of the
\* cache listed, uncancelled: the snapshot main takes before its loop included.
THEOREM SessionWithdrawnIsForgotten == SessionSpec => []TrackedStillListed
<1>1. SessionInv => TrackedStillListed
  BY DEF SessionInv, IInv
<1> QED BY <1>1, SessionInvariance, PTL
=============================================================================
