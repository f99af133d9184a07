---------------------------- MODULE ManagedProofs ----------------------------
(***************************************************************************)
(* Proofs about ManagedControls, for any set of programs, anything a       *)
(* server may list of them, and any number of changes and faults.          *)
(***************************************************************************)
EXTENDS ManagedControls, WellFoundedInduction, TLAPS

-----------------------------------------------------------------------------
(* Selection.                                                              *)

LEMMA NatMinimum ==
  ASSUME NEW S \in SUBSET Nat, S # {}
  PROVE  \E m \in S : \A n \in S : m <= n
<1> DEFINE R == {pair \in Nat \X Nat : pair[1] < pair[2]}
<1>1. IsWellFoundedOn(R, Nat)
  BY NatLessThanWellFounded DEF OpToRel
<1>2. PICK m \in S : \A n \in S : ~(<<n, m>> \in R)
  BY <1>1, WFMin, Zenon
<1>3. m \in Nat /\ \A n \in S : n \in Nat
  OBVIOUS
<1>4. \A n \in S : ~(n < m)
  BY <1>2, <1>3
<1> QED BY <1>3, <1>4

\* Programs that differ in their mRID have a best one, which is what
\* SelectHighestPriority returns.
LEMMA SelectBest ==
  ASSUME NEW seen, seen # {},
         \A a \in seen : a.primacy \in Nat /\ a.mrid \in Nat,
         \A a, b \in seen : a.mrid = b.mrid => a = b
  PROVE  \E best \in seen : /\ Select(seen) = [mrid |-> best.mrid, place |-> best.place]
                            /\ \A b \in seen \ {best} : Better(best, b)
<1>1. PICK least \in {a.primacy : a \in seen} : \A n \in {a.primacy : a \in seen} : least <= n
  <2>1. {a.primacy : a \in seen} \in SUBSET Nat /\ {a.primacy : a \in seen} # {}
    OBVIOUS
  <2> QED BY <2>1, NatMinimum
<1> DEFINE first == {a \in seen : a.primacy = least}
<1>2. PICK low \in {a.mrid : a \in first} : \A n \in {a.mrid : a \in first} : low <= n
  <2>1. {a.mrid : a \in first} \in SUBSET Nat /\ {a.mrid : a \in first} # {}
    BY <1>1
  <2> QED BY <2>1, NatMinimum
<1>3. PICK a \in first : a.mrid = low
  BY <1>2
<1>4. ASSUME NEW b \in seen \ {a}
      PROVE  Better(a, b)
  <2>1. a.primacy = least /\ least <= b.primacy /\ b.primacy \in Nat /\ least \in Nat
    BY <1>1, <1>3
  <2>2. CASE b.primacy = least
    <3>1. b \in first
      BY <2>2
    <3>2. a.mrid <= b.mrid /\ a.mrid # b.mrid /\ a.mrid \in Nat /\ b.mrid \in Nat
      BY <1>2, <1>3, <3>1
    <3> QED BY <2>1, <2>2, <3>2 DEF Better
  <2>3. CASE b.primacy # least
    BY <2>1, <2>3 DEF Better
  <2> QED BY <2>2, <2>3
<1> DEFINE best == CHOOSE x \in seen : \A b \in seen \ {x} : Better(x, b)
<1>5. best \in seen /\ \A b \in seen \ {best} : Better(best, b)
  BY <1>3, <1>4
<1>6. Select(seen) = [mrid |-> best.mrid, place |-> best.place]
  BY DEF Select
<1> QED BY <1>5, <1>6

-----------------------------------------------------------------------------
(* The inductive invariant.                                                *)

Drivers == {"event", "default", "plan", "nothing", "changed"} \X Nat

Program == [mrid : Programs, place : Nat \ {0}]

\* What a walk notes of a program.
Seen == [mrid : Programs, primacy : Nat, place : Nat \ {0}]

TypeInv ==
  /\ server = [p \in Programs |-> server[p]]
  /\ \A p \in Programs : server[p] \in Entries(p)
  /\ pc \in {"fsa", "programs", "posted", "judge", "wait", "drop", "default", "list", "select"}
  /\ following \in Program \cup {NoProgram} /\ next \in Program \cup {NoProgram}
  /\ walk \in [toRead : SUBSET Programs, seen : SUBSET Seen, unreadable : SUBSET Programs]
  /\ defaultCtl \in Nat
  /\ engine \in [stage : {"none", "received", "started"}, of : Nat]
  /\ prev \subseteq Programs
  /\ superseded \in BOOLEAN
  /\ ended \in [status : {0, 6, 14}, cause : {"none", "list", "gone", "replaced"}]
  /\ tick \in [at : {"idle", "read", "engine", "apply"}, planned : BOOLEAN,
               steady : Drivers, setpoint : Drivers]

\* A walk has read a program once, or not yet.
WalkInv ==
  /\ \A a \in walk.seen : a.mrid \notin walk.toRead
  /\ \A a, b \in walk.seen : a.mrid = b.mrid => a = b

\* What the session holds is of the program it follows: the event only as long
\* as the snapshot has it, so that a change of program cancels it, and the
\* default only until the program is dropped.
SessionInv ==
  /\ pc \in {"default", "list", "select", "drop"} => following # NoProgram
  /\ defaultCtl \in {0, following.mrid}
  /\ pc = "drop" => defaultCtl = 0
  /\ prev \subseteq {following.mrid}
  /\ engine.of \in {0} \cup prev
  /\ engine.stage = "none" => engine.of = 0

\* The flag is up only between the decision to replace a program and the
\* cancellation of its controls.
FlagInv ==
  /\ superseded <=> pc = "drop" /\ next # NoProgram /\ next.mrid # following.mrid
  /\ SupersessionTold

\* What the tick believes to drive the device drives it still, or it has noted
\* a change.
TickInv ==
  tick.at # "idle" /\ tick.steady # Changed =>
    /\ tick.steady = Base
    /\ tick.planned \/ tick.at = "engine" => ~Active
    /\ tick.at = "apply" => tick.setpoint = tick.steady

IInv == TypeInv /\ WalkInv /\ SessionInv /\ FlagInv /\ TickInv

\* A walk's choice is a program it has seen, or none.
LEMMA ChoiceIsProgram ==
  ASSUME TypeInv, WalkInv
  PROVE  /\ Select(walk.seen) \in Program \cup {NoProgram}
         /\ walk.seen # {} => Select(walk.seen) \in Program
<1>1. CASE walk.seen = {}
  BY <1>1 DEF Select
<1>2. CASE walk.seen # {}
  <2>1. walk.seen \in SUBSET Seen
    BY DEF TypeInv
  <2>2. \A a \in walk.seen : a.primacy \in Nat /\ a.mrid \in Nat
    BY <2>1, EntriesAssumption DEF Seen
  <2>3. PICK best \in walk.seen : Select(walk.seen) = [mrid |-> best.mrid, place |-> best.place]
    BY <1>2, <2>2, SelectBest DEF WalkInv
  <2> QED BY <2>1, <2>3 DEF Seen, Program
<1> QED BY <1>1, <1>2

\* No program is followed exactly when its mRID is 0.
LEMMA NoProgramIsZero ==
  ASSUME NEW p \in Program \cup {NoProgram}
  PROVE  /\ p = NoProgram <=> p.mrid = 0
         /\ p.mrid \in Nat
         /\ p # NoProgram => p.mrid \in Programs
<1>1. CASE p = NoProgram
  BY <1>1 DEF NoProgram
<1>2. CASE p \in Program
  <2>1. p.mrid \in Programs
    BY <1>2 DEF Program
  <2>2. p.mrid \in Nat /\ p.mrid # 0
    BY <2>1, EntriesAssumption
  <2>3. NoProgram.mrid = 0
    BY DEF NoProgram
  <2> QED BY ONLY <2>1, <2>2, <2>3
<1> QED BY <1>1, <1>2

LEMMA InitInv == Init => IInv
<1> SUFFICES ASSUME Init PROVE IInv
  OBVIOUS
<1>1. TypeInv
  <2>1. server = [p \in Programs |-> server[p]]
    BY EntriesAssumption DEF Init
  <2>2. \A p \in Programs : server[p] \in Entries(p)
    BY EntriesAssumption DEF Init
  <2>3. walk \in [toRead : SUBSET Programs, seen : SUBSET Seen, unreadable : SUBSET Programs]
    BY DEF Init, NoWalk
  <2>4. tick \in [at : {"idle", "read", "engine", "apply"}, planned : BOOLEAN,
                  steady : Drivers, setpoint : Drivers]
    BY DEF Init, Idle, Nothing, Drivers
  <2> QED BY <2>1, <2>2, <2>3, <2>4 DEF Init, TypeInv, NoEvent, NotEnded
<1>2. WalkInv
  BY DEF Init, WalkInv, NoWalk
<1>3. SessionInv /\ FlagInv /\ TickInv
  BY DEF Init, SessionInv, FlagInv, TickInv, SupersessionTold, NoEvent, NotEnded, Idle
<1> QED BY <1>1, <1>2, <1>3 DEF IInv

-----------------------------------------------------------------------------
(* Steps of the server, its notifications and the walk, which leave alone  *)
(* what drives the device.                                                 *)

\* Such a step neither begins to follow nor drops a program.
LEMMA DrivenAlike ==
  ASSUME IInv, UNCHANGED <<following, next, defaultCtl, engine, prev, superseded, ended, tick>>,
         pc' = "drop" <=> pc = "drop",
         pc' \in {"default", "list", "select"} => following # NoProgram
  PROVE  SessionInv' /\ FlagInv' /\ TickInv'
BY DEF IInv, SessionInv, FlagInv, TickInv, SupersessionTold, Base, Active

LEMMA ServerStepInv ==
  ASSUME IInv, ServerChanges \/ Notify \/ NotifyEnded \/ UNCHANGED vars
  PROVE  IInv'
<1> USE DEF serverVars, sessionVars, followVars, subVars
<1>1. UNCHANGED <<pc, walk, following, next, defaultCtl, engine, prev, superseded, ended, tick>>
  BY DEF ServerChanges, Notify, NotifyEnded, vars
<1>2. SessionInv' /\ FlagInv' /\ TickInv'
  BY <1>1, DrivenAlike DEF IInv, SessionInv
<1>3. server' = [p \in Programs |-> server'[p]] /\ \A p \in Programs : server'[p] \in Entries(p)
  <2>1. CASE UNCHANGED server
    BY <2>1 DEF IInv, TypeInv
  <2>2. ASSUME NEW p \in Programs, NEW e \in Entries(p), server' = [server EXCEPT ![p] = e]
        PROVE  server' = [q \in Programs |-> server'[q]] /\ \A q \in Programs : server'[q] \in Entries(q)
    <3>1. server' = [q \in Programs |-> IF q = p THEN e ELSE server[q]]
      BY <2>2 DEF IInv, TypeInv
    <3> QED BY <3>1 DEF IInv, TypeInv
  <2> QED BY <2>1, <2>2 DEF ServerChanges, Notify, NotifyEnded, vars
<1>4. TypeInv'
  BY <1>1, <1>3 DEF IInv, TypeInv
<1>5. WalkInv'
  BY <1>1 DEF IInv, WalkInv
<1> QED BY <1>2, <1>4, <1>5 DEF IInv

LEMMA WalkStepInv ==
  ASSUME IInv,
         \/ ReadFSAList \/ ReadProgram \/ PostSubscription \/ NoSubscription
         \/ SubscriptionAnswered \/ WaitEnds \/ PollTimer \/ Wake \/ RewalkTimer
  PROVE  IInv'
<1> USE DEF serverVars, followVars, subVars, Works, Faults, WalkFails
<1>1. UNCHANGED <<server, following, next, defaultCtl, engine, prev, superseded, ended, tick>>
  BY DEF ReadFSAList, ReadProgram, PostSubscription, NoSubscription, SubscriptionAnswered,
         WaitEnds, PollTimer, Wake, RewalkTimer
<1>2. /\ pc # "drop" /\ pc' # "drop"
      /\ pc' \in {"default", "list", "select"} => following # NoProgram
      /\ pc' \in {"fsa", "programs", "posted", "judge", "wait", "default", "list", "select"}
  BY DEF ReadFSAList, ReadProgram, PostSubscription, NoSubscription, SubscriptionAnswered,
         WaitEnds, PollTimer, Wake, RewalkTimer, WalkDone, Discovering, IInv, SessionInv, TypeInv
<1>3. SessionInv' /\ FlagInv' /\ TickInv'
  BY <1>1, <1>2, DrivenAlike
<1>4. /\ walk' \in [toRead : SUBSET Programs, seen : SUBSET Seen, unreadable : SUBSET Programs]
      /\ WalkInv'
  <2>1. CASE UNCHANGED walk
    BY <2>1 DEF IInv, TypeInv, WalkInv
  <2>2. CASE walk' = NoWalk
    BY <2>2 DEF NoWalk, WalkInv
  <2>3. CASE walk' = [NoWalk EXCEPT !.toRead = {p \in Programs : Assigned(p)}]
    BY <2>3 DEF NoWalk, WalkInv
  <2>4. ASSUME NEW p \in walk.toRead,
               walk' = [walk EXCEPT !.toRead = @ \ {p}, !.seen = @ \cup SeenAt(p)]
        PROVE  /\ walk' \in [toRead : SUBSET Programs, seen : SUBSET Seen, unreadable : SUBSET Programs]
               /\ WalkInv'
    <3>1. p \in Programs /\ \A e \in Entries(p) : e.primacy \in Nat /\ e.place \in Nat
      BY EntriesAssumption DEF IInv, TypeInv
    <3>2. SeenAt(p) \subseteq Seen /\ \A a, b \in SeenAt(p) : a.mrid = p /\ a = b
      BY <3>1 DEF IInv, TypeInv, SeenAt, Seen
    <3>3. walk' = [toRead |-> walk.toRead \ {p}, seen |-> walk.seen \cup SeenAt(p),
                   unreadable |-> walk.unreadable]
      BY <2>4 DEF IInv, TypeInv
    <3> QED BY <3>2, <3>3 DEF IInv, TypeInv, WalkInv
  <2>5. ASSUME NEW p \in walk.toRead,
               walk' = [walk EXCEPT !.toRead = @ \ {p}, !.unreadable = @ \cup {p}]
        PROVE  /\ walk' \in [toRead : SUBSET Programs, seen : SUBSET Seen, unreadable : SUBSET Programs]
               /\ WalkInv'
    <3>1. walk' = [toRead |-> walk.toRead \ {p}, seen |-> walk.seen,
                   unreadable |-> walk.unreadable \cup {p}]
      BY <2>5 DEF IInv, TypeInv
    <3> QED BY <3>1 DEF IInv, TypeInv, WalkInv
  <2> QED BY <2>1, <2>2, <2>3, <2>4, <2>5
          DEF ReadFSAList, ReadProgram, PostSubscription, NoSubscription, SubscriptionAnswered,
              WaitEnds, PollTimer, Wake, RewalkTimer
<1>5. TypeInv'
  BY <1>1, <1>2, <1>4 DEF IInv, TypeInv
<1> QED BY <1>3, <1>4, <1>5 DEF IInv

-----------------------------------------------------------------------------
(* Steps of the session that may change what drives the device.            *)

Stages == {"none", "received", "started"}

\* What drives the device tells whether an event does.
LEMMA BaseTells ==
  ASSUME NEW e \in [stage : Stages, of : Nat], NEW d \in Nat,
         NEW f \in [stage : Stages, of : Nat], NEW g \in Nat
  PROVE  /\ BaseOf(e, d) \in Drivers
         /\ BaseOf(e, d) # Changed
         /\ BaseOf(e, d) = BaseOf(f, g) => (e.stage = "started" <=> f.stage = "started")
BY DEF BaseOf, Drivers, Event, Default, Nothing, Changed

\* A tick under way takes notice of every change of what drives the device.
LEMMA TickObserves ==
  ASSUME TypeInv, TickInv, tick' = Observed,
         engine' \in [stage : Stages, of : Nat], defaultCtl' \in Nat
  PROVE  /\ tick' \in [at : {"idle", "read", "engine", "apply"}, planned : BOOLEAN,
                        steady : Drivers, setpoint : Drivers]
         /\ TickInv'
<1>1. tick \in [at : {"idle", "read", "engine", "apply"}, planned : BOOLEAN,
                steady : Drivers, setpoint : Drivers]
  BY DEF TypeInv
<1>2. CASE tick' = tick /\ tick.at = "idle"
  BY <1>1, <1>2 DEF TickInv
<1>3. CASE tick' = tick /\ tick.steady = BaseOf(engine', defaultCtl')
  <2>1. engine \in [stage : Stages, of : Nat] /\ defaultCtl \in Nat
    BY DEF TypeInv, Stages
  <2>2. BaseOf(engine, defaultCtl) = BaseOf(engine', defaultCtl') =>
          (engine.stage = "started" <=> engine'.stage = "started")
    BY <2>1, BaseTells
  <2> QED BY <1>1, <1>3, <2>2 DEF TickInv, Base, Active
<1>4. CASE tick' = [tick EXCEPT !.steady = Changed]
  <2>1. Changed \in Drivers
    BY DEF Changed, Drivers
  <2>2. tick' \in [at : {"idle", "read", "engine", "apply"}, planned : BOOLEAN,
                   steady : Drivers, setpoint : Drivers] /\ tick'.steady = Changed
    BY <1>1, <1>4, <2>1
  <2> QED BY ONLY <2>2 DEF TickInv
<1> QED BY <1>2, <1>3, <1>4 DEF Observed

\* What a tick of the engine leaves of its event, and what it tells.
LEMMA TickAnswers ==
  ASSUME TypeInv, SessionInv, NEW added \in SUBSET Nat, NEW gone,
         NEW cause \in {"list", "gone", "replaced"}, Tick(added, gone, cause)
  PROVE  /\ engine' \in [stage : Stages, of : Nat]
         /\ engine'.of \in {0} \cup added \cup ({engine.of} \ gone)
         /\ engine'.stage = "none" => engine'.of = 0
         /\ \/ ended' = [status |-> IF superseded THEN 14 ELSE 6, cause |-> cause]
            \/ ended' = NotEnded
<1>1. /\ engine \in [stage : Stages, of : Nat]
      /\ engine.stage = "none" => engine.of = 0
  BY DEF TypeInv, SessionInv, Stages
<1>2. CASE engine.of \in gone
  BY <1>2 DEF Tick, NoEvent, Stages
<1>3. CASE engine.of \notin gone /\ added = {}
  <2>1. engine' \in Advance /\ ended' = NotEnded
    BY <1>3 DEF Tick
  <2>2. engine' \in {engine, [engine EXCEPT !.stage = "started"], NoEvent}
    BY <1>1, <2>1 DEF Advance, Stages
  <2>3. \/ engine' \in {NoEvent, engine}
        \/ engine'.of = engine.of /\ engine'.stage = "started"
    <3>1. [engine EXCEPT !.stage = "started"] = [stage |-> "started", of |-> engine.of]
      BY <1>1
    <3> QED BY <2>2, <3>1
  <2>4. engine' \in [stage : Stages, of : Nat]
    BY <1>1, <2>2 DEF NoEvent, Stages
  <2> QED BY <1>1, <1>3, <2>1, <2>3, <2>4 DEF NoEvent, SessionInv
<1>4. CASE engine.of \notin gone /\ added # {}
  <2>1. PICK p \in added : engine' \in Admit(p)
    BY <1>4 DEF Tick
  <2> QED BY <1>4, <2>1 DEF Tick, Admit, NoEvent, Stages
<1> QED BY <1>2, <1>3, <1>4

\* A program found by a discovery finds nothing left of another.
LEMMA DiscoverInv == IInv /\ Discover => IInv'
<1> SUFFICES ASSUME IInv, Discover PROVE IInv'
  OBVIOUS
<1>1. /\ UNCHANGED <<server, next, defaultCtl, engine, prev, superseded, ended, tick>>
      /\ following = NoProgram /\ following' = Select(walk.seen) /\ walk' = NoWalk
      /\ pc = "judge" /\ pc' = IF walk.seen = {} THEN "wait" ELSE "default"
  BY DEF Discover, Discovering, serverVars, subVars
<1>2. following' \in Program \cup {NoProgram} /\ (walk.seen # {} => following' \in Program)
  BY <1>1, ChoiceIsProgram DEF IInv
<1>3. defaultCtl = 0 /\ prev = {} /\ engine.of = 0
  <2>1. following.mrid = 0 /\ 0 \notin Programs
    BY <1>1, EntriesAssumption DEF NoProgram
  <2> QED BY <2>1 DEF IInv, TypeInv, SessionInv
<1>4. TypeInv' /\ WalkInv'
  BY <1>1, <1>2 DEF IInv, TypeInv, WalkInv, NoWalk
<1>5. SessionInv'
  <2>1. pc' = "default" => following' # NoProgram
    <3>1. \A p \in Program : p # NoProgram
      BY EntriesAssumption DEF Program, NoProgram
    <3> QED BY <1>1, <1>2, <3>1
  <2> QED BY <1>1, <1>3, <2>1 DEF IInv, SessionInv
<1>6. FlagInv' /\ TickInv'
  BY <1>1 DEF IInv, FlagInv, SupersessionTold, TickInv, Base, Active
<1> QED BY <1>4, <1>5, <1>6 DEF IInv

\* A program to be replaced gives its default back at once; the flag is raised
\* for another program only.
LEMMA RewalkedInv == IInv /\ Rewalked => IInv'
<1> SUFFICES ASSUME IInv, Rewalked PROVE IInv'
  OBVIOUS
<1> DEFINE choice == Select(walk.seen)
<1>1. /\ UNCHANGED <<server, following, engine, prev, ended>>
      /\ following # NoProgram /\ pc = "judge" /\ walk' = NoWalk /\ tick' = Observed
      /\ \/ /\ pc' = "drop" /\ next' = choice /\ defaultCtl' = 0
            /\ superseded' \in BOOLEAN
            /\ superseded' <=> choice # NoProgram /\ choice.mrid # following.mrid
         \/ pc' = "select" /\ UNCHANGED <<next, defaultCtl, superseded>>
  BY DEF Rewalked, Discovering, serverVars, subVars
<1>2. choice \in Program \cup {NoProgram}
  BY ChoiceIsProgram DEF IInv
<1> HIDE DEF choice
<1>3. /\ engine' \in [stage : Stages, of : Nat] /\ defaultCtl' \in Nat
      /\ next' \in Program \cup {NoProgram} /\ superseded' \in BOOLEAN
  BY <1>1, <1>2 DEF IInv, TypeInv, Stages
<1>4. TypeInv' /\ TickInv'
  <2>1. /\ tick' \in [at : {"idle", "read", "engine", "apply"}, planned : BOOLEAN,
                      steady : Drivers, setpoint : Drivers]
        /\ TickInv'
    BY <1>1, <1>3, TickObserves DEF IInv
  <2>2. walk' \in [toRead : SUBSET Programs, seen : SUBSET Seen, unreadable : SUBSET Programs]
    BY <1>1 DEF NoWalk
  <2> QED BY <1>1, <1>3, <2>1, <2>2 DEF IInv, TypeInv
<1>5. WalkInv'
  BY <1>1 DEF WalkInv, NoWalk
<1>6. SessionInv' /\ FlagInv'
  BY <1>1 DEF IInv, SessionInv, FlagInv, SupersessionTold
<1> QED BY <1>4, <1>5, <1>6 DEF IInv

\* The default that is read is the followed program's.
LEMMA ReadDefaultInv == IInv /\ ReadDefault => IInv'
<1> SUFFICES ASSUME IInv, ReadDefault PROVE IInv'
  OBVIOUS
<1>1. /\ UNCHANGED <<server, walk, following, next, engine, prev, superseded, ended>>
      /\ pc = "default" /\ pc' = "list" /\ tick' = Observed
      /\ defaultCtl' \in {defaultCtl, following.mrid}
  BY DEF ReadDefault, serverVars, subVars
<1>2. engine' \in [stage : Stages, of : Nat] /\ defaultCtl' \in Nat
  <2>1. following.mrid \in Nat
    BY NoProgramIsZero DEF IInv, TypeInv
  <2> QED BY <1>1, <2>1 DEF IInv, TypeInv, Stages
<1>3. TypeInv' /\ TickInv'
  <2>1. /\ tick' \in [at : {"idle", "read", "engine", "apply"}, planned : BOOLEAN,
                      steady : Drivers, setpoint : Drivers]
        /\ TickInv'
    BY <1>1, <1>2, TickObserves DEF IInv
  <2> QED BY <1>1, <1>2, <2>1 DEF IInv, TypeInv
<1>4. WalkInv' /\ SessionInv' /\ FlagInv'
  BY <1>1 DEF IInv, WalkInv, SessionInv, FlagInv, SupersessionTold
<1> QED BY <1>3, <1>4 DEF IInv

\* The event the engine keeps is one the snapshot has.
LEMMA ReadControlsInv == IInv /\ ReadControls => IInv'
<1> SUFFICES ASSUME IInv, ReadControls PROVE IInv'
  OBVIOUS
<1>1. /\ UNCHANGED <<server, walk, following, next, defaultCtl, superseded>>
      /\ pc = "list" /\ pc' = "select" /\ tick' = Observed
  BY DEF ReadControls, serverVars, subVars
<1>2. following # NoProgram /\ following.mrid \in Programs /\ Programs \subseteq Nat
  BY <1>1, NoProgramIsZero, EntriesAssumption DEF IInv, SessionInv, TypeInv
<1>3. PICK listed, added, gone :
        /\ listed \subseteq {following.mrid}
        /\ added \subseteq listed /\ prev \ gone \subseteq listed
        /\ prev' = listed /\ Tick(added, gone, "list")
  <2>1. CASE prev' = prev /\ Tick({}, {}, "list")
    <3>1. prev \subseteq {following.mrid}
      BY DEF IInv, SessionInv
    <3> QED BY <2>1, <3>1
  <2>2. CASE \E listed \in SUBSET {following.mrid} :
               prev' = listed /\ Tick(listed \ prev, prev \ listed, "list")
    BY <2>2
  <2>3. (IF server[following.mrid].event THEN {following.mrid} ELSE {}) \in SUBSET {following.mrid}
    OBVIOUS
  <2> QED BY <2>1, <2>2, <2>3 DEF ReadControls
<1>4. /\ engine' \in [stage : Stages, of : Nat]
      /\ engine'.of \in {0} \cup added \cup ({engine.of} \ gone)
      /\ engine'.stage = "none" => engine'.of = 0
      /\ \/ ended' = [status |-> IF superseded THEN 14 ELSE 6, cause |-> "list"]
         \/ ended' = NotEnded
  <2>1. added \in SUBSET Nat
    BY <1>2, <1>3
  <2>2. TypeInv /\ SessionInv
    BY DEF IInv
  <2> QED BY <1>3, <2>1, <2>2, TickAnswers
<1>5. ~superseded
  BY <1>1 DEF IInv, FlagInv
<1>6. TypeInv' /\ TickInv'
  <2>1. /\ tick' \in [at : {"idle", "read", "engine", "apply"}, planned : BOOLEAN,
                      steady : Drivers, setpoint : Drivers]
        /\ TickInv'
    BY <1>1, <1>4, TickObserves DEF IInv, TypeInv
  <2>2. prev' \subseteq Programs /\ ended' \in [status : {0, 6, 14}, cause : {"none", "list", "gone", "replaced"}]
    BY <1>2, <1>3, <1>4, <1>5 DEF NotEnded
  <2> QED BY <1>1, <1>4, <2>1, <2>2 DEF IInv, TypeInv, Stages
<1>7. WalkInv'
  BY <1>1 DEF IInv, WalkInv
<1>8. SessionInv'
  <2>1. engine'.of \in {0} \cup prev'
    BY <1>3, <1>4 DEF IInv, SessionInv
  <2> QED BY <1>1, <1>2, <1>3, <1>4, <2>1 DEF IInv, SessionInv
<1>9. FlagInv'
  BY <1>1, <1>4, <1>5 DEF IInv, FlagInv, SupersessionTold, NotEnded
<1> QED BY <1>6, <1>7, <1>8, <1>9 DEF IInv

\* Whatever a program left is cancelled as it is dropped, for the reason the
\* flag says.
LEMMA DropProgramInv == IInv /\ DropProgram => IInv'
<1> SUFFICES ASSUME IInv, DropProgram PROVE IInv'
  OBVIOUS
<1>1. /\ UNCHANGED <<server, walk, defaultCtl>>
      /\ pc = "drop" /\ tick' = Observed
      /\ superseded' = FALSE /\ following' = next /\ next' = NoProgram /\ prev' = {}
      /\ pc' = IF next = NoProgram THEN "fsa" ELSE "default"
  BY DEF DropProgram, serverVars, subVars
<1>2. PICK cause \in {"gone", "replaced"} :
        Tick({}, prev, cause) /\ (superseded <=> cause = "replaced")
  <2>1. next = NoProgram <=> next.mrid = 0
    BY NoProgramIsZero DEF IInv, TypeInv
  <2>2. superseded <=> ~(next.mrid \in {0, following.mrid})
    BY <1>1, <2>1 DEF IInv, FlagInv
  <2>3. CASE next.mrid \in {0, following.mrid}
    BY <2>2, <2>3 DEF DropProgram
  <2>4. CASE next.mrid \notin {0, following.mrid}
    BY <2>2, <2>4 DEF DropProgram
  <2> QED BY <2>3, <2>4
<1>4. /\ engine' \in [stage : Stages, of : Nat]
      /\ engine'.of \in {0} \cup ({engine.of} \ prev)
      /\ engine'.stage = "none" => engine'.of = 0
      /\ \/ ended' = [status |-> IF superseded THEN 14 ELSE 6, cause |-> cause]
         \/ ended' = NotEnded
  <2>1. TypeInv /\ SessionInv /\ {} \in SUBSET Nat /\ cause \in {"list", "gone", "replaced"}
    BY <1>2 DEF IInv
  <2>2. PICK added \in SUBSET Nat : added = {} /\ Tick(added, prev, cause)
    BY <1>2
  <2>3. /\ engine' \in [stage : Stages, of : Nat]
        /\ engine'.of \in {0} \cup added \cup ({engine.of} \ prev)
        /\ engine'.stage = "none" => engine'.of = 0
        /\ \/ ended' = [status |-> IF superseded THEN 14 ELSE 6, cause |-> cause]
           \/ ended' = NotEnded
    BY <2>1, <2>2, TickAnswers
  <2> QED BY ONLY <2>2, <2>3
<1>5. engine'.of = 0 /\ defaultCtl' = 0
  BY <1>1, <1>4 DEF IInv, SessionInv
<1>6. TypeInv' /\ TickInv'
  <2>1. /\ tick' \in [at : {"idle", "read", "engine", "apply"}, planned : BOOLEAN,
                      steady : Drivers, setpoint : Drivers]
        /\ TickInv'
    BY <1>1, <1>4, <1>5, TickObserves DEF IInv, TypeInv
  <2>2. ended' \in [status : {0, 6, 14}, cause : {"none", "list", "gone", "replaced"}]
    BY <1>2, <1>4 DEF NotEnded
  <2> QED BY <1>1, <1>4, <1>5, <2>1, <2>2 DEF IInv, TypeInv, Stages
<1>7. WalkInv'
  BY <1>1 DEF IInv, WalkInv
<1>8. SessionInv'
  BY <1>1, <1>4, <1>5 DEF SessionInv
<1>9. FlagInv'
  BY <1>1, <1>2, <1>4 DEF FlagInv, SupersessionTold, NotEnded
<1> QED BY <1>6, <1>7, <1>8, <1>9 DEF IInv

-----------------------------------------------------------------------------
(* Steps of the fleet tick.                                                *)

\* Between the questions a tick asks, what it knows stays true or is marked.
LEMMA TickStepInv == IInv /\ TickStep => IInv'
<1> SUFFICES ASSUME IInv, TickStep PROVE IInv'
  OBVIOUS
<1>1. UNCHANGED <<server, pc, walk, following, next, defaultCtl, engine, prev, superseded, ended>>
  BY DEF TickStep, PlanGrant, ReadEngine, LoadDefault, Apply, serverVars, sessionVars, followVars
<1>2. /\ Base \in Drivers /\ BaseOf(NoEvent, defaultCtl) \in Drivers
      /\ ~Active => BaseOf(NoEvent, defaultCtl) = Base
  <2>1. engine \in [stage : Stages, of : Nat] /\ defaultCtl \in Nat
    BY DEF IInv, TypeInv, Stages
  <2>2. NoEvent \in [stage : Stages, of : Nat] /\ NoEvent.stage = "none"
    BY DEF NoEvent, Stages
  <2>3. Base \in Drivers /\ BaseOf(NoEvent, defaultCtl) \in Drivers
    BY <2>1, <2>2, BaseTells DEF Base
  <2> QED BY <2>2, <2>3 DEF Base, BaseOf, Active
<1>3. tick \in [at : {"idle", "read", "engine", "apply"}, planned : BOOLEAN,
                steady : Drivers, setpoint : Drivers]
  BY DEF IInv, TypeInv
<1>4. Nothing \in Drivers
  BY DEF Nothing, Drivers
<1>5. /\ tick' \in [at : {"idle", "read", "engine", "apply"}, planned : BOOLEAN,
                     steady : Drivers, setpoint : Drivers]
      /\ TickInv'
  <2>1. Base' = Base /\ Active' = Active
    BY <1>1 DEF Base, Active
  <2>2. CASE PlanGrant
    <3>1. PICK planned \in BOOLEAN :
            /\ planned => ~Active
            /\ tick' = [at |-> "read", planned |-> planned, steady |-> Base, setpoint |-> Nothing]
      BY <2>2 DEF PlanGrant
    <3> QED BY <1>2, <1>4, <2>1, <3>1 DEF TickInv
  <2>3. CASE ReadEngine
    <3>1. CASE Active /\ tick' = [tick EXCEPT !.at = "apply", !.setpoint = Base]
      <4>1. tick' = [at |-> "apply", planned |-> tick.planned, steady |-> tick.steady, setpoint |-> Base]
        BY <1>3, <3>1
      <4> QED BY <1>2, <1>3, <2>1, <2>3, <3>1, <4>1 DEF TickInv, IInv, ReadEngine
    <3>2. CASE ~Active /\ tick' = [tick EXCEPT !.at = "engine"]
      BY <1>2, <1>3, <2>1, <2>3, <3>2 DEF TickInv, IInv, ReadEngine
    <3> QED BY <2>3, <3>1, <3>2 DEF ReadEngine
  <2>4. CASE LoadDefault
    <3>1. tick' = [at |-> "apply", planned |-> tick.planned, steady |-> tick.steady,
                   setpoint |-> BaseOf(NoEvent, defaultCtl)]
      BY <1>3, <2>4 DEF LoadDefault
    <3> QED BY <1>2, <1>3, <2>1, <2>4, <3>1 DEF TickInv, IInv, LoadDefault
  <2>5. CASE Apply
    BY <1>4, <2>5 DEF Apply, Idle, TickInv
  <2> QED BY <2>2, <2>3, <2>4, <2>5 DEF TickStep
<1>6. TypeInv' /\ WalkInv' /\ SessionInv' /\ FlagInv'
  BY <1>1, <1>5 DEF IInv, TypeInv, WalkInv, SessionInv, FlagInv, SupersessionTold
<1> QED BY <1>5, <1>6 DEF IInv

-----------------------------------------------------------------------------
(* The results.                                                            *)

LEMMA NextInv == IInv /\ [Next]_vars => IInv'
<1> SUFFICES ASSUME IInv, [Next]_vars PROVE IInv'
  OBVIOUS
<1>1. CASE SessionStep
  BY <1>1, WalkStepInv, DiscoverInv, RewalkedInv, ReadDefaultInv, ReadControlsInv, DropProgramInv
  DEF SessionStep
<1>2. CASE TickStep
  BY <1>2, TickStepInv
<1>3. CASE ServerChanges \/ Notify \/ NotifyEnded \/ UNCHANGED vars
  BY <1>3, ServerStepInv
<1> QED BY <1>1, <1>2, <1>3 DEF Next

\* What holds at every moment of a session and a tick: the inductive invariant.
THEOREM Invariance == Spec => []IInv
<1>1. Init => IInv
  BY InitInv
<1>2. IInv /\ [Next]_vars => IInv'
  BY NextInv
<1> QED BY <1>1, <1>2, PTL DEF Spec

\* Through every change of program, whatever the server lists and whichever
\* reads fail, the default stored and the event the engine holds are those of
\* the program followed: an old default goes with Rewalked's store of nil, an
\* old event with the empty snapshot of DropProgram.
THEOREM DrivenByFollowed == Spec => []FollowedDrives
<1>1. IInv => FollowedDrives
  BY DEF IInv, SessionInv, FollowedDrives
<1> QED BY <1>1, Invariance, PTL

\* The fleet tick asks the session three times, before the plan, in base and in
\* the load of the default: what drove the device all along is what it applies,
\* and the plan goes before it only when it is no event.
THEOREM TickObeys == Spec => []DriverObeyed
<1>1. IInv => DriverObeyed
  <2> SUFFICES ASSUME IInv, tick.at = "apply", tick.steady # Changed
               PROVE  \/ Setpoint = tick.steady
                      \/ Setpoint = Plan /\ \A p \in Programs : tick.steady # Event(p)
    BY DEF DriverObeyed
  <2>1. tick.steady = Base /\ tick.setpoint = tick.steady /\ (tick.planned => ~Active)
    BY DEF IInv, TickInv
  <2>2. CASE ~tick.planned
    BY <2>1, <2>2 DEF Setpoint
  <2>3. CASE tick.planned
    <3>1. Base \in {Default(defaultCtl), Nothing}
      BY <2>1, <2>3 DEF Base, BaseOf, Active
    <3>2. \A p \in Programs : Base # Event(p)
      BY <3>1 DEF Default, Nothing, Event
    <3> QED BY <2>1, <2>3, <3>2 DEF Setpoint
  <2> QED BY <2>2, <2>3
<1> QED BY <1>1, Invariance, PTL

\* A cancellation carries status 14 exactly when another program replaced the
\* one it was in: the flag Rewalked raises is down for every other cancellation.
THEOREM StatusTellsCause == Spec => []SupersessionTold
<1>1. IInv => SupersessionTold
  BY DEF IInv, FlagInv
<1> QED BY <1>1, Invariance, PTL

\* The one way back to a counted subscription is a new POST: an answer to the
\* POST of one that has ended since cannot restore it.
THEOREM NoticeOutlivesAnswer == Spec => EndedNoticeKept
<1>1. [Next]_vars => [sub # "held" /\ sub' = "held" => pc' = "posted"]_vars
  <2> SUFFICES ASSUME Next, sub # "held", sub' = "held"
               PROVE  pc' = "posted"
    OBVIOUS
  <2> USE DEF subVars
  <2>1. ~(ServerChanges \/ Notify \/ NotifyEnded \/ TickStep)
    BY DEF ServerChanges, Notify, NotifyEnded, TickStep, PlanGrant, ReadEngine, LoadDefault, Apply
  <2>2. ~(ReadFSAList \/ ReadProgram \/ NoSubscription \/ SubscriptionAnswered \/ Discover
          \/ WaitEnds \/ Rewalked \/ ReadDefault \/ ReadControls \/ PollTimer \/ Wake
          \/ RewalkTimer \/ DropProgram)
    BY DEF ReadFSAList, ReadProgram, NoSubscription, SubscriptionAnswered, Discover, WaitEnds,
           Rewalked, ReadDefault, ReadControls, PollTimer, Wake, RewalkTimer, DropProgram
  <2>3. PostSubscription
    BY <2>1, <2>2 DEF Next, SessionStep
  <2> QED BY <2>3 DEF PostSubscription
<1> QED BY <1>1, PTL DEF Spec, EndedNoticeKept
=============================================================================
