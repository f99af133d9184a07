---------------------------- MODULE StartUpProofs ----------------------------
(***************************************************************************)
(* Proofs about StartUp, for any set of devices, of configurations and of  *)
(* documents a server may serve.                                           *)
(***************************************************************************)
EXTENDS StartUp, TLAPS

-----------------------------------------------------------------------------
(* The inductive invariant.                                                *)

Phases ==
  {"config", "fleets", "receiver", "client", "discovery", "timeSync", "acquire", "readBack",
   "registration", "subscribe", "subscribeDERs", "fsa", "walk", "default", "session", "setup",
   "capability", "settings", "metering", "mirrors", "reservations", "loop",
   "exit", "exitFleets", "exited"}

\* The phases before the gate, and the way out, which begins in any phase.
BeforeGate ==
  {"config", "fleets", "receiver", "client", "discovery", "timeSync", "acquire", "readBack",
   "registration"}
WayOut == {"exit", "exitFleets", "exited"}

DERTasks == {"timeSync", "poll", "curves", "responses", "status", "readings", "alarms"}
AggregatorTasks == {"timeSync", "sessions", "managed", "reservations"}

TypeInv ==
  /\ cfg \in Configs /\ pc \in Phases
  /\ guard = [role |-> cfg.role, managed |-> guard.managed, inBand |-> {}]
  /\ mirrorless \subseteq cfg.managed
  /\ fleets \in {"none", "up", "down"} /\ listening \in BOOLEAN

\* A phase and a task of one role are never reached in the other, and nothing is
\* done for a managed device before the guard knows it.
RoleInv ==
  /\ pc \in {"capability", "settings"} => cfg.role = "der"
  /\ pc \in {"mirrors", "reservations"} => cfg.role = "aggregator"
  /\ running \subseteq (IF cfg.role = "der" THEN DERTasks ELSE AggregatorTasks)
  /\ pc = "mirrors" \/ "sessions" \in running \/ "managed" \in running =>
       guard.managed = cfg.managed /\ Self \notin cfg.managed

\* Before the gate only the clock is kept in time; past it the process is
\* registered, and stays so: the documents are read no more.
GateInv ==
  /\ pc \in BeforeGate => running \subseteq {"timeSync"}
  /\ pc \notin BeforeGate \cup WayOut => Registered
  /\ running \subseteq {"timeSync"} \/ Registered
  /\ RequestsInOrder

\* What is up in each phase of the way in and of the way out.
ServiceInv ==
  /\ pc \in {"config", "fleets"} => fleets = "none"
  /\ pc \in {"config", "fleets", "receiver", "exitFleets"} => ~listening
  /\ LeavesNothingBehind

IInv == TypeInv /\ RoleInv /\ GateInv /\ ServiceInv

-----------------------------------------------------------------------------
(* What the guard lets through.                                            *)

\* Either role may read, subscribe and log for itself.
LEMMA AllowedToBoth ==
  ASSUME IInv
  PROVE  /\ Allow(guard, Get(Self))
         /\ Allow(guard, Request("GET", "RegistrationRead", Self))
         /\ Allow(guard, Post("SubscriptionPost", Self))
BY ConfigsAssumption
DEF IInv, TypeInv, Allow, Get, Post, Request, KindMethod, SelfAllowed, DERSelfKinds,
    AggregatorSelfKinds, Roles

\* What a DER does for itself.
LEMMA AllowedToDER ==
  ASSUME IInv, cfg.role = "der"
  PROVE  /\ Allow(guard, Post("EndDeviceCreate", Self))
         /\ Allow(guard, Put("DERResourceWrite", Self))
         /\ Allow(guard, Post("MirrorPost", Self))
         /\ Allow(guard, Post("ResponsePost", Self))
         /\ Allow(guard, Post("LogEventPost", Self))
BY DEF IInv, TypeInv, Allow, Post, Put, Request, KindMethod, SelfAllowed, DERSelfKinds

\* What an aggregator does for itself.
LEMMA AllowedToAggregator ==
  ASSUME IInv, cfg.role = "aggregator"
  PROVE  /\ Allow(guard, Post("FlowReservationPost", Self))
         /\ Allow(guard, Post("FlowReservationResponsePost", Self))
         /\ Allow(guard, Put("FlowReservationWithdraw", Self))
BY DEF IInv, TypeInv, Allow, Post, Put, Request, KindMethod, SelfAllowed, AggregatorSelfKinds

\* What it does for a device the guard knows.
LEMMA AllowedToManager ==
  ASSUME IInv, cfg.role = "aggregator", NEW device \in guard.managed, device # Self
  PROVE  /\ Allow(guard, Get(device))
         /\ Allow(guard, Put("DERResourceWrite", device))
         /\ Allow(guard, Post("MirrorPost", device))
         /\ Allow(guard, Post("ResponsePost", device))
         /\ Allow(guard, Post("SubscriptionPost", device))
BY DEF IInv, TypeInv, Allow, Get, Post, Put, Request, KindMethod, ManagerAllowed, ManagerKinds

\* A request the guard lets through is in order if it writes nothing but the
\* own EndDevice, or comes past the gate.
LEMMA SentInOrder ==
  ASSUME NEW request, NEW outcome, Send(request, outcome), Allow(guard, request),
         request.method \in {"POST", "PUT"} /\ request.kind # "EndDeviceCreate" => Registered'
  PROVE  RequestsInOrder'
BY DEF Send, RequestsInOrder, InRole, GateFirst

-----------------------------------------------------------------------------
(* The way in, the way out and the phases before the gate.                 *)

Reached == <<cfg, edev, registration, guard, mirrorless>>

\* What was promised so far stays true while nothing is sent and no document
\* is read.
LEMMA QuietStep ==
  ASSUME IInv, UNCHANGED Reached, NoRequest
  PROVE  RequestsInOrder' /\ (Registered' <=> Registered)
BY DEF IInv, GateInv, Reached, NoRequest, RequestsInOrder, InRole, GateFirst, Registered, Strict

\* A step into the next phases before the receiver is up, or out of the process.
LEMMA EntryInv ==
  ASSUME IInv, UNCHANGED cfg,
         ConfigEnds \/ ConfigAccepted \/ StartFleets \/ StartReceiver \/ CreateClient
  PROVE  IInv'
<1> USE DEF Goto, Leave, phaseVars, docVars, serviceVars
<1>1. /\ UNCHANGED <<cfg, edev, registration, guard, mirrorless, running>> /\ NoRequest
      /\ pc \in BeforeGate /\ pc' \in Phases
      /\ pc' \in BeforeGate \cup WayOut
      /\ pc' \notin {"capability", "settings", "mirrors", "reservations", "exitFleets"}
  BY DEF ConfigEnds, ConfigAccepted, StartFleets, StartReceiver, CreateClient, BeforeGate, WayOut,
         Phases
<1>2. RequestsInOrder' /\ (Registered' <=> Registered)
  BY <1>1, QuietStep DEF Reached
<1>3. ServiceInv' /\ fleets' \in {"none", "up", "down"} /\ listening' \in BOOLEAN
  <2> USE DEF ServiceInv, LeavesNothingBehind
  <2>0. /\ fleets \in {"none", "up", "down"} /\ listening \in BOOLEAN /\ cfg.notify \in BOOLEAN
        /\ pc \in {"config", "fleets"} => fleets = "none"
        /\ pc \in {"config", "fleets", "receiver", "exitFleets"} => ~listening
    BY ConfigsAssumption DEF IInv, TypeInv, ServiceInv
  <2>1. CASE ConfigEnds
    BY <2>0, <2>1 DEF ConfigEnds
  <2>2. CASE ConfigAccepted
    BY <2>0, <2>2 DEF ConfigAccepted
  <2>3. CASE StartFleets
    BY <2>0, <2>3 DEF StartFleets
  <2>4. CASE StartReceiver
    BY <2>0, <2>4 DEF StartReceiver
  <2>5. CASE CreateClient
    BY <2>0, <2>5 DEF CreateClient
  <2> QED BY <2>1, <2>2, <2>3, <2>4, <2>5
<1>4. TypeInv'
  BY <1>1, <1>3 DEF IInv, TypeInv
<1>5. RoleInv'
  BY <1>1 DEF IInv, RoleInv
<1>6. GateInv'
  BY <1>1, <1>2 DEF IInv, GateInv
<1> QED BY <1>3, <1>4, <1>5, <1>6 DEF IInv

\* A step out of the process, from wherever it is.
LEMMA ExitInv ==
  ASSUME IInv, UNCHANGED cfg, Interrupted \/ StopReceiver \/ StopFleets
  PROVE  IInv'
<1> USE DEF Goto, Leave, phaseVars, docVars, serviceVars
<1>1. /\ UNCHANGED <<cfg, edev, registration, guard, mirrorless>> /\ NoRequest
      /\ running' \subseteq running
      /\ pc' \in WayOut
  BY DEF Interrupted, StopReceiver, StopFleets, WayOut
<1>2. RequestsInOrder' /\ (Registered' <=> Registered)
  BY <1>1, QuietStep DEF Reached
<1>3. ServiceInv' /\ fleets' \in {"none", "up", "down"} /\ listening' \in BOOLEAN
  <2> USE DEF ServiceInv, LeavesNothingBehind
  <2>0. /\ fleets \in {"none", "up", "down"} /\ listening \in BOOLEAN
        /\ pc \in {"config", "fleets"} => fleets = "none"
        /\ pc \in {"config", "fleets", "receiver", "exitFleets"} => ~listening
    BY DEF IInv, TypeInv, ServiceInv
  <2>1. CASE Interrupted
    BY <2>0, <2>1 DEF Interrupted
  <2>2. CASE StopReceiver
    BY <2>0, <2>2 DEF StopReceiver
  <2>3. CASE StopFleets
    BY <2>0, <2>3 DEF StopFleets
  <2> QED BY <2>1, <2>2, <2>3
<1>4. TypeInv'
  BY <1>1, <1>3 DEF IInv, TypeInv, WayOut, Phases
<1>5. RoleInv'
  BY <1>1 DEF IInv, RoleInv, WayOut
<1>6. GateInv'
  BY <1>1, <1>2 DEF IInv, GateInv, WayOut, BeforeGate
<1> QED BY <1>3, <1>4, <1>5, <1>6 DEF IInv

\* What a step before the gate does, whichever it is.
AtGate ==
  /\ UNCHANGED <<cfg, guard, mirrorless, fleets, listening>>
  /\ pc \in BeforeGate /\ running' \subseteq running \cup {"timeSync"}
  /\ pc' \in {"discovery", "timeSync", "acquire", "readBack", "registration", "subscribe", "exit"}
  /\ pc' = "subscribe" => Registered'
  /\ RequestsInOrder'

LEMMA AtGateInv == IInv /\ AtGate => IInv'
<1> SUFFICES ASSUME IInv, AtGate PROVE IInv'
  OBVIOUS
<1> USE DEF AtGate
<1>1. running' \subseteq {"timeSync"}
  BY DEF IInv, GateInv
<1>2. TypeInv'
  BY DEF IInv, TypeInv, Phases
<1>3. RoleInv'
  BY <1>1 DEF RoleInv, DERTasks, AggregatorTasks
<1>4. GateInv'
  BY <1>1 DEF GateInv, BeforeGate, WayOut
<1>5. ServiceInv'
  BY DEF ServiceInv, LeavesNothingBehind
<1> QED BY <1>2, <1>3, <1>4, <1>5 DEF IInv

\* Discovery, the clock and the EndDevice.
LEMMA IdentityIsAtGate ==
  ASSUME IInv, UNCHANGED cfg, UNCHANGED serviceVars, NEW outcome \in {"ok", "failed", "expired"},
         Discover(outcome) \/ SyncTime(outcome) \/ LookUp(outcome) \/ Register(outcome)
  PROVE  AtGate
<1> USE DEF Goto, Leave, phaseVars, docVars, serviceVars
<1>1. /\ UNCHANGED <<cfg, guard, mirrorless, fleets, listening>>
      /\ pc \in BeforeGate /\ running' \subseteq running \cup {"timeSync"}
      /\ pc' \in {"discovery", "timeSync", "acquire", "readBack", "registration", "exit"}
  BY DEF Discover, SyncTime, LookUp, Register, Found, Start, BeforeGate
<1>2. RequestsInOrder'
  <2>1. CASE Send(Get(Self), outcome)
    BY <2>1, AllowedToBoth, SentInOrder DEF Get, Request
  <2>2. CASE Register(outcome)
    <3>1. cfg.role = "der"
      BY <2>2, ConfigsAssumption DEF Register, UsesLookup, IInv, TypeInv, Roles
    <3>2. Send(Post("EndDeviceCreate", Self), outcome)
      BY <2>2 DEF Register
    <3> QED BY <3>1, <3>2, AllowedToDER, SentInOrder DEF Post, Request
  <2> QED BY <2>1, <2>2 DEF Discover, SyncTime, LookUp
<1> QED BY <1>1, <1>2 DEF AtGate

\* The Registration resource: past it the process is registered.
LEMMA RegistrationIsAtGate ==
  ASSUME IInv, UNCHANGED cfg, UNCHANGED serviceVars, NEW outcome \in {"ok", "failed", "expired"},
         ReadBack(outcome) \/ AwaitRegistration(outcome) \/ CheckPIN(outcome)
  PROVE  AtGate
<1> USE DEF Goto, Leave, phaseVars, docVars, serviceVars
<1>1. /\ UNCHANGED <<cfg, guard, mirrorless, fleets, listening, running>>
      /\ pc \in BeforeGate
      /\ pc' \in {"registration", "subscribe", "exit"}
  BY ConfigsAssumption
  DEF ReadBack, AwaitRegistration, CheckPIN, Found, BeforeGate, IInv, TypeInv
<1>2. pc' = "subscribe" => Registered'
  <2>1. pc' = "subscribe" => CheckPIN(outcome)
    BY DEF ReadBack, AwaitRegistration, Found
  <2>2. ASSUME CheckPIN(outcome), pc' = "subscribe"
        PROVE  /\ "registration" \in edev'
               /\ ~cfg.pin \/ registration' = "match"
               /\ registration' # "unread"
    BY <2>2 DEF CheckPIN
  <2> QED BY <2>1, <2>2 DEF Registered
<1>3. RequestsInOrder'
  <2>1. CASE Send(Get(Self), outcome)
    BY <2>1, AllowedToBoth, SentInOrder DEF Get, Request
  <2>2. CASE Send(Request("GET", "RegistrationRead", Self), outcome)
    BY <2>2, AllowedToBoth, SentInOrder DEF Request
  <2> QED BY <2>1, <2>2 DEF ReadBack, AwaitRegistration, CheckPIN
<1> QED BY <1>1, <1>2, <1>3 DEF AtGate

\* Without a Registration to read the gate is open only outside strict mode.
LEMMA SkippedIsAtGate ==
  ASSUME IInv, UNCHANGED cfg, UNCHANGED serviceVars, NoTime \/ NoEndDeviceList \/ SkipRegistration
  PROVE  AtGate
<1> USE DEF Goto, Leave, phaseVars, docVars, serviceVars
<1>1. /\ UNCHANGED Reached /\ NoRequest /\ UNCHANGED running
      /\ pc \in BeforeGate
      /\ pc' \in {"acquire", "exit", "subscribe"}
  BY DEF NoTime, NoEndDeviceList, SkipRegistration, Reached, BeforeGate
<1>2. pc' = "subscribe" => Registered
  BY DEF NoTime, NoEndDeviceList, SkipRegistration, Registered
<1>3. RequestsInOrder' /\ (Registered' <=> Registered)
  BY <1>1, QuietStep
<1> QED BY <1>1, <1>2, <1>3 DEF AtGate, Reached

-----------------------------------------------------------------------------
(* The phases past the gate.                                               *)

\* What a step past the gate does, whichever it is.
PastGate ==
  /\ UNCHANGED <<cfg, edev, registration, fleets, listening>>
  /\ pc \notin BeforeGate \cup WayOut
  /\ pc' \in Phases \ (BeforeGate \cup {"exitFleets", "exited"})
  /\ guard' = [role |-> cfg.role, managed |-> guard'.managed, inBand |-> {}]
  /\ mirrorless' \subseteq cfg.managed
  /\ RoleInv'
  /\ RequestsInOrder'

LEMMA PastGateInv == IInv /\ PastGate => IInv'
<1> SUFFICES ASSUME IInv, PastGate PROVE IInv'
  OBVIOUS
<1> USE DEF PastGate
<1>1. Registered'
  BY DEF IInv, GateInv, Registered, Strict
<1>2. TypeInv'
  BY DEF IInv, TypeInv
<1>3. GateInv'
  BY <1>1 DEF GateInv
<1>4. ServiceInv'
  BY DEF ServiceInv, LeavesNothingBehind, BeforeGate
<1> QED BY <1>1, <1>2, <1>3, <1>4 DEF IInv

\* A step that starts nothing.
LEMMA NothingStarted ==
  ASSUME IInv, UNCHANGED <<cfg, edev, registration, guard, mirrorless, running>>,
         UNCHANGED serviceVars,
         pc \notin BeforeGate \cup WayOut,
         pc' \in Phases \ (BeforeGate \cup {"exitFleets", "exited"}),
         pc' \in {"capability", "settings"} => cfg.role = "der",
         pc' = "reservations" => cfg.role = "aggregator",
         pc' = "mirrors" => pc = "mirrors",
         RequestsInOrder'
  PROVE  PastGate
BY DEF PastGate, IInv, TypeInv, RoleInv, serviceVars

\* The subscriptions and the assigned programs.
LEMMA AssignmentIsPastGate ==
  ASSUME IInv, UNCHANGED cfg, UNCHANGED serviceVars, NEW outcome \in {"ok", "failed", "expired"},
         \/ Subscribe(outcome) \/ NotSubscribing \/ NoFSAs \/ ReadFSAs(outcome)
         \/ WalkPrograms(outcome) \/ SelectProgram \/ NoProgram \/ ReadDefault(outcome)
  PROVE  PastGate
<1> USE DEF Goto, Leave, phaseVars, docVars
<1>1. /\ UNCHANGED <<cfg, edev, registration, guard, mirrorless, running>>
      /\ pc \notin BeforeGate \cup WayOut
      /\ pc' \in {"subscribeDERs", "fsa", "session", "walk", "default", "exit"}
  BY DEF Subscribe, NotSubscribing, NoFSAs, ReadFSAs, WalkPrograms, SelectProgram, NoProgram,
         ReadDefault, BeforeGate, WayOut
<1>2. Registered'
  BY <1>1 DEF IInv, GateInv, Registered, Strict
<1>3. RequestsInOrder'
  <2>1. CASE NoRequest
    BY <1>1, <2>1, QuietStep DEF Reached
  <2>2. CASE Send(Get(Self), outcome)
    BY <1>2, <2>2, AllowedToBoth, SentInOrder
  <2>3. CASE Send(Post("SubscriptionPost", Self), outcome)
    BY <1>2, <2>3, AllowedToBoth, SentInOrder
  <2> QED BY <2>1, <2>2, <2>3
          DEF Subscribe, NotSubscribing, NoFSAs, ReadFSAs, WalkPrograms, SelectProgram, NoProgram,
              ReadDefault
<1>4. pc' \in Phases \ (BeforeGate \cup {"exitFleets", "exited"})
  BY <1>1 DEF Phases, BeforeGate
<1> QED BY <1>1, <1>3, <1>4, NothingStarted

\* The sessions and Phases 3 and 4 of a DER, which an aggregator passes by.
LEMMA SetupIsPastGate ==
  ASSUME IInv, UNCHANGED cfg, UNCHANGED serviceVars, NEW outcome \in {"ok", "failed", "expired"},
         \/ StartSession \/ NoSetup \/ ReadDERs(outcome) \/ PutSetup(outcome)
         \/ CreateMirror(outcome)
  PROVE  PastGate
<1> USE DEF Goto, Leave, Start, phaseVars, docVars, serviceVars
<1>1. /\ UNCHANGED <<cfg, edev, registration, guard, mirrorless, fleets, listening>>
      /\ pc \in {"session", "setup", "capability", "settings", "metering"}
      /\ pc' \in {"setup", "metering", "capability", "settings", "loop", "exit"}
  BY DEF StartSession, NoSetup, ReadDERs, PutSetup, CreateMirror
<1>2. Registered'
  BY <1>1 DEF IInv, GateInv, Registered, Strict, BeforeGate, WayOut
<1>3. RequestsInOrder'
  <2>1. CASE NoRequest
    BY <1>1, <2>1, QuietStep DEF Reached
  <2>2. CASE Send(Get(Self), outcome)
    BY <1>2, <2>2, AllowedToBoth, SentInOrder
  <2>3. CASE PutSetup(outcome) /\ Send(Put("DERResourceWrite", Self), outcome)
    <3>1. cfg.role = "der"
      BY <2>3 DEF PutSetup, IInv, RoleInv
    <3> QED BY <1>2, <2>3, <3>1, AllowedToDER, SentInOrder
  <2>4. CASE CreateMirror(outcome) /\ Send(Post("MirrorPost", Self), outcome)
    <3>1. cfg.role = "der"
      BY <2>4 DEF CreateMirror
    <3> QED BY <1>2, <2>4, <3>1, AllowedToDER, SentInOrder
  <2> QED BY <2>1, <2>2, <2>3, <2>4 DEF StartSession, NoSetup, ReadDERs, PutSetup, CreateMirror
<1>4. \/ running' = running
      \/ cfg.role = "der" /\ running' \subseteq running \cup DERTasks
  BY DEF StartSession, NoSetup, ReadDERs, PutSetup, CreateMirror, Alarms, DERTasks, IInv, RoleInv
<1>5. pc' \in {"capability", "settings"} => cfg.role = "der"
  BY DEF StartSession, NoSetup, ReadDERs, PutSetup, CreateMirror, IInv, RoleInv
<1>6. RoleInv'
  BY <1>1, <1>4, <1>5 DEF IInv, RoleInv, DERTasks
<1>7. /\ pc \notin BeforeGate \cup WayOut
      /\ pc' \in Phases \ (BeforeGate \cup {"exitFleets", "exited"})
  BY <1>1 DEF Phases, BeforeGate, WayOut
<1> QED BY <1>1, <1>3, <1>6, <1>7 DEF PastGate, IInv, TypeInv

\* The aggregator's devices.
LEMMA ManagedIsPastGate ==
  ASSUME IInv, UNCHANGED cfg, UNCHANGED serviceVars, NEW outcome \in {"ok", "failed", "expired"},
         \/ NoManaged \/ ManagesItself \/ ResolveManaged(outcome)
         \/ CreateManagedMirror(outcome) \/ BadRecording \/ StartControls \/ StartReservations
  PROVE  PastGate
<1> USE DEF Goto, Leave, Start, phaseVars, docVars, serviceVars
<1>1. /\ UNCHANGED <<cfg, edev, registration, fleets, listening>>
      /\ pc \in {"metering", "mirrors", "reservations"}
      /\ pc' \in {"reservations", "exit", "mirrors", "loop"}
  BY DEF NoManaged, ManagesItself, ResolveManaged, CreateManagedMirror, BadRecording,
         StartControls, StartReservations
<1>2. Registered'
  BY <1>1 DEF IInv, GateInv, Registered, Strict, BeforeGate, WayOut
<1>3. RequestsInOrder'
  <2>1. CASE NoRequest
    BY <1>1, <2>1 DEF IInv, GateInv, NoRequest, RequestsInOrder, InRole, GateFirst, Registered, Strict
  <2>2. CASE Send(Get(Self), outcome)
    BY <1>2, <2>2, AllowedToBoth, SentInOrder
  <2>3. ASSUME pc = "mirrors", NEW device \in mirrorless, Send(Post("MirrorPost", device), outcome)
        PROVE  RequestsInOrder'
    <3>1. device \in guard.managed /\ device # Self /\ cfg.role = "aggregator"
      BY <2>3 DEF IInv, TypeInv, RoleInv
    <3> QED BY <1>2, <2>3, <3>1, AllowedToManager, SentInOrder
  <2> QED BY <2>1, <2>2, <2>3
          DEF NoManaged, ManagesItself, ResolveManaged, CreateManagedMirror, BadRecording,
              StartControls, StartReservations
<1>4. /\ cfg.role = "aggregator"
      /\ guard' = [role |-> cfg.role, managed |-> guard'.managed, inBand |-> {}]
      /\ mirrorless' \subseteq cfg.managed
      /\ pc' = "mirrors" => guard'.managed = cfg.managed /\ Self \notin cfg.managed
      /\ guard' = guard \/ (guard'.managed = cfg.managed /\ Self \notin cfg.managed)
  <2>1. cfg.role = "aggregator"
    BY DEF NoManaged, ManagesItself, ResolveManaged, CreateManagedMirror, BadRecording,
           StartControls, StartReservations, IInv, RoleInv
  <2>2. CASE guard' = [guard EXCEPT !.managed = cfg.managed] /\ ResolveManaged(outcome)
    <3>1. guard' = [role |-> cfg.role, managed |-> cfg.managed, inBand |-> {}]
      BY <2>2 DEF IInv, TypeInv
    <3> QED BY <2>1, <2>2, <3>1 DEF ResolveManaged, IInv, TypeInv
  <2>3. CASE UNCHANGED guard
    BY <2>1, <2>3
    DEF NoManaged, ManagesItself, ResolveManaged, CreateManagedMirror, BadRecording,
        StartControls, StartReservations, IInv, TypeInv, RoleInv
  <2> QED BY <2>2, <2>3
          DEF NoManaged, ManagesItself, ResolveManaged, CreateManagedMirror, BadRecording,
              StartControls, StartReservations
<1>5. /\ running' \subseteq running \cup AggregatorTasks
      /\ "sessions" \in running' \/ "managed" \in running' =>
           guard'.managed = cfg.managed /\ Self \notin cfg.managed
  <2>1. CASE StartControls
    BY <2>1 DEF StartControls, AggregatorTasks, IInv, RoleInv
  <2>2. CASE StartReservations
    BY <2>2 DEF StartReservations, AggregatorTasks, IInv, RoleInv
  <2>3. CASE UNCHANGED running
    BY <1>4, <2>3 DEF IInv, RoleInv
  <2> QED BY <2>1, <2>2, <2>3
          DEF NoManaged, ManagesItself, ResolveManaged, CreateManagedMirror, BadRecording
<1>6. RoleInv'
  BY <1>1, <1>4, <1>5 DEF IInv, RoleInv
<1>7. /\ pc \notin BeforeGate \cup WayOut
      /\ pc' \in Phases \ (BeforeGate \cup {"exitFleets", "exited"})
  BY <1>1 DEF Phases, BeforeGate, WayOut
<1> QED BY <1>1, <1>3, <1>4, <1>6, <1>7 DEF PastGate

-----------------------------------------------------------------------------
(* What runs on its own.                                                   *)

\* No goroutine and no duty of the loop asks for what its role may not do, or
\* for a device the guard does not know.
LEMMA TasksAllowed ==
  ASSUME IInv, NEW task \in running, NEW request \in RequestsOf(task)
  PROVE  Allow(guard, request)
<1>1. CASE cfg.role = "der"
  <2>1. task \in DERTasks
    BY <1>1 DEF IInv, RoleInv
  <2>2. request \in {Get(Self), Post("ResponsePost", Self), Put("DERResourceWrite", Self),
                     Post("MirrorPost", Self), Post("LogEventPost", Self)}
    BY <2>1 DEF DERTasks, RequestsOf, TimeSyncRequests, PollRequests, CurveRequests,
                ResponseRequests, StatusRequests, ReadingRequests, AlarmRequests
  <2> QED BY <1>1, <2>2, AllowedToBoth, AllowedToDER
<1>2. CASE cfg.role = "aggregator"
  <2>1. task \in AggregatorTasks
    BY <1>2 DEF IInv, RoleInv
  <2>2. CASE task \in {"timeSync", "reservations"}
    <3>1. request \in {Get(Self), Post("FlowReservationPost", Self),
                       Post("FlowReservationResponsePost", Self),
                       Put("FlowReservationWithdraw", Self)}
      BY <2>2 DEF RequestsOf, TimeSyncRequests, ReservationRequests
    <3> QED BY <1>2, <3>1, AllowedToBoth, AllowedToAggregator
  <2>3. CASE task \in {"sessions", "managed"}
    <3>1. guard.managed = cfg.managed /\ Self \notin cfg.managed
      BY <2>3 DEF IInv, RoleInv
    <3>2. PICK device \in cfg.managed : request \in SessionRequests(device) \cup ManagedRequests(device)
      BY <2>3 DEF RequestsOf
    <3>3. request \in {Get(device), Post("ResponsePost", device), Post("SubscriptionPost", device),
                       Put("DERResourceWrite", device), Post("MirrorPost", device)}
      BY <3>2 DEF SessionRequests, ManagedRequests, ResponseRequests, SubscriptionRequests,
                  StatusRequests, ReadingRequests
    <3> QED BY <1>2, <3>1, <3>3, AllowedToManager
  <2> QED BY <2>1, <2>2, <2>3 DEF AggregatorTasks
<1>3. cfg.role \in {"der", "aggregator"}
  BY ConfigsAssumption DEF IInv, TypeInv, Roles
<1> QED BY <1>1, <1>2, <1>3

LEMMA WorkInv == IInv /\ Work /\ UNCHANGED cfg => IInv'
<1> SUFFICES ASSUME IInv, Work, UNCHANGED cfg PROVE IInv'
  OBVIOUS
<1>1. /\ UNCHANGED <<cfg, pc, edev, registration, guard, mirrorless, running, fleets, listening>>
      /\ Registered' <=> Registered
  BY DEF Work, phaseVars, docVars, serviceVars, Registered, Strict
<1>2. PICK task \in running : \E request \in RequestsOf(task), outcome \in {"ok", "failed", "expired"} :
        Send(request, outcome)
  BY DEF Work
<1>3. PICK request \in RequestsOf(task), outcome \in {"ok", "failed", "expired"} :
        Send(request, outcome)
  BY <1>2
<1>4. request.method \in {"POST", "PUT"} => Registered
  <2>1. CASE task = "timeSync"
    BY <1>3, <2>1 DEF RequestsOf, TimeSyncRequests, Get, Request
  <2>2. CASE task # "timeSync"
    BY <2>2 DEF IInv, GateInv
  <2> QED BY <2>1, <2>2
<1>5. RequestsInOrder'
  BY <1>1, <1>3, <1>4, TasksAllowed, SentInOrder
<1>6. TypeInv' /\ RoleInv' /\ ServiceInv'
  BY <1>1 DEF IInv, TypeInv, RoleInv, ServiceInv, LeavesNothingBehind
<1>7. GateInv'
  BY <1>1, <1>5 DEF IInv, GateInv
<1> QED BY <1>6, <1>7 DEF IInv

-----------------------------------------------------------------------------
(* The results.                                                            *)

LEMMA InitInv == Init => IInv
<1> SUFFICES ASSUME Init PROVE IInv
  OBVIOUS
<1>1. TypeInv
  BY DEF Init, TypeInv, NewGuard, Phases
<1>2. RoleInv
  BY DEF Init, RoleInv
<1>3. GateInv
  BY DEF Init, GateInv, BeforeGate, RequestsInOrder, InRole, GateFirst, NothingSent
<1>4. ServiceInv
  BY DEF Init, ServiceInv, LeavesNothingBehind
<1> QED BY <1>1, <1>2, <1>3, <1>4 DEF IInv

LEMMA NextInv == IInv /\ [Next]_vars => IInv'
<1> SUFFICES ASSUME IInv, [Next]_vars PROVE IInv'
  OBVIOUS
<1>1. CASE UNCHANGED vars
  <2>1. UNCHANGED <<pc, running, fleets, listening>> /\ UNCHANGED Reached /\ NoRequest
    BY <1>1 DEF vars, phaseVars, docVars, serviceVars, Reached, NoRequest
  <2>2. RequestsInOrder' /\ (Registered' <=> Registered)
    BY <2>1, QuietStep
  <2> QED BY <2>1, <2>2
          DEF Reached, IInv, TypeInv, RoleInv, GateInv, ServiceInv, LeavesNothingBehind
<1>2. ASSUME Next, UNCHANGED serviceVars, NEW outcome \in {"ok", "failed", "expired"},
             Requesting(outcome)
      PROVE  IInv'
  <2>1. UNCHANGED cfg
    BY <1>2 DEF Next
  <2>2. AtGate \/ PastGate
    BY <1>2, <2>1, IdentityIsAtGate, RegistrationIsAtGate, AssignmentIsPastGate, SetupIsPastGate,
       ManagedIsPastGate DEF Requesting
  <2> QED BY <2>2, AtGateInv, PastGateInv
<1>3. ASSUME Next, UNCHANGED serviceVars, Deciding
      PROVE  IInv'
  <2>1. UNCHANGED cfg /\ "ok" \in {"ok", "failed", "expired"}
    BY <1>3 DEF Next
  <2>2. AtGate \/ PastGate
    BY <1>3, <2>1, SkippedIsAtGate, AssignmentIsPastGate, SetupIsPastGate, ManagedIsPastGate
    DEF Deciding
  <2> QED BY <2>2, AtGateInv, PastGateInv
<1>4. CASE Next /\ Work
  BY <1>4, WorkInv DEF Next
<1>5. CASE Next /\ (Interrupted \/ StopReceiver \/ StopFleets)
  BY <1>5, ExitInv DEF Next
<1>6. CASE Next /\ (ConfigEnds \/ ConfigAccepted \/ StartFleets \/ StartReceiver \/ CreateClient)
  BY <1>6, EntryInv DEF Next
<1> QED BY <1>1, <1>2, <1>3, <1>4, <1>5, <1>6 DEF Next

\* What holds in every phase of the process: the inductive invariant.
THEOREM Invariance == Spec => []IInv
<1>1. Init => IInv
  BY InitInv
<1>2. IInv /\ [Next]_vars => IInv'
  BY NextInv
<1> QED BY <1>1, <1>2, PTL DEF Spec

\* Whatever the server advertises and however each request ends, no phase,
\* goroutine or duty of the loop makes a request the guard refuses, and nothing
\* but the process's own EndDevice is written before Phase 2b has passed.
THEOREM RequestsKeepOrder == Spec => []RequestsInOrder
<1>1. IInv => RequestsInOrder
  BY DEF IInv, GateInv
<1> QED BY <1>1, Invariance, PTL

\* No exit, in whatever phase a signal or an error comes, leaves a sidecar or
\* the notification receiver behind.
THEOREM ExitIsClean == Spec => []LeavesNothingBehind
<1>1. IInv => LeavesNothingBehind
  BY DEF IInv, ServiceInv
<1> QED BY <1>1, Invariance, PTL
=============================================================================
