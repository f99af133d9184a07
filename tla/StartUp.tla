------------------------------ MODULE StartUp ------------------------------
(***************************************************************************)
(* The life of one inverterclient process: the phases of                   *)
(* cmd/inverterclient/main.go, in their order and with every early return, *)
(* what they leave running, the guard each request passes, and the         *)
(* shutdown every exit goes through.                                       *)
(*                                                                         *)
(* A document is the set of links it advertises.  A GET of one may find    *)
(* any document the server may serve.  A request ends "ok", "failed", or   *)
(* "expired" when its context or the HTTP client's timeout ended it; the   *)
(* code tells the last from the others.  What the guard refuses is not     *)
(* sent and fails.                                                         *)
(***************************************************************************)
EXTENDS RoleGuard

CONSTANTS Devices,        \* the LFDIs of the devices an aggregator may manage
          Configs,        \* configurations of the process
          Capabilities,   \* the DeviceCapability, EndDevice and DERProgram
          EndDevices,     \* documents the server may serve
          Programs

\* The managed devices are listed in the sim file.
ASSUME ConfigsAssumption ==
  \A c \in Configs :
    /\ c.role \in Roles /\ c.managed \subseteq Devices \cup {Self}
    /\ {c.csip, c.allowUnregistered, c.pin, c.notify, c.simFile, c.fleets} \subseteq BOOLEAN
    /\ c.managed # {} => c.simFile

ASSUME DocumentsAssumption ==
  /\ Self \notin Devices
  /\ Capabilities \subseteq SUBSET {"edevList", "time", "mirrors", "other"}
  /\ EndDevices \subseteq SUBSET {"registration", "subscriptions", "fsa", "ders", "logEvents",
                                  "reservations"}
  /\ Programs \subseteq SUBSET {"default", "controls", "curves"}

VARIABLES
  cfg,           \* this process's configuration
  pc,            \* the phase main is in
  dcap, edev,    \* the documents read
  program,       \* the links of the program selected
  registration,  \* the last answer of the Registration resource
  guard,
  mirrorless,    \* managed devices whose mirror has not been posted yet
  running,       \* what has been started: goroutines and the duties of the loop
  fleets,        \* the sidecars, all together: "none", "up" or "down"
  listening,     \* is the notification receiver up?
  sent           \* the last request: and did the guard allow it?

docVars == <<dcap, edev, program, registration>>
phaseVars == <<docVars, guard, mirrorless, running>>
serviceVars == <<fleets, listening>>
vars == <<cfg, pc, phaseVars, serviceVars, sent>>

NothingSent == [kind |-> "none", method |-> "none", target |-> Self, allowed |-> TRUE]

Init ==
  /\ cfg \in Configs
  /\ pc = "config"
  /\ dcap = {} /\ edev = {} /\ program = {} /\ registration = "unread"
  /\ guard = NewGuard(cfg.role)
  /\ mirrorless = {} /\ running = {}
  /\ fleets = "none" /\ listening = FALSE
  /\ sent = NothingSent

-----------------------------------------------------------------------------
(* Requests.                                                               *)

Request(method, kind, target) == [method |-> method, kind |-> kind, target |-> target]

\* SEP2Client's Get, Post and Put; the target is the one the context carries.
Get(target) == Request("GET", "EndDeviceRead", target)
Post(kind, target) == Request("POST", kind, target)
Put(kind, target) == Request("PUT", kind, target)

Send(request, outcome) ==
  LET allowed == Allow(guard, request) IN
  /\ sent' = [kind |-> request.kind, method |-> request.method, target |-> request.target,
              allowed |-> allowed]
  /\ outcome \in IF allowed THEN {"ok", "failed", "expired"} ELSE {"failed"}

NoRequest == UNCHANGED sent

Strict == cfg.csip /\ ~cfg.allowUnregistered

\* Mutant: only --csip decides.
LookupForCSIP == cfg.csip

\* endDeviceAcquisitionUsesLookup.
UsesLookup == cfg.csip \/ cfg.role = "aggregator"

Goto(phase) == pc' = phase

\* Mutant: log.Fatalf instead of fatalf.
ExitAtOnce == Goto("exited")

\* A return with its deferred shutdown, or fatalf, which runs it first.
Leave == Goto("exit")

Start(tasks) == running' = running \cup tasks

-----------------------------------------------------------------------------
(* Before the first request: configuration, sidecars, receiver, client.    *)

\* derOnlyFlagUsedInAggregatorRole, NewManager and ValidateForRole.
ConfigRefused ==
  \/ cfg.role = "aggregator" /\ cfg.csip
  \/ cfg.role = "der" /\ cfg.fleets
  \/ cfg.role = "aggregator" /\ cfg.simFile /\ cfg.managed = {}

\* Anything else wrong with the settings, or --list-scenarios, ends it too.
ConfigEnds ==
  /\ pc = "config"
  /\ Goto("exited") /\ NoRequest /\ UNCHANGED <<phaseVars, serviceVars>>

ConfigAccepted ==
  /\ pc = "config" /\ ~ConfigRefused
  /\ Goto(IF cfg.fleets THEN "fleets" ELSE "receiver")
  /\ NoRequest /\ UNCHANGED <<phaseVars, serviceVars>>

\* startFleets: all of them come up, or it has stopped those that did.
StartFleets ==
  /\ pc = "fleets"
  /\ \/ fleets' = "up" /\ Goto("receiver")
     \/ fleets' = "down" /\ Goto("exited")
  /\ NoRequest /\ UNCHANGED <<phaseVars, listening>>

\* startNotifyReceiver: a receiver that cannot come up is done without.
StartReceiver ==
  /\ pc = "receiver"
  /\ listening' \in (IF cfg.notify THEN BOOLEAN ELSE {FALSE})
  /\ Goto("client") /\ NoRequest /\ UNCHANGED <<phaseVars, fleets>>

CreateClient ==
  /\ pc = "client"
  /\ Goto("discovery") \/ Leave
  /\ NoRequest /\ UNCHANGED <<phaseVars, serviceVars>>

-----------------------------------------------------------------------------
(* Phases 1 to 2b: who am I, and may I go on?                              *)

\* Discover, and again at each pollRate while no link is advertised.
Discover(outcome) ==
  /\ pc = "discovery"
  /\ Send(Get(Self), outcome)
  /\ IF outcome = "ok"
       THEN dcap' \in Capabilities /\ Goto(IF dcap' = {} THEN "discovery" ELSE "timeSync")
       ELSE Leave /\ UNCHANGED dcap
  /\ UNCHANGED <<edev, program, registration, guard, mirrorless, running>>

\* A Time resource that cannot be read is done without, but a timeout ends main.
SyncTime(outcome) ==
  /\ pc = "timeSync" /\ "time" \in dcap
  /\ Send(Get(Self), outcome)
  /\ IF outcome = "expired" THEN Leave ELSE Goto("acquire")
  /\ Start(IF outcome = "ok" THEN {"timeSync"} ELSE {})
  /\ UNCHANGED <<docVars, guard, mirrorless>>

NoTime ==
  /\ pc = "timeSync" /\ "time" \notin dcap
  /\ Goto("acquire") /\ NoRequest /\ UNCHANGED phaseVars

NoEndDeviceList ==
  /\ pc = "acquire" /\ "edevList" \notin dcap
  /\ Leave /\ NoRequest /\ UNCHANGED phaseVars

\* LookupOwnEndDevice: found, not listed yet, or an error.
Found(outcome) ==
  IF outcome = "ok" THEN edev' \in EndDevices /\ Goto("registration")
  ELSE Leave /\ UNCHANGED edev

\* While it is not listed, main looks again.
LookUp(outcome) ==
  /\ pc = "acquire" /\ "edevList" \in dcap /\ UsesLookup
  /\ Send(Get(Self), outcome)
  /\ \/ Found(outcome)
     \/ outcome = "ok" /\ UNCHANGED <<pc, edev>>
  /\ UNCHANGED <<dcap, program, registration, guard, mirrorless, running>>

\* Register: without a Location there is nothing to read back.
Register(outcome) ==
  /\ pc = "acquire" /\ "edevList" \in dcap /\ ~UsesLookup
  /\ Send(Post("EndDeviceCreate", Self), outcome)
  /\ IF outcome = "ok" THEN pc' \in {"readBack", "registration"} ELSE Leave
  /\ UNCHANGED phaseVars

ReadBack(outcome) ==
  /\ pc = "readBack"
  /\ Send(Get(Self), outcome)
  /\ Found(outcome)
  /\ UNCHANGED <<dcap, program, registration, guard, mirrorless, running>>

\* Without a RegistrationLink: skipped, or in strict mode awaited.  Not being
\* listed any more is as fatal here as any other error.
SkipRegistration ==
  /\ pc = "registration" /\ "registration" \notin edev /\ ~Strict
  /\ Goto("subscribe") /\ NoRequest /\ UNCHANGED phaseVars

AwaitRegistration(outcome) ==
  /\ pc = "registration" /\ "registration" \notin edev /\ Strict
  /\ Send(Get(Self), outcome)
  /\ \/ Found(outcome)
     \/ outcome = "ok" /\ Leave /\ UNCHANGED edev
  /\ UNCHANGED <<dcap, program, registration, guard, mirrorless, running>>

\* The pIN the server presents: none yet, ours or another.
CheckPIN(outcome) ==
  /\ pc = "registration" /\ "registration" \in edev
  /\ Send(Request("GET", "RegistrationRead", Self), outcome)
  /\ IF outcome = "ok"
       THEN /\ registration' \in {"zero", "match", "other"}
            /\ CASE ~cfg.pin \/ registration' = "match" -> Goto("subscribe")
                 [] cfg.pin /\ registration' = "zero" -> Goto("registration")
                 [] cfg.pin /\ registration' = "other" -> Leave
       ELSE Leave /\ UNCHANGED registration
  /\ UNCHANGED <<dcap, edev, program, guard, mirrorless, running>>

-----------------------------------------------------------------------------
(* Subscriptions and Phase 2c.                                             *)

\* registerSubscriptions: of the FSA list, then of the DER list.  A 405 or a
\* timeout ends it, any other failure does not.
Subscribable ==
  IF listening /\ "subscriptions" \in edev THEN edev \cap {"fsa", "ders"} ELSE {}

Subscribe(outcome) ==
  \E link \in Subscribable :
    /\ (pc = "subscribe" /\ link = "fsa") \/ (pc = "subscribeDERs" /\ link = "ders")
    /\ Send(Post("SubscriptionPost", Self), outcome)
    /\ \/ pc = "subscribe" /\ outcome # "expired" /\ Goto("subscribeDERs")
       \/ pc = "subscribe" /\ outcome # "ok" /\ Goto("fsa")
       \/ pc = "subscribeDERs" /\ Goto("fsa")
    /\ UNCHANGED phaseVars

NotSubscribing ==
  /\ \/ pc = "subscribe" /\ "fsa" \notin Subscribable /\ Goto("subscribeDERs")
     \/ pc = "subscribeDERs" /\ "ders" \notin Subscribable /\ Goto("fsa")
  /\ NoRequest /\ UNCHANGED phaseVars

\* Missing, the FSA list is fatal in strict mode; empty, it is read again.
NoFSAs ==
  /\ pc = "fsa" /\ "fsa" \notin edev
  /\ (IF Strict THEN Leave ELSE Goto("session")) /\ NoRequest /\ UNCHANGED phaseVars

ReadFSAs(outcome) ==
  /\ pc = "fsa" /\ "fsa" \in edev
  /\ Send(Get(Self), outcome)
  /\ IF outcome = "ok" THEN Goto("walk") \/ Goto(IF Strict THEN "fsa" ELSE "session")
     ELSE Leave
  /\ UNCHANGED phaseVars

\* The walk reads every program's default, controls and curves.  At start no
\* failure is tolerated.
WalkPrograms(outcome) ==
  /\ pc = "walk"
  /\ Send(Get(Self), outcome)
  /\ IF outcome = "ok" THEN Goto("walk") ELSE Leave
  /\ UNCHANGED phaseVars

SelectProgram ==
  /\ pc = "walk"
  /\ program' \in Programs /\ Goto("default") /\ NoRequest
  /\ UNCHANGED <<dcap, edev, registration, guard, mirrorless, running>>

NoProgram ==
  /\ pc = "walk"
  /\ Goto(IF Strict THEN "walk" ELSE "session") /\ NoRequest /\ UNCHANGED phaseVars

ReadDefault(outcome) ==
  /\ pc = "default"
  /\ IF "default" \in program THEN Send(Get(Self), outcome) ELSE outcome = "ok" /\ NoRequest
  /\ Goto("session")
  /\ UNCHANGED phaseVars

\* runDERSessionForRole: the poll loop and the event loop with its hooks.  They
\* need a control list; an aggregator has none whatever it was assigned.
StartSession ==
  /\ pc = "session"
  /\ Start(IF cfg.role = "der" /\ "controls" \in program
             THEN {"poll", "responses"} \cup (program \cap {"curves"}) ELSE {})
  /\ Goto("setup") /\ NoRequest
  /\ UNCHANGED <<docVars, guard, mirrorless>>

-----------------------------------------------------------------------------
(* Phases 3 and 4 of a DER.                                                *)

NoSetup ==
  /\ pc = "setup" /\ (cfg.role = "aggregator" \/ "ders" \notin edev)
  /\ Goto("metering") /\ NoRequest /\ UNCHANGED phaseVars

\* The DER list: unreadable, empty, or with a first DER.
ReadDERs(outcome) ==
  /\ pc = "setup" /\ cfg.role = "der" /\ "ders" \in edev
  /\ Send(Get(Self), outcome)
  /\ CASE outcome = "ok" -> Goto("capability") \/ Goto("metering")
       [] outcome = "failed" -> Goto("metering")
       [] outcome = "expired" -> Leave
  /\ UNCHANGED phaseVars

\* Capability, then settings, each if the DER links to it; a failed PUT is not
\* tried again.  Status is PUT from the loop, if it has a link.
PutSetup(outcome) ==
  /\ pc \in {"capability", "settings"}
  /\ Send(Put("DERResourceWrite", Self), outcome) \/ (outcome = "ok" /\ NoRequest)
  /\ IF pc = "capability" THEN Goto("settings") /\ UNCHANGED running
     ELSE Goto("metering") /\ (Start({}) \/ Start({"status"}))
  /\ UNCHANGED <<docVars, guard, mirrorless>>

Alarms == IF "logEvents" \in edev THEN {"alarms"} ELSE {}

\* runPhase4Metering.  A create that failed is retried from the loop.
CreateMirror(outcome) ==
  /\ pc = "metering" /\ cfg.role = "der"
  /\ IF "mirrors" \in dcap
       THEN Send(Post("MirrorPost", Self), outcome) /\ Start({"readings"} \cup Alarms)
       ELSE outcome = "ok" /\ NoRequest /\ Start(Alarms)
  /\ Goto("loop")
  /\ UNCHANGED <<docVars, guard, mirrorless>>

-----------------------------------------------------------------------------
(* The aggregator's devices.                                               *)

NoManaged ==
  /\ pc = "metering" /\ cfg.role = "aggregator" /\ cfg.managed = {}
  /\ Goto("reservations") /\ NoRequest /\ UNCHANGED phaseVars

\* It never manages itself.
ManagesItself ==
  /\ pc = "metering" /\ cfg.role = "aggregator" /\ Self \in cfg.managed
  /\ Leave /\ NoRequest /\ UNCHANGED phaseVars

\* startManaged: every configured device must be listed.
ResolveManaged(outcome) ==
  /\ pc = "metering" /\ cfg.role = "aggregator" /\ cfg.managed # {} /\ Self \notin cfg.managed
  /\ Send(Get(Self), outcome)
  /\ \/ /\ outcome = "ok"
        /\ guard' = [guard EXCEPT !.managed = cfg.managed]
        /\ mirrorless' = cfg.managed
        /\ Goto("mirrors")
     \/ Leave /\ UNCHANGED <<guard, mirrorless>>
  /\ UNCHANGED <<docVars, running>>

\* startManagedDevice: a device whose recording cannot be read ends the start.
CreateManagedMirror(outcome) ==
  /\ pc = "mirrors"
  /\ \E device \in mirrorless :
       /\ IF "mirrors" \in dcap THEN Send(Post("MirrorPost", device), outcome)
          ELSE outcome = "ok" /\ NoRequest
       /\ mirrorless' = mirrorless \ {device}
  /\ UNCHANGED <<pc, docVars, guard, running>>

BadRecording ==
  /\ pc = "mirrors" /\ mirrorless # {}
  /\ Leave /\ NoRequest /\ UNCHANGED phaseVars

\* StartControls: a session goroutine for each device.
StartControls ==
  /\ pc = "mirrors" /\ mirrorless = {}
  /\ Start({"sessions", "managed"})
  /\ Goto("reservations") /\ NoRequest
  /\ UNCHANGED <<docVars, guard, mirrorless>>

StartReservations ==
  /\ pc = "reservations"
  /\ Start(IF cfg.simFile /\ "reservations" \in edev THEN {"reservations"} ELSE {})
  /\ Goto("loop") /\ NoRequest
  /\ UNCHANGED <<docVars, guard, mirrorless>>

-----------------------------------------------------------------------------
(* What runs on its own, and the duties of the loop.                       *)

LoopDuties == {"status", "readings", "alarms", "managed", "reservations"}

\* The kind and the target of each request that is made over and over.
TimeSyncRequests == {Get(Self)}
PollRequests == {Get(Self)}
CurveRequests == {Get(Self)}
ResponseRequests(device) == {Post("ResponsePost", device)}
SubscriptionRequests(device) == {Post("SubscriptionPost", device)}
StatusRequests(device) == {Put("DERResourceWrite", device)}
ReadingRequests(device) == {Post("MirrorPost", device)}
AlarmRequests == {Post("LogEventPost", Self)}
ReservationRequests ==
  {Post("FlowReservationPost", Self), Get(Self),
   Post("FlowReservationResponsePost", Self), Put("FlowReservationWithdraw", Self)}

\* What a device's session and the fleet tick request, for that device.
SessionRequests(device) ==
  {Get(device)} \cup ResponseRequests(device) \cup
  (IF listening THEN SubscriptionRequests(device) ELSE {})

ManagedRequests(device) ==
  {Get(device)} \cup StatusRequests(device) \cup
  (IF "mirrors" \in dcap THEN ReadingRequests(device) ELSE {})

RequestsOf(task) ==
  CASE task = "timeSync" -> TimeSyncRequests
    [] task = "poll" -> PollRequests
    [] task = "curves" -> CurveRequests
    [] task = "responses" -> ResponseRequests(Self)
    [] task = "status" -> StatusRequests(Self)
    [] task = "readings" -> ReadingRequests(Self)
    [] task = "alarms" -> AlarmRequests
    [] task = "sessions" -> UNION {SessionRequests(d) : d \in cfg.managed}
    [] task = "managed" -> UNION {ManagedRequests(d) : d \in cfg.managed}
    [] task = "reservations" -> ReservationRequests

\* The goroutines go on while main is shutting down.
Work ==
  /\ pc # "exited"
  /\ \E task \in running :
       /\ task \in LoopDuties => pc = "loop"
       /\ \E request \in RequestsOf(task), outcome \in {"ok", "failed", "expired"} :
            Send(request, outcome)
  /\ UNCHANGED <<pc, phaseVars, serviceVars>>

-----------------------------------------------------------------------------
(* The way out.                                                            *)

\* A signal, in whatever phase it comes, or the end of the scenario.  The loop
\* first waits for the sessions of the managed devices.
Interrupted ==
  /\ pc \notin {"config", "fleets", "exit", "exitFleets", "exited"}
  /\ running' = IF pc = "loop" THEN running \ {"sessions"} ELSE running
  /\ Leave /\ NoRequest /\ UNCHANGED <<docVars, guard, mirrorless, serviceVars>>

\* shutdown: the receiver, then the fleets.
StopReceiver ==
  /\ pc = "exit"
  /\ listening' = FALSE
  /\ Goto("exitFleets") /\ NoRequest /\ UNCHANGED <<phaseVars, fleets>>

StopFleets ==
  /\ pc = "exitFleets"
  /\ fleets' = IF fleets = "up" THEN "down" ELSE fleets
  /\ Goto("exited") /\ NoRequest /\ UNCHANGED <<phaseVars, listening>>

Requesting(outcome) ==
  \/ Discover(outcome) \/ SyncTime(outcome) \/ LookUp(outcome) \/ Register(outcome)
  \/ ReadBack(outcome) \/ AwaitRegistration(outcome) \/ CheckPIN(outcome)
  \/ Subscribe(outcome) \/ ReadFSAs(outcome) \/ WalkPrograms(outcome) \/ ReadDefault(outcome)
  \/ ReadDERs(outcome) \/ PutSetup(outcome) \/ CreateMirror(outcome)
  \/ ResolveManaged(outcome) \/ CreateManagedMirror(outcome)

Deciding ==
  \/ NoTime \/ NoEndDeviceList \/ SkipRegistration \/ NotSubscribing \/ NoFSAs
  \/ SelectProgram \/ NoProgram \/ StartSession \/ NoSetup
  \/ NoManaged \/ ManagesItself \/ BadRecording \/ StartControls \/ StartReservations

Next ==
  /\ UNCHANGED cfg
  /\ \/ ConfigEnds \/ ConfigAccepted \/ StartFleets \/ StartReceiver \/ CreateClient
     \/ UNCHANGED serviceVars /\ \E outcome \in {"ok", "failed", "expired"} : Requesting(outcome)
     \/ UNCHANGED serviceVars /\ Deciding
     \/ Work \/ Interrupted \/ StopReceiver \/ StopFleets

Spec == Init /\ [][Next]_vars

-----------------------------------------------------------------------------
(* What the process promises of its requests.                              *)

\* The guard is a backstop: no request that any phase, goroutine or duty of the
\* process makes is one it refuses, for itself or for a device.  So an
\* aggregator never creates its EndDevice and never acts as a DER, and a device
\* is in the guard's set before anything is sent for it.
InRole == sent.allowed

\* Registered: the server presented the expected pIN, or a pIN was not asked
\* for, or there is no Registration to read and none is required.
Registered ==
  IF "registration" \in edev
    THEN IF cfg.pin THEN registration = "match" ELSE registration # "unread"
    ELSE ~Strict

\* Phase 2b is a gate: nothing but the process's own EndDevice is written
\* before it, whatever the server presented in the meantime.
GateFirst == sent.method \in {"POST", "PUT"} /\ sent.kind # "EndDeviceCreate" => Registered

RequestsInOrder == InRole /\ GateFirst

\* Whatever ended it, and wherever, the process leaves no sidecar and no
\* listening receiver behind: every exit after the fleets came up goes through
\* shutdown, also where it skips deferred calls.
LeavesNothingBehind == pc = "exited" => fleets # "up" /\ ~listening
=============================================================================
