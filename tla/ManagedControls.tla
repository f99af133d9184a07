--------------------------- MODULE ManagedControls ---------------------------
(***************************************************************************)
(* One managed device of the aggregator under utility control,             *)
(* cmd/inverterclient/managed_controls.go: a session goroutine walks the   *)
(* device's programs, follows the one of highest priority and walks again  *)
(* on a notification or a slow timer; the fleet tick of managed.go reads   *)
(* what the session found and drives the device with it.                   *)
(*                                                                         *)
(* The two share the default control, an atomic pointer, and the event     *)
(* engine, under its mutex; the notification receiver shares the wake      *)
(* channel and the subscriptions.  A program lists at most one event, and  *)
(* the engine (EventStateMachine.tla) is cut down to what one event, with a *)
(* base that decodes, can do in a tick.                                    *)
(***************************************************************************)
EXTENDS Integers, FiniteSets

CONSTANTS Programs,      \* mRIDs, numbers, as the selector orders them
          Entries(_),    \* how the server may list a program
          Start,         \* what it lists at first
          MaxChanges,    \* bound on the changes the server makes
          MaxFaults      \* bound on the reads that fail for no good reason

\* An entry: the primacy and place of its links, and whether its list holds an
\* event.  Primacy 0: not assigned.  Place 0: no DERControlListLink.
ASSUME EntriesAssumption ==
  /\ Programs \subseteq Nat \ {0}
  /\ \A p \in Programs : \A e \in Entries(p) : e.primacy \in Nat /\ e.place \in Nat /\ e.event \in BOOLEAN
  /\ Start = [p \in Programs |-> Start[p]] /\ \A p \in Programs : Start[p] \in Entries(p)
  /\ MaxChanges \in Nat /\ MaxFaults \in Nat

VARIABLES
  server,      \* what the server lists
  changes, faults,
  pc,          \* where the session goroutine is
  following,   \* the program being followed
  next,        \* the replacement a re-walk found
  walk,        \* the walk in progress
  defaultCtl,  \* the program whose default is stored, 0 for nil
  engine,      \* the event machine: stage and the event's program
  prev,        \* the programs whose event was in the last snapshot
  superseded,  \* is a cancellation to be told as a supersession?
  ended,       \* the cancellation the last tick told: its status and its cause
  wake,        \* the wake channel, of one place
  sub,         \* the subscription: "none" yet, "held", "lost" and to be asked
               \* for again, "refused" for good
  tick         \* the fleet tick at this device

serverVars == <<server, changes>>
subVars == <<wake, sub>>
followVars == <<following, next, defaultCtl, engine, prev, superseded, ended>>
sessionVars == <<pc, walk, faults, followVars>>
vars == <<serverVars, sessionVars, subVars, tick>>

NoProgram == [mrid |-> 0, place |-> 0]
NoWalk == [toRead |-> {}, seen |-> {}, unreadable |-> {}]
NotEnded == [status |-> 0, cause |-> "none"]
NoEvent == [stage |-> "none", of |-> 0]

\* What drives the device: an event, a default, a share of a grant, or nothing.
Event(p) == <<"event", p>>
Default(p) == <<"default", p>>
Plan == <<"plan", 0>>
Nothing == <<"nothing", 0>>

Changed == <<"changed", 0>>
Idle == [at |-> "idle", planned |-> FALSE, steady |-> Nothing, setpoint |-> Nothing]

Init ==
  /\ server = Start /\ changes = 0 /\ faults = 0
  /\ pc = "fsa"
  /\ following = NoProgram /\ next = NoProgram /\ walk = NoWalk
  /\ defaultCtl = 0 /\ engine = NoEvent /\ prev = {}
  /\ superseded = FALSE /\ ended = NotEnded
  /\ wake = FALSE /\ sub = "none"
  /\ tick = Idle

-----------------------------------------------------------------------------
\* What drives the device, from what the session holds: controlSession.base.
Active == engine.stage = "started"
BaseOf(e, d) ==
  IF e.stage = "started" THEN Event(e.of) ELSE IF d # 0 THEN Default(d) ELSE Nothing
Base == BaseOf(engine, defaultCtl)

\* tick.steady is what drove the device since the tick began, if one thing did.
Observed ==
  IF tick.at = "idle" \/ tick.steady = BaseOf(engine', defaultCtl') THEN tick
  ELSE [tick EXCEPT !.steady = Changed]

-----------------------------------------------------------------------------
(* The server and its notifications.                                       *)

Assigned(p) == server[p].primacy # 0

ServerChanges ==
  /\ changes < MaxChanges
  /\ \E p \in Programs : \E e \in Entries(p) \ {server[p]} : server' = [server EXCEPT ![p] = e]
  /\ changes' = changes + 1
  /\ UNCHANGED <<sessionVars, subVars, tick>>

\* The receiver routes to the session what names a list it ever asked to watch:
\* late, twice or never.  The kick fills the wake channel or finds it full.
Watched == sub # "none"

Notify ==
  /\ Watched
  /\ wake' = TRUE
  /\ UNCHANGED <<serverVars, sessionVars, sub, tick>>

\* A notice that the subscription itself is over makes the session forget it.
NotifyEnded ==
  /\ Watched
  /\ wake' = TRUE
  /\ sub' = IF sub = "held" THEN "lost" ELSE sub
  /\ UNCHANGED <<serverVars, sessionVars, tick>>

-----------------------------------------------------------------------------
(* The walk.                                                               *)

\* SelectHighestPriority: the lowest primacy, then the lowest mRID.
Better(a, b) == a.primacy < b.primacy \/ (a.primacy = b.primacy /\ a.mrid < b.mrid)

Select(seen) ==
  IF seen = {} THEN NoProgram
  ELSE LET best == CHOOSE a \in seen : \A b \in seen \ {a} : Better(a, b)
       IN  [mrid |-> best.mrid, place |-> best.place]

Discovering == following = NoProgram

Works == UNCHANGED faults
Faults == faults < MaxFaults /\ faults' = faults + 1

\* A failed read ends the walk; a re-walk that fails keeps the program.
WalkFails ==
  /\ pc' = IF Discovering THEN "wait" ELSE "select"
  /\ walk' = NoWalk

\* GET of the FSA list: each assigned program has an FSA of its own.
ReadFSAList ==
  /\ pc = "fsa"
  /\ \/ /\ Works
        /\ walk' = [NoWalk EXCEPT !.toRead = {p \in Programs : Assigned(p)}]
        /\ pc' = "programs"
     \/ Faults /\ WalkFails
  /\ UNCHANGED <<serverVars, followVars, subVars, tick>>

\* What a program list says of p: a program with no control list is not kept.
SeenAt(p) ==
  IF ~Assigned(p) \/ server[p].place = 0 THEN {}
  ELSE {[mrid |-> p, primacy |-> server[p].primacy, place |-> server[p].place]}

\* GET of the list of p's FSA, and of the control list it links: one that does
\* not read leaves the program out of this walk, and is noted.  The list of an
\* FSA that is gone may be empty, or not there.
ReadProgram ==
  /\ pc = "programs"
  /\ \E p \in walk.toRead :
       \/ /\ Works
          /\ walk' = [walk EXCEPT !.toRead = @ \ {p}, !.seen = @ \cup SeenAt(p)]
          /\ UNCHANGED pc
       \/ /\ Faults /\ SeenAt(p) # {}
          /\ walk' = [walk EXCEPT !.toRead = @ \ {p}, !.unreadable = @ \cup {p}]
          /\ UNCHANGED pc
       \/ (Faults \/ (~Assigned(p) /\ Works)) /\ WalkFails
  /\ UNCHANGED <<serverVars, followVars, subVars, tick>>

WalkDone == pc = "programs" /\ walk.toRead = {}

\* subscribe: the session watches, and counts itself subscribed, before it
\* posts, so a notice that races the 201 still finds it.
PostSubscription ==
  /\ WalkDone /\ sub \in {"none", "lost"}
  /\ pc' = "posted"
  /\ sub' = "held"
  /\ UNCHANGED <<serverVars, walk, faults, followVars, wake, tick>>

NoSubscription ==
  /\ WalkDone /\ sub \notin {"none", "lost"}
  /\ pc' = "judge"
  /\ UNCHANGED <<serverVars, walk, faults, followVars, subVars, tick>>

\* Mutant: the subscription is counted once the server has accepted it.
SubscriptionCounted ==
  /\ pc = "posted"
  /\ pc' = "judge"
  /\ sub' \in {"held", "lost", "refused"}
  /\ UNCHANGED <<serverVars, walk, faults, followVars, wake, tick>>

\* Accepted; failed, to be tried again on a later walk; or 405, and never again.
SubscriptionAnswered ==
  /\ pc = "posted"
  /\ pc' = "judge"
  /\ sub' \in {sub, "lost", "refused"}
  /\ UNCHANGED <<serverVars, walk, faults, followVars, wake, tick>>

\* discoverProgram's end of a walk: a program to follow, or a wait.
Discover ==
  /\ pc = "judge" /\ Discovering
  /\ following' = Select(walk.seen)
  /\ walk' = NoWalk
  /\ pc' = IF walk.seen = {} THEN "wait" ELSE "default"
  /\ UNCHANGED <<serverVars, faults, next, defaultCtl, engine, prev, superseded, ended, subVars, tick>>

\* The wait ends on its timer, or early on a wake.
WaitEnds ==
  /\ pc = "wait"
  /\ pc' = "fsa"
  /\ wake' \in {wake, FALSE}
  /\ UNCHANGED <<serverVars, walk, faults, followVars, sub, tick>>

\* Mutant: the same mRID is the same program, wherever it is now served.
SameMRID(a, b) == a.mrid = b.mrid

\* sameProgram: the same mRID served from the same place.
SameProgram(a, b) == a = b

\* programMoved: a followed program that is still listed, though its list does
\* not read, is kept; so is one that is still the first choice.
Moved(choice) == following.mrid \notin walk.unreadable /\ ~SameProgram(following, choice)

\* Mutant: the default of the old program stays until the new one's is read.
RewalkedKeepingDefault ==
  /\ pc = "judge" /\ ~Discovering
  /\ LET choice == Select(walk.seen)
     IN  IF Moved(choice)
           THEN /\ pc' = "drop"
                /\ next' = choice
                /\ superseded' = (choice # NoProgram /\ choice.mrid # following.mrid)
           ELSE pc' = "select" /\ UNCHANGED <<next, superseded>>
  /\ walk' = NoWalk
  /\ UNCHANGED <<serverVars, faults, following, defaultCtl, engine, prev, ended, subVars, tick>>

\* A program that is gone, or replaced, takes its default with it at once, and
\* the flag is set for the cancellations to come.
Rewalked ==
  /\ pc = "judge" /\ ~Discovering
  /\ LET choice == Select(walk.seen)
     IN  IF Moved(choice)
           THEN /\ pc' = "drop"
                /\ next' = choice
                /\ defaultCtl' = 0
                /\ superseded' = (choice # NoProgram /\ choice.mrid # following.mrid)
           ELSE pc' = "select" /\ UNCHANGED <<next, defaultCtl, superseded>>
  /\ walk' = NoWalk
  /\ UNCHANGED <<serverVars, faults, following, engine, prev, ended, subVars>>
  /\ tick' = Observed

-----------------------------------------------------------------------------
(* Following a program.                                                    *)

\* What the engine may make of its event in a tick of which the event was
\* added: refused, over or with no interval; waiting; started.
Admit(p) == {NoEvent} \cup [stage : {"received", "started"}, of : {p}]

\* What it may make of it when nothing is said of it: a tick that comes late
\* starts an event and ends it.
Advance ==
  CASE engine.stage = "none" -> {NoEvent}
    [] engine.stage = "received" -> {engine, [engine EXCEPT !.stage = "started"], NoEvent}
    [] engine.stage = "started" -> {engine, NoEvent}

\* Tick(added, gone): an event that is gone is cancelled and told so.
Tick(added, gone, cause) ==
  IF engine.of \in gone
    THEN /\ engine' = NoEvent
         /\ ended' = [status |-> IF superseded THEN 14 ELSE 6, cause |-> cause]
    ELSE /\ engine' \in IF added = {} THEN Advance ELSE UNION {Admit(p) : p \in added}
         /\ ended' = NotEnded

\* Does the server still serve the followed program from where it was?
Served == Assigned(following.mrid) /\ server[following.mrid].place = following.place

\* The first half of a step: GET of the default.  A failed read, or a program
\* with no default, keeps what is stored.
ReadDefault ==
  /\ pc = "default"
  /\ pc' = "list"
  /\ \/ Works /\ Served /\ defaultCtl' = following.mrid
     \/ (Faults \/ (~Served /\ Works)) /\ UNCHANGED defaultCtl
  /\ UNCHANGED <<serverVars, walk, following, next, engine, prev, superseded, ended, subVars>>
  /\ tick' = Observed

\* The second half: GET of the control list, and a tick whether it read or not.
ReadControls ==
  /\ pc = "list"
  /\ pc' = "select"
  /\ \/ /\ Works /\ Served
        /\ LET listed == IF server[following.mrid].event THEN {following.mrid} ELSE {}
           IN  prev' = listed /\ Tick(listed \ prev, prev \ listed, "list")
     \/ (Faults \/ (~Served /\ Works)) /\ Tick({}, {}, "list") /\ UNCHANGED prev
  /\ UNCHANGED <<serverVars, walk, following, next, defaultCtl, superseded, subVars>>
  /\ tick' = Observed

\* The select of followProgram: the poll ticker, the wake, the re-walk timer.
PollTimer ==
  /\ pc = "select" /\ pc' = "default"
  /\ UNCHANGED <<serverVars, walk, faults, followVars, subVars, tick>>

Wake ==
  /\ pc = "select" /\ wake
  /\ wake' = FALSE /\ pc' = "fsa"
  /\ UNCHANGED <<serverVars, walk, faults, followVars, sub, tick>>

RewalkTimer ==
  /\ pc = "select" /\ pc' = "fsa"
  /\ UNCHANGED <<serverVars, walk, faults, followVars, subVars, tick>>

\* Mutant: the flag outlives the program that was replaced.
DropProgramKeepingFlag ==
  /\ pc = "drop"
  /\ Tick({}, prev, IF next.mrid \in {0, following.mrid} THEN "gone" ELSE "replaced")
  /\ following' = next
  /\ next' = NoProgram /\ prev' = {}
  /\ pc' = IF next = NoProgram THEN "fsa" ELSE "default"
  /\ UNCHANGED <<serverVars, walk, faults, defaultCtl, superseded, subVars>>
  /\ tick' = Observed

\* The old program's controls are cancelled, and the flag cleared.  The new one
\* is followed at once with a new snapshot; with none left, discovery begins.
DropProgram ==
  /\ pc = "drop"
  /\ Tick({}, prev, IF next.mrid \in {0, following.mrid} THEN "gone" ELSE "replaced")
  /\ superseded' = FALSE
  /\ following' = next
  /\ next' = NoProgram /\ prev' = {}
  /\ pc' = IF next = NoProgram THEN "fsa" ELSE "default"
  /\ UNCHANGED <<serverVars, walk, faults, defaultCtl, subVars>>
  /\ tick' = Observed

SessionStep ==
  \/ ReadFSAList \/ ReadProgram \/ PostSubscription \/ NoSubscription \/ SubscriptionAnswered
  \/ Discover \/ WaitEnds \/ Rewalked
  \/ ReadDefault \/ ReadControls \/ PollTimer \/ Wake \/ RewalkTimer \/ DropProgram

-----------------------------------------------------------------------------
(* The fleet tick at this device.                                          *)

\* Mutant: a device under control takes its share of the grant like the others.
PlanForAll ==
  /\ tick.at = "idle"
  /\ \E planned \in BOOLEAN :
       tick' = [at |-> "read", planned |-> planned, steady |-> Base, setpoint |-> Nothing]
  /\ UNCHANGED <<serverVars, sessionVars, subVars>>

\* batteries and plan: inside a grant a battery that no event drives may be
\* given a share.
PlanGrant ==
  /\ tick.at = "idle"
  /\ \E planned \in BOOLEAN :
       /\ planned => ~Active
       /\ tick' = [at |-> "read", planned |-> planned, steady |-> Base, setpoint |-> Nothing]
  /\ UNCHANGED <<serverVars, sessionVars, subVars>>

\* base reads the engine; only if no event is running does it read the default.
ReadEngine ==
  /\ tick.at = "read"
  /\ tick' = IF Active THEN [tick EXCEPT !.at = "apply", !.setpoint = Base]
                       ELSE [tick EXCEPT !.at = "engine"]
  /\ UNCHANGED <<serverVars, sessionVars, subVars>>

LoadDefault ==
  /\ tick.at = "engine"
  /\ tick' = [tick EXCEPT !.at = "apply", !.setpoint = BaseOf(NoEvent, defaultCtl)]
  /\ UNCHANGED <<serverVars, sessionVars, subVars>>

\* The setpoint given to the device: a planned share goes before the base.
Setpoint == IF tick.planned THEN Plan ELSE tick.setpoint

\* ApplySetpoint, or a device that could not be read: the tick is over.
Apply ==
  /\ tick.at \in {"read", "apply"}
  /\ tick' = Idle
  /\ UNCHANGED <<serverVars, sessionVars, subVars>>

TickStep == PlanGrant \/ ReadEngine \/ LoadDefault \/ Apply

-----------------------------------------------------------------------------
Next == ServerChanges \/ Notify \/ NotifyEnded \/ SessionStep \/ TickStep

Spec == Init /\ [][Next]_vars

\* The session runs and its reads end; a ticker that has fired stays ready, so
\* select takes the re-walk timer again and again.  Nothing is assumed of the
\* notifications, of the server or of the fleet tick.
FairSpec == Spec /\ WF_vars(SessionStep) /\ SF_vars(RewalkTimer)

-----------------------------------------------------------------------------
(* What the session promises.                                              *)

\* The default and the event that can drive the device are those of the program
\* being followed, at every moment of a change of program: nothing a program
\* delivered outlives it.
FollowedDrives ==
  /\ defaultCtl \in {0, following.mrid}
  /\ engine.of \in {0, following.mrid}
  /\ prev \subseteq {following.mrid}

\* What drove the device all through a tick, an event first of all, is what the
\* tick applies, though it asks three times and the session runs meanwhile; a
\* share of a grant goes only before a default or nothing.
DriverObeyed ==
  tick.at = "apply" /\ tick.steady # Changed =>
    \/ Setpoint = tick.steady
    \/ Setpoint = Plan /\ \A p \in Programs : tick.steady # Event(p)

\* A cancellation is told as 14, superseded by an alternate program, when
\* another program replaced the one it was in, and as 6 otherwise: when the
\* event or the program was withdrawn, or the program replaced under its mRID.
SupersessionTold ==
  ended.status # 0 => (ended.status = 14 <=> ended.cause = "replaced")

\* A subscription the session has forgotten, as the server ended it or refused
\* it, counts again only by being asked for again: not by a late answer to the
\* POST the ended one was asked for with.
EndedNoticeKept == [][sub # "held" /\ sub' = "held" => pc' = "posted"]_vars

\* What the session would choose of all the server lists.
Choice == Select(UNION {SeenAt(p) : p \in Programs})

\* The session ends up following the server's choice for good, or nothing if
\* there is none, though every notification may be lost, a walk may read its
\* lists before and after a change, and reads may fail.
ChoiceFollowed ==
  \A c \in {NoProgram} \cup UNION {{[mrid |-> p, place |-> e.place] : e \in Entries(p)} : p \in Programs} :
    <>[](Choice = c) => <>[](following = c)
=============================================================================
