-------------------------- MODULE DERControlSession --------------------------
(***************************************************************************)
(* One DER following a program (cmd/inverterclient/main.go, Phase 5): the  *)
(* server's DERControlList, the cache the poll loop and the notification   *)
(* dispatcher both refresh, and the goroutine that steps the event engine. *)
(*                                                                         *)
(* The three goroutines share the cache under its lock and nothing else.   *)
(* A reader's GET runs outside the lock, so an answer the server composed  *)
(* before a change may reach the cache after one composed later.  The      *)
(* goroutine that steps the engine also posts its Responses, one by one    *)
(* and each with its retries, before it steps on.                          *)
(***************************************************************************)
EXTENDS EventStateMachine, ResponseDelivery

CONSTANTS ServerLists,   \* the lists the server publishes
          MaxChanges,    \* bound on the number of times it changes its list
          Masks          \* what its events ask Responses for

ASSUME ServerAssumption ==
  ServerLists \subseteq Lists /\ MaxChanges \in Nat /\ Masks \subseteq SUBSET {"receipt", "actions"}

VARIABLES
  server,     \* the list the server holds
  changes,    \* how often it changed
  cache,      \* the DERControlCache: the list of the last Refresh
  response,   \* for each reader, the answer on its way to the cache, or None
  polling,    \* is PollDERControlList still running?
  asked,      \* the bits of each event's responseRequired, none without a replyTo
  ticking     \* has the tick goroutine taken its first snapshot?

engineVars == <<sm, prev, now, pc, pending, answered>>
listVars == <<server, changes, cache, response, polling, asked>>
sessionVars == <<engineVars, listVars, ticking, post>>

\* PollDERControlList and the dispatcher's refreshDERControlList.
Readers == {"poll", "notify"}

EmptyList == [e \in MRIDs |-> "absent"]

SessionInit ==
  /\ Init
  /\ prev = Snapshot(EmptyList)
  /\ server \in ServerLists
  /\ changes = 0
  /\ cache = EmptyList
  /\ response = [r \in Readers |-> None]
  /\ polling = TRUE
  /\ asked \in [MRIDs -> Masks]
  /\ ticking = FALSE
  /\ post = NoPost

ServerChanges ==
  /\ changes < MaxChanges
  /\ server' \in ServerLists \ {server}
  /\ changes' = changes + 1
  /\ UNCHANGED <<engineVars, cache, response, polling, asked, ticking, post>>

\* A reader's GET reaches the server.  The dispatcher GETs when a notification
\* arrives; notifications can be lost, so it may miss any change.
Get(r) ==
  /\ response[r] = None
  /\ IF r = "poll" THEN polling ELSE changes > 0
  /\ response' = [response EXCEPT ![r] = server]
  /\ UNCHANGED <<engineVars, server, changes, cache, polling, asked, ticking, post>>

\* The answer arrives and replaces the cache, both halves under one lock.
Refresh(r) ==
  /\ response[r] # None
  /\ cache' = response[r]
  /\ response' = [response EXCEPT ![r] = None]
  /\ UNCHANGED <<engineVars, server, changes, polling, asked, ticking, post>>

\* The connection breaks, or the answer is an error or unreadable: the cache is
\* kept and the loop goes on.
GetFails(r) ==
  /\ response[r] # None
  /\ response' = [response EXCEPT ![r] = None]
  /\ UNCHANGED <<engineVars, server, changes, cache, polling, asked, ticking, post>>

\* The GET runs into the HTTP client's timeout.  Its error is a DeadlineExceeded,
\* which PollDERControlList takes for the end of its own context: it returns for
\* good.  The dispatcher waits for the next notification.
GetExpires(r) ==
  /\ response[r] # None
  /\ response' = [response EXCEPT ![r] = None]
  /\ polling' = (polling /\ r # "poll")
  /\ UNCHANGED <<engineVars, server, changes, cache, asked, ticking, post>>

\* The tick goroutine takes the snapshot its first tick compares with.
StartTicking ==
  /\ ~ticking
  /\ ticking' = TRUE
  /\ prev' = Snapshot(cache)
  /\ UNCHANGED <<sm, now, pc, pending, answered, listVars, post>>

StepReject == ticking /\ Reject(cache) /\ UNCHANGED <<listVars, ticking, post>>

StepTick == ticking /\ Tick(cache) /\ UNCHANGED <<listVars, ticking, post>>

\* responseRequiredOn: the first bit asks for the receipt, the second for all
\* that follows it and for a rejection.
Requires(mask, status) == (IF status = 1 THEN "receipt" ELSE "actions") \in mask

ToPost(t) == StatusOf(t) # 0 /\ Requires(asked[t.mRID], StatusOf(t))

\* A transition is posted; its hook returns when the POST ends, whether or not
\* the server got it.
StepPost ==
  /\ pending # <<>> /\ ToPost(Head(pending))
  /\ PostStep
  /\ IF PostEnds THEN Fire ELSE UNCHANGED engineVars
  /\ UNCHANGED <<listVars, ticking>>

\* The hook returns at once from a transition the server asks no Response for.
StepSkip ==
  /\ pending # <<>> /\ ~ToPost(Head(pending))
  /\ pending' = Tail(pending)
  /\ UNCHANGED <<sm, prev, now, pc, answered, listVars, ticking, post>>

SessionNext ==
  \/ ServerChanges
  \/ \E r \in Readers : Get(r) \/ Refresh(r) \/ GetFails(r) \/ GetExpires(r)
  \/ StartTicking
  \/ StepReject
  \/ StepTick
  \/ StepPost
  \/ StepSkip

SessionSpec == SessionInit /\ [][SessionNext]_sessionVars

\* While the poll loop runs its ticker never stops, and the server answers its
\* polls again and again.
\* The tick goroutine's ticker never stops either, and each of its POSTs and
\* waits comes to an end.  Weak fairness of Reject and Tick is stated as what it
\* amounts to, since nothing but the step itself ends its being enabled: TLC
\* checks that much faster.  Nothing is assumed of notifications but that a
\* GET, once sent, ends.
SessionFairSpec ==
  /\ SessionSpec
  /\ WF_sessionVars(Get("poll"))
  /\ SF_sessionVars(Refresh("poll"))
  /\ WF_sessionVars(Refresh("notify") \/ GetFails("notify") \/ GetExpires("notify"))
  /\ WF_sessionVars(StartTicking)
  /\ WF_sessionVars(StepPost \/ StepSkip)
  /\ []<>~(ticking /\ pc = "reject" /\ pending = <<>>)
  /\ []<>~(pc = "tick" /\ pending = <<>>)

-----------------------------------------------------------------------------
(* What the session promises.                                              *)

\* As long as no poll runs into the timeout, which would be the last one:
\* an event the server cancelled or removed for good ends up not driving the
\* device, for ever after, even if a GET answered earlier is stored later.
WithdrawnEventStops ==
  []polling =>
    \A e \in MRIDs :
      <>[](server[e] \in {"absent", "cancelled"}) => <>[](sm.active # e)

\* As long as no poll runs into the timeout: an item the server keeps listing
\* with a base that does not decode has its rejection posted in the end, if it
\* asks for one.
GarbledEventRejected ==
  []polling =>
    \A e \in MRIDs :
      "actions" \in asked[e] /\ <>[](server[e] = "garbled") => <>(answered[e] = 253)

Announced(e) ==
  \E i \in DOMAIN pending : pending[i].mRID = e /\ pending[i].next = "EVENT_RECEIVED"

\* As long as no poll runs into the timeout, and if none was stored before the
\* tick goroutine took its first snapshot, which would hide what it brought:
\* the one event of the server's list, once listed for good, is taken up by the
\* engine, although a GET answered earlier may be stored later.
ListedEventTakenUp ==
  []polling /\ [](~ticking => cache = EmptyList) =>
    \A e \in MRIDs :
      /\ [](server[e] \in {"absent", "scheduled"} /\ \A d \in MRIDs \ {e} : server[d] = "absent")
      /\ <>[](server[e] = "scheduled")
      => <>Announced(e)

\* The comment on PollDERControlList: "Transient HTTP / parse failures are logged
\* and the loop continues at the next tick. A flaky server should not silently
\* halt control polling."  There is always another poll.
PollingGoesOn == []<>(response["poll"] # None)

\* Reject's comment: "An event accepted earlier under the same mRID is
\* withdrawn without an EVENT_CANCELLED transition: the server did not cancel
\* it, so it must not be answered with 6."  A tick records no cancellation of
\* an event the list it ticks on holds as a rejected item.
RejectedNotCancelled ==
  [][(pc = "tick" /\ pc' = "reject") =>
       \A i \in DOMAIN pending' :
         pending'[i].next = "EVENT_CANCELLED" => cache[pending'[i].mRID] # "garbled"]_sessionVars
=============================================================================
