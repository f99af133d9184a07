----------------------------- MODULE Reservation -----------------------------
(***************************************************************************)
(* The aggregator's flow reservation, cmd/inverterclient/reservation.go: a *)
(* signal posts a request, polls follow its answers, a grant is handed to  *)
(* the dispatcher, another signal withdraws the request, and what could    *)
(* not be withdrawn is tried again.                                        *)
(*                                                                         *)
(* Everything runs on the goroutine of the main loop; each signal and each *)
(* poll is handled whole, but a poll reads the clock again after it has    *)
(* retried the withdrawals.  Each good read may see any list of responses, *)
(* and a PUT, a GET or a POST may fail.                                    *)
(***************************************************************************)
EXTENDS ReservationAnswer

CONSTANTS Settings,      \* what the operator may ask for: config and request file
          Responses,     \* what the server may list, but for the id
          MaxRequests, MaxResponses, MaxTime,   \* bounds
          Grace, Poll, MaxBackoff

\* What the operator sets and what the server lists carry whole numbers, the
\* interval of an offer no negative one; a poll interval is at least a second.
ASSUME ReservationAssumption ==
  /\ \A s \in Settings :
       {s.energy, s.power, s.startIn, s.duration, s.minLead, s.grace} \subseteq Int
  /\ \A a \in Responses :
       /\ {a.created, a.offer.start, a.offer.energy, a.offer.power} \subseteq Int
       /\ a.offer.duration \in Nat /\ {a.offer.complete, a.asks} \subseteq BOOLEAN
  /\ {MaxRequests, MaxResponses, MaxTime, Grace} \subseteq Nat
  /\ {Poll, MaxBackoff} \subseteq Nat \ {0}

VARIABLES
  now,        \* the clock
  pc,         \* "idle" in the select, "poll" between the two halves of Poll
  requests,   \* requests in the order posted; the mRID is the place
  cur,        \* the request being followed, 0 for none
  grant,      \* the terms the dispatcher has been given
  nextPoll,
  stale,      \* the withdrawals to retry: request, next attempt, wait
  acked       \* responses to the followed request already acknowledged

clientVars == <<requests, cur, grant, nextPoll, stale, acked>>
vars == <<now, pc, clientVars>>

Posted == 1..Len(requests)

\* How a withdrawal's PUT ends, permanentRefusal: accepted; failed, with the
\* server having carried it out or not; refused for good (404, or an href that
\* is not on the server).
Outcomes == {"ok", "failed", "permanent"}

Over(r) == now >= requests[r].end + Grace

Init ==
  /\ now = 0 /\ pc = "idle"
  /\ requests = <<>> /\ cur = 0
  /\ grant = NoTerms
  /\ nextPoll = 0
  /\ stale = {}
  /\ acked = {}

-----------------------------------------------------------------------------
(* Withdrawing.                                                            *)

\* Is there anything to PUT for r?
Withdrawable(r) ==
  ~requests[r].done /\ ~requests[r].withdrawn /\ requests[r].located

\* withdraw(r): the requests after an attempt that ended with outcome.
AfterPut(r, outcome) ==
  IF ~Withdrawable(r) THEN requests
  ELSE [requests EXCEPT ![r].withdrawn = (outcome = "ok"),
                        ![r].refused   = @ \/ outcome = "permanent"]

Kept(r) == \E s \in stale : s.request = r

\* Mutant: only a request that is no longer followed is kept for a retry.
RetryReplacedOnly(r, outcome) ==
  IF Withdrawable(r) /\ outcome = "failed" /\ ~Kept(r) /\ r # cur
    THEN stale \cup {[request |-> r, next |-> now + Poll, wait |-> Poll]}
    ELSE stale

\* retryLater(r), after an attempt that neither worked nor was refused.
RetryLater(r, outcome) ==
  IF Withdrawable(r) /\ outcome = "failed" /\ ~Kept(r)
    THEN stale \cup {[request |-> r, next |-> now + Poll, wait |-> Poll]}
    ELSE stale

-----------------------------------------------------------------------------
(* The operator.                                                           *)

\* SIGUSR1 with settings that cannot be posted, or a POST that fails, changes
\* nothing at the client.
NewRequest(s, located) ==
  LET facts == Facts(s, now)
  IN  [start |-> facts.start, end |-> facts.end, energy |-> facts.energy, power |-> facts.power,
       located |-> located, withdrawn |-> FALSE, refused |-> FALSE, done |-> FALSE,
       wanted |-> FALSE]

Trigger(s, located, outcome) ==
  /\ pc = "idle" /\ Len(requests) < MaxRequests
  /\ now + s.startIn + s.duration + s.grace <= MaxTime
  /\ Postable(s)
  /\ IF cur = 0
       THEN /\ requests' = Append(requests, NewRequest(s, located))
            /\ UNCHANGED stale
       ELSE /\ requests' = Append([AfterPut(cur, outcome) EXCEPT ![cur].wanted = TRUE],
                                  NewRequest(s, located))
            /\ stale' = RetryLater(cur, outcome)
  /\ cur' = Len(requests) + 1
  /\ grant' = NoTerms
  /\ nextPoll' = now
  /\ acked' = {}
  /\ UNCHANGED <<now, pc>>

\* SIGUSR2.
Withdraw(outcome) ==
  /\ pc = "idle" /\ cur # 0
  /\ ~requests[cur].done /\ ~requests[cur].withdrawn
  /\ requests' = [AfterPut(cur, outcome) EXCEPT ![cur].wanted = TRUE]
  /\ grant' = IF requests'[cur].withdrawn THEN NoTerms ELSE grant
  /\ stale' = RetryLater(cur, outcome)
  /\ UNCHANGED <<now, pc, cur, nextPoll, acked>>

-----------------------------------------------------------------------------
(* Poll, first half: the withdrawals that are due.                         *)

\* One retry does not touch what another is for, so their order is left out.
Due(s) == ~requests[s.request].withdrawn /\ ~Over(s.request) /\ now >= s.next

TriedAgain(s) ==
  LET wait == Least(2 * s.wait, MaxBackoff)
  IN  [request |-> s.request, next |-> now + wait, wait |-> wait]

\* Mutant: the end of the window does not end the retries.
RetriedForEver(s, outcome) ==
  CASE requests[s.request].withdrawn -> {}
    [] ~requests[s.request].withdrawn /\ now < s.next -> {s}
    [] OTHER -> IF outcome \in {"ok", "permanent"} THEN {} ELSE {TriedAgain(s)}

\* What one kept withdrawal comes to, given how its attempt would end.
Retried(s, outcome) ==
  CASE requests[s.request].withdrawn \/ Over(s.request) -> {}
    [] ~(requests[s.request].withdrawn \/ Over(s.request)) /\ now < s.next -> {s}
    [] Due(s) -> IF outcome \in {"ok", "permanent"} THEN {} ELSE {TriedAgain(s)}

DueRequests == {s.request : s \in {kept \in stale : Due(kept)}}

\* Mutant: an accepted retry leaves the grant of the request in place.
GrantAfterRetry(accepted) == grant

GrantAfter(accepted) == IF cur \in accepted THEN NoTerms ELSE grant

RetryWithdrawals ==
  /\ pc = "idle"
  /\ \E outcome \in [DueRequests -> Outcomes] :
       LET accepted == {r \in DueRequests : outcome[r] = "ok"}
           refused  == {r \in DueRequests : outcome[r] = "permanent"}
           ResultOf(s) == Retried(s, IF Due(s) THEN outcome[s.request] ELSE "failed")
       IN /\ requests' = [r \in Posted |->
                            [requests[r] EXCEPT !.withdrawn = @ \/ r \in accepted,
                                                !.refused   = @ \/ r \in refused]]
          /\ stale' = UNION {ResultOf(s) : s \in stale}
          /\ grant' = GrantAfter(accepted)
  /\ pc' = "poll"
  /\ UNCHANGED <<now, cur, nextPoll, acked>>

-----------------------------------------------------------------------------
(* Poll, second half: finish, or read and judge the answers.               *)

\* There is nothing to follow, or it is not time.
PollNothing ==
  /\ pc = "poll"
  /\ \/ cur = 0
     \/ cur # 0 /\ requests[cur].done
     \/ cur # 0 /\ ~Over(cur) /\ now < nextPoll
  /\ pc' = "idle"
  /\ UNCHANGED <<now, requests, cur, grant, nextPoll, stale, acked>>

Following == pc = "poll" /\ cur # 0 /\ ~requests[cur].done

\* finish: the window and the grace have passed.
Finish ==
  /\ Following /\ Over(cur)
  /\ requests' = [requests EXCEPT ![cur].done = TRUE]
  /\ grant' = NoTerms
  /\ pc' = "idle"
  /\ UNCHANGED <<now, cur, nextPoll, stale, acked>>

\* The read fails, or the list is truncated.
ReadFails ==
  /\ Following /\ ~Over(cur) /\ now >= nextPoll
  /\ nextPoll' = now + Poll
  /\ pc' = "idle"
  /\ UNCHANGED <<now, requests, cur, grant, stale, acked>>

GrantOf(r, verdict) ==
  IF Dispatches(verdict.kind) /\ ~requests[r].withdrawn THEN verdict.terms ELSE NoTerms

\* The lists a read may return, with ids by place.
Lists ==
  UNION {[1..n -> Responses] : n \in 0..MaxResponses}

\* The responses that ask to be acknowledged and were not yet.
ToAcknowledge(list, r) == {i \in Answers(list, r) : list[i].asks} \ acked

\* acknowledge, of every response in the list; the POSTs of those in accepted
\* succeed.
Acknowledge(list) ==
  \E accepted \in SUBSET ToAcknowledge(list, cur) : acked' = acked \cup accepted

\* A good read: judge it, set the grant, and acknowledge the responses.
ReadAnswers ==
  /\ Following /\ ~Over(cur) /\ now >= nextPoll
  /\ nextPoll' = now + Poll
  /\ \E list \in Lists :
       /\ grant' = GrantOf(cur, Judge(list, cur, requests[cur], Grace, now))
       /\ Acknowledge(list)
  /\ pc' = "idle"
  /\ UNCHANGED <<now, requests, cur, stale>>

-----------------------------------------------------------------------------
(* The clock.                                                              *)

Advance ==
  /\ now < MaxTime
  /\ now' = now + 1
  /\ UNCHANGED <<pc, clientVars>>

Next ==
  \/ \E s \in Settings, located \in BOOLEAN, outcome \in Outcomes : Trigger(s, located, outcome)
  \/ \E outcome \in Outcomes : Withdraw(outcome)
  \/ RetryWithdrawals \/ PollNothing \/ Finish \/ ReadFails \/ ReadAnswers
  \/ Advance

Spec == Init /\ [][Next]_vars

\* The ticker keeps calling Poll, and time passes.
Fairness ==
  /\ WF_vars(RetryWithdrawals)
  /\ WF_vars(PollNothing \/ Finish \/ ReadFails \/ ReadAnswers)
  /\ WF_vars(Advance)

FairSpec == Spec /\ Fairness

-----------------------------------------------------------------------------
(* Properties.                                                             *)

Terms == {NoTerms} \cup
         [response: 1..MaxResponses, start: Int, end: Int, energy: Int, power: Nat]

Request == [start: Int, end: Int, energy: Int, power: Nat, located: BOOLEAN,
            withdrawn: BOOLEAN, refused: BOOLEAN, done: BOOLEAN, wanted: BOOLEAN]

\* The state of reserver and dispatcher keeps its shape, no withdrawal is
\* kept twice, and none waits longer than the longest backoff, or, the first
\* time, than a poll interval.
TypeOK ==
  /\ now \in 0..MaxTime /\ pc \in {"idle", "poll"}
  /\ requests \in Seq(Request)
  /\ cur = Len(requests)
  /\ grant \in Terms
  /\ \A s \in stale :
       /\ s.request \in Posted
       /\ s.wait \in Least(Poll, MaxBackoff)..Latest(Poll, MaxBackoff)
       /\ s.next \in Int /\ s.next <= now + s.wait
  /\ \A s, t \in stale : s.request = t.request => s = t
  /\ acked \subseteq 1..MaxResponses

\* setGrant: the batteries are dispatched only under a grant to the request
\* being followed, while that is neither withdrawn nor finished, and only
\* within what it asked for, in its direction.
GrantWithinRequest ==
  grant # NoTerms =>
    LET rq == requests[cur] IN
    /\ cur # 0 /\ ~rq.withdrawn /\ ~rq.done
    /\ rq.start <= grant.start /\ grant.start < grant.end /\ grant.end <= rq.end
    /\ 0 < grant.power /\ grant.power <= rq.power
    /\ 0 < grant.energy * Direction(rq)
    /\ grant.energy * Direction(rq) <= rq.energy * Direction(rq)

\* judge: whatever complete list is read, it leads to a dispatch only if an
\* answer in force to this very request offers something, none in force was
\* created after it, and it is called late exactly if every answer is.
AnswersJudged ==
  Following /\ ~Over(cur) /\ now >= nextPoll =>
    \A list \in Lists :
      LET verdict == Judge(list, cur, requests[cur], Grace, now)
          mine == {list[i] : i \in Answers(list, cur)}
          live == {a \in mine : a.status \notin Ended}
      IN /\ Dispatches(verdict.kind) =>
              \E a \in live :
                /\ a.offer.complete /\ a.offer.duration > 0
                /\ \A b \in live : b.created <= a.created
                /\ verdict.terms.start >= a.offer.start
                /\ verdict.terms.power <= Magnitude(a.offer.power)
                /\ (verdict.kind = "late") =
                     (\A b \in mine : b.created > requests[cur].start + Grace)
         /\ verdict.kind \in {"pending", "expired"} <=> mine = {}
         /\ verdict.kind = "revoked" <=> mine # {} /\ live = {}

\* A request that was replaced or that the operator gave up is withdrawn,
\* refused for good, over, was never locatable, or is kept to be tried again:
\* whatever fails, no capacity is left at the server and forgotten.
WithdrawalKept ==
  \A r \in Posted :
    requests[r].wanted \/ r # cur =>
      \/ requests[r].withdrawn \/ requests[r].refused
      \/ ~requests[r].located
      \/ Over(r)
      \/ Kept(r)

\* A withdrawal kept for a retry does not stay kept for ever.
WithdrawalEnds == \A r \in 1..MaxRequests : Kept(r) ~> ~Kept(r)
=============================================================================
