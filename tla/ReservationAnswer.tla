-------------------------- MODULE ReservationAnswer --------------------------
(***************************************************************************)
(* The pure decisions of a flow reservation, after                         *)
(* cmd/inverterclient/reservation_logic.go: is a request as the operator   *)
(* wants it postable, what does a list of responses answer to it, and      *)
(* which terms does a grant leave.                                         *)
(*                                                                         *)
(* A request and its answers are in one convention, charging positive.     *)
(* Times are instants of the client's clock, intervals include their start *)
(* and exclude their end.                                                  *)
(***************************************************************************)
EXTENDS Integers, Sequences

CONSTANTS MaxEnergy,   \* the largest SignedRealEnergy
          MaxPower,    \* the largest value of an ActivePower before scaling
          MaxStartIn,  \* seconds: the longest lead of a request
          MaxDuration

NoTerms == [response |-> 0]

Magnitude(x) == IF x < 0 THEN -x ELSE x
Least(a, b) == IF a < b THEN a ELSE b
Latest(a, b) == IF a > b THEN a ELSE b

-----------------------------------------------------------------------------
(* Building a request.                                                     *)

Scales == {1, 10, 100, 1000, 10000}

\* A power is carried exactly, as a value times a power of ten, or refused.
FitsActivePower(w) == \E scale \in Scales : w % scale = 0 /\ w \div scale <= MaxPower

\* s: what the operator wants: energy (signed), power, startIn, duration,
\* minLead and grace.
Postable(s) ==
  /\ s.energy # 0
  /\ s.power > 0
  /\ s.duration \in 1..MaxDuration
  /\ s.grace > 0 /\ s.grace < s.duration
  /\ s.startIn <= MaxStartIn
  /\ s.startIn > s.minLead
  /\ Magnitude(s.energy) <= MaxEnergy
  /\ FitsActivePower(s.power)

\* The facts an answer is read against.
Facts(s, t) == [start  |-> t + s.startIn,
                end    |-> t + s.startIn + s.duration,
                energy |-> s.energy,
                power  |-> s.power]

Direction(rq) == IF rq.energy < 0 THEN -1 ELSE 1

-----------------------------------------------------------------------------
(* Reading the answers.  A response is a record of the request it answers  *)
(* (subject), its creationTime, its event status, and what it offers:      *)
(* start, duration, energy and power, or not all of them.  Its mRID is its *)
(* place in the list.                                                      *)

Ended == {"cancelled", "superseded"}

Answers(list, r) == {i \in 1..Len(list) : list[i].subject = r}

\* The smallest creationTime, the earlier in the list of equals.
First(list, r) ==
  CHOOSE i \in Answers(list, r) : \A j \in Answers(list, r) :
    \/ list[i].created < list[j].created
    \/ list[i].created = list[j].created /\ i <= j

Live(list, r) == {i \in Answers(list, r) : list[i].status \notin Ended}

\* Mutant: the oldest live answer counts.
OldestLive(list, r) ==
  CHOOSE i \in Live(list, r) : \A j \in Live(list, r) : list[i].created <= list[j].created

\* effectiveResponse: the largest creationTime, the later in the list of equals.
Effective(list, r) ==
  CHOOSE i \in Live(list, r) : \A j \in Live(list, r) :
    \/ list[i].created > list[j].created
    \/ list[i].created = list[j].created /\ i >= j

\* What is left of an offer within the request.
Start(offer, rq) == Latest(offer.start, rq.start)
End(offer, rq) == Least(offer.start + offer.duration, rq.end)

Usable(offer, rq) ==
  /\ offer.energy # 0 /\ offer.power # 0
  /\ End(offer, rq) > Start(offer, rq)

\* readGrant: the request gives the direction, the grant the magnitudes.
Grant(id, offer, rq) ==
  [response |-> id,
   start  |-> Start(offer, rq),
   end    |-> End(offer, rq),
   energy |-> Direction(rq) * Least(Magnitude(offer.energy), Magnitude(rq.energy)),
   power  |-> Least(Magnitude(offer.power), rq.power)]

Dispatches(kind) == kind \in {"granted", "late"}

Unanswered(rq, grace, now) ==
  [kind |-> IF now < rq.start + grace THEN "pending" ELSE "expired", terms |-> NoTerms]

\* The verdict on the live answer: only the first answer has to be in time.
Read(list, i, late, rq) ==
  LET offer == list[i].offer
      Without(kind) == [kind |-> kind, terms |-> NoTerms]
  IN CASE offer.duration = 0 -> Without("denied")
       [] offer.duration # 0 /\ (~offer.complete \/ ~Usable(offer, rq)) -> Without("invalid")
       [] offer.duration # 0 /\ offer.complete /\ Usable(offer, rq) ->
            [kind |-> IF late THEN "late" ELSE "granted", terms |-> Grant(i, offer, rq)]

Judge(list, r, rq, grace, now) ==
  CASE Answers(list, r) = {} -> Unanswered(rq, grace, now)
    [] Answers(list, r) # {} /\ Live(list, r) = {} -> [kind |-> "revoked", terms |-> NoTerms]
    [] Live(list, r) # {} -> Read(list, Effective(list, r),
                                  list[First(list, r)].created > rq.start + grace, rq)
=============================================================================
