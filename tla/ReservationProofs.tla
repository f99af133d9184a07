-------------------------- MODULE ReservationProofs --------------------------
(***************************************************************************)
(* Proofs about Reservation, for any settings, anything a server may list, *)
(* any number of requests and any intervals.                               *)
(***************************************************************************)
EXTENDS Reservation, WellFoundedInduction, TLAPS

-----------------------------------------------------------------------------
(* The first and the last of a list.                                       *)

LEMMA NatMinimum ==
  ASSUME NEW S \in SUBSET Nat, S # {}
  PROVE  \E m \in S : \A n \in S : m <= n
<1> DEFINE R == {pair \in Nat \X Nat : pair[1] < pair[2]}
<1>1. IsWellFoundedOn(R, Nat)
  BY NatLessThanWellFounded DEF OpToRel
<1>2. PICK m \in S : \A n \in S : ~(<<n, m>> \in R)
  BY <1>1, WFMin, Zenon
<1>3. m \in Nat /\ \A n \in S : n \in Nat
  OBVIOUS
<1>4. \A n \in S : ~(n < m)
  BY <1>2, <1>3
<1> QED BY <1>3, <1>4

\* Under a total order of numbered places each non-empty set of them has a
\* first: the shortest stretch with a set that has none could be shorter still.
LEMMA FirstByOrder ==
  ASSUME NEW n \in Nat, NEW R,
         \A i, j \in 1..n : <<i, j>> \in R \/ <<j, i>> \in R,
         \A i, j, k \in 1..n : <<i, j>> \in R /\ <<j, k>> \in R => <<i, k>> \in R,
         NEW S \in SUBSET (1..n), S # {}
  PROVE  \E i \in S : \A j \in S : <<i, j>> \in R
<1> DEFINE Has(T) == \E i \in T : \A j \in T : <<i, j>> \in R
           Bad == {k \in 0..n : \E T \in SUBSET (1..k) : T # {} /\ ~Has(T)}
<1>1. ASSUME Bad # {}
      PROVE  FALSE
  <2>1. PICK m \in Bad : \A k \in Bad : m <= k
    <3>1. Bad \in SUBSET Nat
      OBVIOUS
    <3> HIDE DEF Bad
    <3> QED BY <1>1, <3>1, NatMinimum
  <2>2. PICK T \in SUBSET (1..m) : T # {} /\ ~Has(T)
    <3> HIDE DEF Has
    <3> QED BY <2>1
  <2>3. m \in 0..n /\ m # 0
    <3>1. m \in 0..n
      <4> HIDE DEF Has
      <4> QED BY <2>1
    <3>2. 1..0 = {}
      OBVIOUS
    <3>3. m # 0
      <4> HIDE DEF Has
      <4> QED BY ONLY <2>2, <3>2
    <3> QED BY ONLY <3>1, <3>3
  <2>4. m - 1 \notin Bad /\ m - 1 \in 0..n
    <3> HIDE DEF Bad
    <3> QED BY <2>1, <2>3
  <2>5. \A U \in SUBSET (1..(m - 1)) : U = {} \/ Has(U)
    BY <2>4
  <2>6. m \in T
    <3>1. T \in SUBSET (1..(m - 1)) \/ m \in T
      BY <2>3
    <3> HIDE DEF Has, Bad
    <3> QED BY <2>2, <2>5, <3>1
  <2>7. T \ {m} \in SUBSET (1..(m - 1)) /\ T \in SUBSET (1..n)
    BY <2>3
  <2>8. <<m, m>> \in R /\ m \in 1..n
    BY <2>6, <2>7
  <2>9. CASE T \ {m} = {}
    <3>1. \A j \in T : j = m
      BY <2>9
    <3> QED BY <2>2, <2>6, <2>8, <3>1
  <2>10. CASE T \ {m} # {}
    <3>1. PICK i \in T \ {m} : \A j \in T \ {m} : <<i, j>> \in R
      BY <2>5, <2>7, <2>10
    <3>2. CASE <<i, m>> \in R
      BY <2>2, <3>1, <3>2
    <3>3. CASE <<m, i>> \in R
      <4>1. \A j \in T : <<m, j>> \in R
        BY <2>7, <2>8, <3>1, <3>3
      <4> QED BY <2>2, <2>6, <4>1
    <3>4. i \in 1..n
      BY <2>7
    <3> QED BY <2>8, <3>2, <3>3, <3>4
  <2> QED BY <2>9, <2>10
<1>2. n \notin Bad
  <2> HIDE DEF Bad
  <2> QED BY <1>1
<1>3. n \in 0..n
  OBVIOUS
<1>4. ~\E T \in SUBSET (1..n) : T # {} /\ ~Has(T)
  <2> HIDE DEF Has
  <2> QED BY <1>2, <1>3
<1> QED BY <1>4

-----------------------------------------------------------------------------
(* What is read of a list of responses.                                    *)

\* The lists a good read may return.
LEMMA ListsHave ==
  ASSUME NEW list \in Lists, NEW r
  PROVE  /\ Len(list) \in 0..MaxResponses
         /\ \A i \in 1..Len(list) : list[i] \in Responses
         /\ Answers(list, r) \subseteq 1..Len(list)
         /\ Answers(list, r) \subseteq 1..MaxResponses
<1>1. PICK n \in 0..MaxResponses : list \in [1..n -> Responses]
  BY DEF Lists
<1>2. MaxResponses \in Nat
  BY ReservationAssumption
<1>3. n \in Nat /\ n <= MaxResponses
  BY <1>2
<1>4. Len(list) = n
  <2>1. list \in Seq(Responses)
    BY <1>1, <1>3
  <2> QED BY <1>1, <1>3, <2>1
<1> QED BY <1>1, <1>2, <1>3, <1>4 DEF Answers

\* readAnswers: the effective answer is the live one created last.
LEMMA EffectiveIsLatest ==
  ASSUME NEW list \in Lists, NEW r, Live(list, r) # {}
  PROVE  /\ Effective(list, r) \in Live(list, r)
         /\ \A j \in Live(list, r) : list[j].created <= list[Effective(list, r)].created
<1> DEFINE n == Len(list)
           Later == {p \in (1..n) \X (1..n) :
                       \/ list[p[1]].created > list[p[2]].created
                       \/ list[p[1]].created = list[p[2]].created /\ p[1] >= p[2]}
<1>1. n \in Nat /\ \A i \in 1..n : list[i].created \in Int
  BY ListsHave, ReservationAssumption
<1>2. \A i, j \in 1..n : <<i, j>> \in Later <=>
         \/ list[i].created > list[j].created
         \/ list[i].created = list[j].created /\ i >= j
  OBVIOUS
<1>3. Live(list, r) \in SUBSET (1..n)
  BY ListsHave DEF Live
<1> HIDE DEF n, Later
<1>4. /\ \A i, j \in 1..n : <<i, j>> \in Later \/ <<j, i>> \in Later
      /\ \A i, j, k \in 1..n : <<i, j>> \in Later /\ <<j, k>> \in Later => <<i, k>> \in Later
  BY <1>1, <1>2
<1>5. PICK i \in Live(list, r) : \A j \in Live(list, r) : <<i, j>> \in Later
  BY <1>1, <1>3, <1>4, FirstByOrder
<1>6. \A j \in Live(list, r) :
         \/ list[i].created > list[j].created
         \/ list[i].created = list[j].created /\ i >= j
  BY <1>2, <1>3, <1>5
<1> DEFINE e == Effective(list, r)
<1>7. e \in Live(list, r) /\ \A j \in Live(list, r) :
         \/ list[e].created > list[j].created
         \/ list[e].created = list[j].created /\ e >= j
  BY <1>6 DEF Effective
<1> HIDE DEF e
<1>8. \A j \in Live(list, r) : list[j].created <= list[e].created
  BY <1>1, <1>3, <1>7
<1> QED BY <1>7, <1>8 DEF e

\* The first answer is the one created first.
LEMMA FirstIsEarliest ==
  ASSUME NEW list \in Lists, NEW r, Answers(list, r) # {}
  PROVE  /\ First(list, r) \in Answers(list, r)
         /\ \A j \in Answers(list, r) : list[First(list, r)].created <= list[j].created
<1> DEFINE n == Len(list)
           Earlier == {p \in (1..n) \X (1..n) :
                         \/ list[p[1]].created < list[p[2]].created
                         \/ list[p[1]].created = list[p[2]].created /\ p[1] <= p[2]}
<1>1. n \in Nat /\ \A i \in 1..n : list[i].created \in Int
  BY ListsHave, ReservationAssumption
<1>2. \A i, j \in 1..n : <<i, j>> \in Earlier <=>
         \/ list[i].created < list[j].created
         \/ list[i].created = list[j].created /\ i <= j
  OBVIOUS
<1>3. Answers(list, r) \in SUBSET (1..n)
  BY ListsHave
<1> HIDE DEF n, Earlier
<1>4. /\ \A i, j \in 1..n : <<i, j>> \in Earlier \/ <<j, i>> \in Earlier
      /\ \A i, j, k \in 1..n :
           <<i, j>> \in Earlier /\ <<j, k>> \in Earlier => <<i, k>> \in Earlier
  BY <1>1, <1>2
<1>5. PICK i \in Answers(list, r) : \A j \in Answers(list, r) : <<i, j>> \in Earlier
  BY <1>1, <1>3, <1>4, FirstByOrder
<1>6. \A j \in Answers(list, r) :
         \/ list[i].created < list[j].created
         \/ list[i].created = list[j].created /\ i <= j
  BY <1>2, <1>3, <1>5
<1> DEFINE e == First(list, r)
<1>7. e \in Answers(list, r) /\ \A j \in Answers(list, r) :
         \/ list[e].created < list[j].created
         \/ list[e].created = list[j].created /\ e <= j
  BY <1>6 DEF First
<1> HIDE DEF e
<1>8. \A j \in Answers(list, r) : list[e].created <= list[j].created
  BY <1>1, <1>3, <1>7
<1> QED BY <1>7, <1>8 DEF e

-----------------------------------------------------------------------------
(* What a verdict offers.                                                  *)

\* A request as Trigger posts it: some energy, at some power.
AsPosted(rq) == rq \in Request /\ rq.energy # 0 /\ rq.power > 0

\* terms lie within the request, in its direction.
Within(terms, rq) ==
  /\ rq.start <= terms.start /\ terms.start < terms.end /\ terms.end <= rq.end
  /\ 0 < terms.power /\ terms.power <= rq.power
  /\ 0 < terms.energy * Direction(rq)
  /\ terms.energy * Direction(rq) <= rq.energy * Direction(rq)

\* readGrant: what is left of a usable offer lies within the request.
LEMMA GrantFits ==
  ASSUME NEW rq, AsPosted(rq), NEW offer, NEW id \in 1..MaxResponses, Usable(offer, rq),
         {offer.start, offer.energy, offer.power} \subseteq Int, offer.duration \in Nat
  PROVE  /\ Grant(id, offer, rq) \in Terms
         /\ Within(Grant(id, offer, rq), rq)
         /\ Grant(id, offer, rq).start >= offer.start
         /\ Grant(id, offer, rq).power <= Magnitude(offer.power)
<1>1. /\ rq.start \in Int /\ rq.end \in Int /\ rq.energy \in Int /\ rq.power \in Nat
      /\ rq.energy # 0 /\ rq.power > 0
      /\ offer.start \in Int /\ offer.duration \in Nat
      /\ offer.energy \in Int /\ offer.power \in Int /\ offer.energy # 0 /\ offer.power # 0
  BY DEF AsPosted, Request, Usable
<1> DEFINE start == Start(offer, rq)
           end == End(offer, rq)
           power == Least(Magnitude(offer.power), rq.power)
           size == Least(Magnitude(offer.energy), Magnitude(rq.energy))
<1>2. /\ start \in Int /\ start >= rq.start /\ start >= offer.start
      /\ end \in Int /\ end <= rq.end /\ start < end
  BY <1>1 DEF Start, End, Latest, Least, Usable
<1>3. power \in Nat /\ 0 < power /\ power <= rq.power /\ power <= Magnitude(offer.power)
  BY <1>1 DEF Least, Magnitude
<1>4. size \in Int /\ 0 < size /\ size <= Magnitude(rq.energy)
  BY <1>1 DEF Least, Magnitude
<1> HIDE DEF start, end, power, size
<1>5. /\ Direction(rq) * size \in Int
      /\ (Direction(rq) * size) * Direction(rq) = size
      /\ rq.energy * Direction(rq) = Magnitude(rq.energy)
  <2>1. CASE rq.energy < 0
    BY <1>1, <1>4, <2>1 DEF Direction, Magnitude
  <2>2. CASE ~(rq.energy < 0)
    BY <1>1, <1>4, <2>2 DEF Direction, Magnitude
  <2> QED BY <2>1, <2>2
<1>6. Grant(id, offer, rq) = [response |-> id, start |-> start, end |-> end,
                              energy |-> Direction(rq) * size, power |-> power]
  BY DEF Grant, start, end, power, size
<1> QED BY <1>2, <1>3, <1>4, <1>5, <1>6 DEF Terms, Within

\* judge: what a verdict comes from, and what it offers.
LEMMA VerdictFits ==
  ASSUME NEW list \in Lists, NEW r, NEW rq, AsPosted(rq), NEW t \in Int
  PROVE  LET verdict == Judge(list, r, rq, Grace, t)
             offer == list[Effective(list, r)].offer
         IN  /\ verdict.kind \in {"pending", "expired"} <=> Answers(list, r) = {}
             /\ verdict.kind = "revoked" <=> Answers(list, r) # {} /\ Live(list, r) = {}
             /\ Dispatches(verdict.kind) =>
                  /\ Live(list, r) # {} /\ offer.complete /\ offer.duration > 0
                  /\ verdict.terms \in Terms /\ Within(verdict.terms, rq)
                  /\ verdict.terms.start >= offer.start
                  /\ verdict.terms.power <= Magnitude(offer.power)
                  /\ verdict.kind = "late" <=>
                       list[First(list, r)].created > rq.start + Grace
<1> DEFINE verdict == Judge(list, r, rq, Grace, t)
           offer == list[Effective(list, r)].offer
           late == list[First(list, r)].created > rq.start + Grace
<1>1. Live(list, r) \subseteq Answers(list, r)
  BY DEF Live
<1>2. CASE Answers(list, r) = {}
  <2>1. verdict = Unanswered(rq, Grace, t)
    BY <1>1, <1>2 DEF Judge
  <2>2. verdict.kind \in {"pending", "expired"}
    BY <2>1 DEF Unanswered
  <2> QED BY <1>2, <2>2 DEF Dispatches
<1>3. CASE Answers(list, r) # {} /\ Live(list, r) = {}
  <2>1. verdict = [kind |-> "revoked", terms |-> NoTerms]
    BY <1>3 DEF Judge
  <2> QED BY <1>3, <2>1 DEF Dispatches
<1>4. CASE Live(list, r) # {}
  <2>1. verdict = Read(list, Effective(list, r), late, rq)
    BY <1>1, <1>4 DEF Judge
  <2>2. Effective(list, r) \in 1..Len(list) /\ Effective(list, r) \in 1..MaxResponses
    BY <1>1, <1>4, EffectiveIsLatest, ListsHave
  <2>3. /\ {offer.start, offer.energy, offer.power} \subseteq Int
        /\ offer.duration \in Nat /\ offer.complete \in BOOLEAN
    BY <2>2, ListsHave, ReservationAssumption
  <2>4. CASE offer.duration = 0
    <3>1. verdict = [kind |-> "denied", terms |-> NoTerms]
      BY <2>1, <2>4 DEF Read
    <3> QED BY <1>1, <1>4, <3>1 DEF Dispatches
  <2>5. CASE offer.duration # 0 /\ (~offer.complete \/ ~Usable(offer, rq))
    <3>1. verdict = [kind |-> "invalid", terms |-> NoTerms]
      BY <2>1, <2>5 DEF Read
    <3> QED BY <1>1, <1>4, <3>1 DEF Dispatches
  <2>6. CASE offer.duration # 0 /\ offer.complete /\ Usable(offer, rq)
    <3>1. verdict = [kind |-> IF late THEN "late" ELSE "granted",
                     terms |-> Grant(Effective(list, r), offer, rq)]
      BY <2>1, <2>6 DEF Read
    <3>2. /\ verdict.terms = Grant(Effective(list, r), offer, rq)
          /\ verdict.kind \in {"late", "granted"} /\ (verdict.kind = "late" <=> late)
      <4> HIDE DEF verdict, late
      <4> QED BY <3>1
    <3>3. /\ verdict.terms \in Terms /\ Within(verdict.terms, rq)
          /\ verdict.terms.start >= offer.start
          /\ verdict.terms.power <= Magnitude(offer.power)
      <4> HIDE DEF verdict, late, offer
      <4> QED BY <2>2, <2>3, <2>6, <3>2, GrantFits
    <3>4. offer.duration > 0
      BY <2>3, <2>6
    <3> HIDE DEF verdict, late, offer
    <3>5. /\ verdict.kind \in {"pending", "expired"} <=> Answers(list, r) = {}
          /\ verdict.kind = "revoked" <=> Answers(list, r) # {} /\ Live(list, r) = {}
      BY <1>1, <1>4, <3>2
    <3> QED BY <1>4, <2>6, <3>2, <3>3, <3>4, <3>5 DEF verdict, late, offer
  <2> QED BY <2>3, <2>4, <2>5, <2>6
<1> QED BY <1>1, <1>2, <1>3, <1>4

-----------------------------------------------------------------------------
(* The inductive invariant.                                                *)

\* Every request is as it was posted, and is finished only when it is over.
RequestInv ==
  \A r \in Posted : AsPosted(requests[r]) /\ (requests[r].done => Over(r))

\* GrantWithinRequest, of the request that is followed.
GrantInv ==
  grant # NoTerms =>
    /\ cur # 0 /\ ~requests[cur].withdrawn /\ ~requests[cur].done
    /\ Within(grant, requests[cur])

IInv == TypeOK /\ RequestInv /\ GrantInv /\ WithdrawalKept

LEMMA InitInv == Init => IInv
<1> SUFFICES ASSUME Init PROVE IInv
  OBVIOUS
<1>1. requests = <<>> /\ Len(requests) = 0 /\ requests \in Seq(Request) /\ Posted = {}
  BY DEF Init, Posted
<1>2. TypeOK
  BY <1>1, ReservationAssumption DEF Init, TypeOK, Terms
<1> QED BY <1>1, <1>2
        DEF Init, IInv, RequestInv, GrantInv, WithdrawalKept

-----------------------------------------------------------------------------
(* Withdrawing.                                                            *)

\* The requests after a withdrawal of r that ended with outcome, wanted or not:
\* only what the PUT says of r has changed.
LEMMA PutLeaves ==
  ASSUME TypeOK, NEW r \in Posted, NEW outcome \in Outcomes
  PROVE  LET after == [AfterPut(r, outcome) EXCEPT ![r].wanted = TRUE] IN
         /\ after \in Seq(Request) /\ Len(after) = Len(requests)
         /\ \A q \in Posted \ {r} : after[q] = requests[q]
         /\ after[r] = [requests[r] EXCEPT
              !.withdrawn = IF Withdrawable(r) THEN outcome = "ok" ELSE @,
              !.refused   = @ \/ (Withdrawable(r) /\ outcome = "permanent"),
              !.wanted    = TRUE]
<1> DEFINE n == Len(requests)
           after == [AfterPut(r, outcome) EXCEPT ![r].wanted = TRUE]
<1>1. /\ n \in Nat /\ requests \in [1..n -> Request] /\ r \in 1..n
      /\ requests[r] \in Request
  BY DEF TypeOK, Posted
<1> DEFINE new == [requests[r] EXCEPT
              !.withdrawn = IF Withdrawable(r) THEN outcome = "ok" ELSE @,
              !.refused   = @ \/ (Withdrawable(r) /\ outcome = "permanent"),
              !.wanted    = TRUE]
<1>2. new \in Request
  BY <1>1 DEF Request
<1>3. after = [q \in 1..n |-> IF q = r THEN new ELSE requests[q]]
  <2>1. CASE ~Withdrawable(r)
    <3>1. after = [requests EXCEPT ![r].wanted = TRUE]
      BY <2>1 DEF AfterPut
    <3>2. (requests[r].refused \/ (Withdrawable(r) /\ outcome = "permanent")) = requests[r].refused
      BY <1>1, <2>1 DEF Request
    <3>3. new = [requests[r] EXCEPT !.wanted = TRUE]
      BY <1>1, <2>1, <3>2 DEF Request
    <3> HIDE DEF new
    <3> QED BY <1>1, <3>1, <3>3
  <2>2. CASE Withdrawable(r)
    <3>1. AfterPut(r, outcome) =
            [q \in 1..n |-> IF q = r
                             THEN [requests[r] EXCEPT !.withdrawn = (outcome = "ok"),
                                                      !.refused   = @ \/ outcome = "permanent"]
                             ELSE requests[q]]
      BY <1>1, <2>2 DEF AfterPut
    <3> QED BY <1>1, <2>2, <3>1 DEF Request
  <2> QED BY <2>1, <2>2
<1> HIDE DEF new, after
<1>4. after \in [1..n -> Request]
  BY <1>1, <1>2, <1>3
<1>5. after \in Seq(Request) /\ Len(after) = n
  BY <1>1, <1>4
<1>6. after[r] = new /\ \A q \in 1..n \ {r} : after[q] = requests[q]
  BY <1>1, <1>3
<1> QED BY <1>5, <1>6 DEF after, new, Posted

KeptAs(s, t) ==
  /\ s.request \in Posted
  /\ s.wait \in Least(Poll, MaxBackoff)..Latest(Poll, MaxBackoff)
  /\ s.next \in Int /\ s.next <= t + s.wait

\* A withdrawal that failed is kept, and none is kept twice.
LEMMA RetryKeeps ==
  ASSUME TypeOK, NEW r \in Posted, NEW outcome \in Outcomes
  PROVE  LET later == RetryLater(r, outcome) IN
         /\ stale \subseteq later
         /\ \A s \in later : KeptAs(s, now)
         /\ \A s, t \in later : s.request = t.request => s = t
         /\ Withdrawable(r) /\ outcome = "failed" => \E s \in later : s.request = r
<1> DEFINE added == [request |-> r, next |-> now + Poll, wait |-> Poll]
<1>1. \A s \in stale : KeptAs(s, now)
  BY DEF TypeOK, KeptAs
<1>2. \A s, t \in stale : s.request = t.request => s = t
  BY DEF TypeOK
<1>3. now \in Int /\ Poll \in Nat /\ MaxBackoff \in Nat
  BY ReservationAssumption DEF TypeOK
<1>4. KeptAs(added, now) /\ added.request = r
  BY <1>3 DEF KeptAs, Least, Latest
<1> HIDE DEF added
<1>5. CASE Withdrawable(r) /\ outcome = "failed" /\ ~Kept(r)
  <2>1. RetryLater(r, outcome) = stale \cup {added}
    BY <1>5 DEF RetryLater, added
  <2>2. \A s \in stale : s.request # r
    BY <1>5 DEF Kept
  <2> QED BY <1>1, <1>2, <1>4, <2>1, <2>2
<1>6. CASE ~(Withdrawable(r) /\ outcome = "failed" /\ ~Kept(r))
  <2>1. RetryLater(r, outcome) = stale
    BY <1>6 DEF RetryLater
  <2> QED BY <1>1, <1>2, <1>6, <2>1 DEF Kept
<1> QED BY <1>5, <1>6

\* After a withdrawal of the followed request, however its PUT ended, no
\* request is left at the server and forgotten.
LEMMA NoneForgotten ==
  ASSUME IInv, cur # 0, NEW outcome \in Outcomes
  PROVE  LET after == [AfterPut(cur, outcome) EXCEPT ![cur].wanted = TRUE]
             later == RetryLater(cur, outcome)
         IN  /\ after \in Seq(Request) /\ Len(after) = Len(requests) /\ cur \in Posted
             /\ \A q \in Posted : AsPosted(after[q]) /\ (after[q].done => now >= after[q].end + Grace)
             /\ \A q \in Posted :
                  \/ after[q].withdrawn \/ after[q].refused \/ ~after[q].located
                  \/ now >= after[q].end + Grace \/ \E s \in later : s.request = q
             /\ after[cur].done = requests[cur].done
             /\ \A terms : Within(terms, after[cur]) <=> Within(terms, requests[cur])
<1> DEFINE after == [AfterPut(cur, outcome) EXCEPT ![cur].wanted = TRUE]
           later == RetryLater(cur, outcome)
<1>1. cur \in Posted
  BY DEF IInv, TypeOK, Posted
<1>2. /\ after \in Seq(Request) /\ Len(after) = Len(requests)
      /\ \A q \in Posted \ {cur} : after[q] = requests[q]
      /\ after[cur] = [requests[cur] EXCEPT
           !.withdrawn = IF Withdrawable(cur) THEN outcome = "ok" ELSE @,
           !.refused   = @ \/ (Withdrawable(cur) /\ outcome = "permanent"),
           !.wanted    = TRUE]
  BY <1>1, PutLeaves DEF IInv
<1>3. /\ stale \subseteq later
      /\ Withdrawable(cur) /\ outcome = "failed" => \E s \in later : s.request = cur
  BY <1>1, RetryKeeps DEF IInv
<1> HIDE DEF after, later
<1>4. \A q \in Posted : requests[q] \in Request /\ AsPosted(requests[q])
                       /\ (requests[q].done => now >= requests[q].end + Grace)
  BY DEF IInv, RequestInv, AsPosted, Over
<1>5. /\ after[cur].start = requests[cur].start /\ after[cur].end = requests[cur].end
      /\ after[cur].energy = requests[cur].energy /\ after[cur].power = requests[cur].power
      /\ after[cur].located = requests[cur].located /\ after[cur].done = requests[cur].done
      /\ after[cur].withdrawn = IF Withdrawable(cur) THEN outcome = "ok" ELSE requests[cur].withdrawn
      /\ after[cur].refused = (requests[cur].refused \/ (Withdrawable(cur) /\ outcome = "permanent"))
      /\ after[cur] \in Request
  <2>1. requests[cur] \in Request
    BY <1>1, <1>4
  <2>2. after[cur] \in Request
    BY <1>2, <2>1 DEF Request
  <2> QED BY <1>2, <2>1, <2>2 DEF Request
<1>6. ASSUME NEW q \in Posted
      PROVE  AsPosted(after[q]) /\ (after[q].done => now >= after[q].end + Grace)
  <2>1. CASE q = cur
    BY <1>4, <1>5, <2>1 DEF AsPosted
  <2>2. CASE q # cur
    BY <1>2, <1>4, <2>2
  <2> QED BY <2>1, <2>2
<1>7. ASSUME NEW q \in Posted
      PROVE  \/ after[q].withdrawn \/ after[q].refused \/ ~after[q].located
             \/ now >= after[q].end + Grace \/ \E s \in later : s.request = q
  <2>1. CASE q # cur
    <3>1. \/ requests[q].withdrawn \/ requests[q].refused \/ ~requests[q].located
          \/ Over(q) \/ Kept(q)
      BY <2>1 DEF IInv, WithdrawalKept
    <3> QED BY <1>2, <1>3, <2>1, <3>1 DEF Over, Kept
  <2>2. CASE q = cur /\ ~Withdrawable(cur)
    BY <1>1, <1>4, <1>5, <2>2 DEF Withdrawable
  <2>3. CASE q = cur /\ Withdrawable(cur)
    BY <1>3, <1>5, <2>3 DEF Outcomes
  <2> QED BY <2>1, <2>2, <2>3
<1>8. \A terms : Within(terms, after[cur]) <=> Within(terms, requests[cur])
  BY <1>5 DEF Within, Direction
<1> QED BY <1>1, <1>2, <1>5, <1>6, <1>7, <1>8 DEF after, later

\* Another signal withdraws the request before and begins anew.
LEMMA TriggerInv ==
  ASSUME IInv, NEW s \in Settings, NEW located \in BOOLEAN, NEW outcome \in Outcomes,
         Trigger(s, located, outcome)
  PROVE  IInv'
<1> DEFINE new == NewRequest(s, located)
           n == Len(requests)
<1>1. /\ UNCHANGED <<now, pc>>
      /\ Postable(s) /\ cur' = n + 1 /\ grant' = NoTerms /\ acked' = {}
  BY DEF Trigger
<1>2. AsPosted(new) /\ ~new.done /\ ~new.wanted
  <2>1. {s.energy, s.power, s.startIn, s.duration} \subseteq Int /\ now \in Int
    BY ReservationAssumption DEF IInv, TypeOK
  <2> QED BY <1>1, <2>1 DEF NewRequest, Facts, AsPosted, Request, Postable
<1> HIDE DEF new
<1>3. PICK before, later :
        /\ before \in Seq(Request)
        /\ requests' = Append(before, new) /\ stale' = later
        /\ Len(before) = n
        /\ \A t \in later : KeptAs(t, now)
        /\ \A t, u \in later : t.request = u.request => t = u
        /\ \A q \in Posted : AsPosted(before[q]) /\ (before[q].done => now >= before[q].end + Grace)
        /\ \A q \in Posted :
             \/ before[q].withdrawn \/ before[q].refused \/ ~before[q].located
             \/ now >= before[q].end + Grace \/ \E t \in later : t.request = q
  <2>1. CASE cur = 0
    <3>1. Posted = {} /\ stale = {} /\ requests \in Seq(Request)
      BY <2>1 DEF IInv, TypeOK, Posted
    <3>2. requests' = Append(requests, new) /\ stale' = stale
      BY <2>1 DEF Trigger, new
    <3>3. /\ \A t \in stale : KeptAs(t, now)
          /\ \A t, u \in stale : t.request = u.request => t = u
          /\ \A q \in Posted :
               AsPosted(requests[q]) /\ (requests[q].done => now >= requests[q].end + Grace)
          /\ \A q \in Posted :
               \/ requests[q].withdrawn \/ requests[q].refused \/ ~requests[q].located
               \/ now >= requests[q].end + Grace \/ \E t \in stale : t.request = q
      BY <3>1
    <3> QED BY <3>1, <3>2, <3>3, Zenon
  <2>2. CASE cur # 0
    <3> DEFINE after == [AfterPut(cur, outcome) EXCEPT ![cur].wanted = TRUE]
    <3>1. requests' = Append(after, new) /\ stale' = RetryLater(cur, outcome)
      BY <2>2 DEF Trigger, new
    <3>2. /\ after \in Seq(Request) /\ Len(after) = n /\ cur \in Posted
          /\ \A q \in Posted : AsPosted(after[q]) /\ (after[q].done => now >= after[q].end + Grace)
          /\ \A q \in Posted :
               \/ after[q].withdrawn \/ after[q].refused \/ ~after[q].located
               \/ now >= after[q].end + Grace
               \/ \E t \in RetryLater(cur, outcome) : t.request = q
      BY <2>2, NoneForgotten
    <3>3. /\ \A t \in RetryLater(cur, outcome) : KeptAs(t, now)
          /\ \A t, u \in RetryLater(cur, outcome) : t.request = u.request => t = u
      BY <3>2, RetryKeeps DEF IInv
    <3> HIDE DEF after
    <3> QED BY <3>1, <3>2, <3>3
  <2> QED BY <2>1, <2>2
<1>4. /\ n \in Nat /\ Len(requests') = n + 1 /\ requests' \in Seq(Request)
      /\ requests'[n + 1] = new /\ \A q \in 1..n : requests'[q] = before[q]
  <2>1. new \in Request /\ requests \in Seq(Request)
    BY <1>2 DEF AsPosted, IInv, TypeOK
  <2> QED BY <1>3, <2>1
<1>5. Posted = 1..n /\ Posted' = 1..(n + 1)
  BY <1>4 DEF Posted
<1>6. TypeOK'
  <2>1. now \in Int
    BY ReservationAssumption DEF IInv, TypeOK
  <2>2. \A t \in stale' : /\ t.request \in Posted'
                           /\ t.wait \in Least(Poll, MaxBackoff)..Latest(Poll, MaxBackoff)
                           /\ t.next \in Int /\ t.next <= now' + t.wait
    BY <1>1, <1>3, <1>4, <1>5 DEF KeptAs
  <2>3. grant' \in Terms /\ acked' \subseteq 1..MaxResponses
    BY <1>1 DEF Terms
  <2> QED BY <1>1, <1>3, <1>4, <2>2, <2>3 DEF IInv, TypeOK
<1>7. RequestInv'
  <2>1. ASSUME NEW q \in 1..(n + 1)
        PROVE  AsPosted(requests'[q]) /\ (requests'[q].done => now' >= requests'[q].end + Grace)
    <3>1. CASE q = n + 1
      BY <1>2, <1>4, <3>1
    <3>2. CASE q \in 1..n
      BY <1>1, <1>3, <1>4, <1>5, <3>2
    <3> QED BY <1>4, <3>1, <3>2
  <2> QED BY <1>5, <2>1 DEF RequestInv, Over
<1>8. WithdrawalKept'
  <2>1. ASSUME NEW q \in 1..(n + 1), requests'[q].wanted \/ q # cur'
        PROVE  \/ requests'[q].withdrawn \/ requests'[q].refused \/ ~requests'[q].located
               \/ now' >= requests'[q].end + Grace \/ \E t \in stale' : t.request = q
    <3>1. q \in 1..n
      BY <1>1, <1>2, <1>4, <2>1
    <3> QED BY <1>1, <1>3, <1>4, <1>5, <3>1
  <2> QED BY <1>5, <2>1 DEF WithdrawalKept, Over, Kept
<1>9. GrantInv'
  BY <1>1 DEF GrantInv, IInv
<1> QED BY <1>6, <1>7, <1>8, <1>9 DEF IInv

\* The operator gives the request up.
LEMMA WithdrawInv ==
  ASSUME IInv, NEW outcome \in Outcomes, Withdraw(outcome)
  PROVE  IInv'
<1> DEFINE after == [AfterPut(cur, outcome) EXCEPT ![cur].wanted = TRUE]
<1>1. /\ UNCHANGED <<now, pc, cur, acked>>
      /\ cur # 0 /\ ~requests[cur].done
      /\ requests' = after /\ stale' = RetryLater(cur, outcome)
      /\ grant' \in {grant, NoTerms}
      /\ grant' # NoTerms => ~requests'[cur].withdrawn
  BY DEF Withdraw
<1>2. /\ after \in Seq(Request) /\ Len(after) = Len(requests) /\ cur \in Posted
      /\ \A q \in Posted : AsPosted(after[q]) /\ (after[q].done => now >= after[q].end + Grace)
      /\ \A q \in Posted :
           \/ after[q].withdrawn \/ after[q].refused \/ ~after[q].located
           \/ now >= after[q].end + Grace
           \/ \E t \in RetryLater(cur, outcome) : t.request = q
      /\ after[cur].done = requests[cur].done
      /\ \A terms : Within(terms, after[cur]) <=> Within(terms, requests[cur])
  BY <1>1, NoneForgotten
<1>3. /\ \A t \in RetryLater(cur, outcome) : KeptAs(t, now)
      /\ \A t, u \in RetryLater(cur, outcome) : t.request = u.request => t = u
  BY <1>2, RetryKeeps DEF IInv
<1> HIDE DEF after
<1>4. Posted' = Posted
  BY <1>1, <1>2 DEF Posted
<1>5. TypeOK'
  <2>1. \A t \in stale' : /\ t.request \in Posted'
                           /\ t.wait \in Least(Poll, MaxBackoff)..Latest(Poll, MaxBackoff)
                           /\ t.next \in Int /\ t.next <= now' + t.wait
    BY <1>1, <1>3, <1>4 DEF KeptAs
  <2>2. grant' \in Terms
    BY <1>1 DEF IInv, TypeOK, Terms
  <2> QED BY <1>1, <1>2, <1>3, <2>1, <2>2 DEF IInv, TypeOK
<1>6. RequestInv'
  BY <1>1, <1>2, <1>4 DEF RequestInv, Over
<1>7. WithdrawalKept'
  BY <1>1, <1>2, <1>4 DEF WithdrawalKept, Over, Kept
<1>8. GrantInv'
  BY <1>1, <1>2 DEF IInv, GrantInv
<1> QED BY <1>5, <1>6, <1>7, <1>8 DEF IInv

-----------------------------------------------------------------------------
(* Polling.                                                                *)

\* What a kept withdrawal comes to, given how its attempt would end.
LEMMA RetryComesTo ==
  ASSUME IInv, NEW s \in stale, NEW outcome \in Outcomes
  PROVE  /\ \A t \in Retried(s, outcome) : t.request = s.request /\ KeptAs(t, now)
         /\ \A t, u \in Retried(s, outcome) : t = u
         /\ \/ Retried(s, outcome) # {}
            \/ requests[s.request].withdrawn \/ Over(s.request)
            \/ Due(s) /\ outcome \in {"ok", "permanent"}
<1>1. KeptAs(s, now) /\ now \in Int
  BY ReservationAssumption DEF IInv, TypeOK, KeptAs
<1>2. CASE requests[s.request].withdrawn \/ Over(s.request)
  <2>1. Retried(s, outcome) = {}
    BY <1>2 DEF Retried, Due
  <2> QED BY <1>2, <2>1
<1>3. CASE ~(requests[s.request].withdrawn \/ Over(s.request)) /\ now < s.next
  <2>1. ~Due(s)
    BY <1>1, <1>3 DEF Due, KeptAs
  <2>2. Retried(s, outcome) = {s}
    BY <1>3, <2>1 DEF Retried
  <2> QED BY <1>1, <2>2
<1>4. CASE ~(requests[s.request].withdrawn \/ Over(s.request)) /\ now >= s.next
  <2>1. Due(s) /\ ~(now < s.next)
    BY <1>1, <1>4 DEF Due, KeptAs
  <2>2. Retried(s, outcome) = IF outcome \in {"ok", "permanent"} THEN {} ELSE {TriedAgain(s)}
    BY <1>4, <2>1 DEF Retried
  <2>3. KeptAs(TriedAgain(s), now) /\ TriedAgain(s).request = s.request
    <3>1. /\ Poll \in Nat /\ MaxBackoff \in Nat /\ s.wait \in Nat
          /\ Least(Poll, MaxBackoff) <= s.wait
      BY <1>1, ReservationAssumption DEF KeptAs, Least, Latest
    <3>2. Least(2 * s.wait, MaxBackoff) \in Least(Poll, MaxBackoff)..Latest(Poll, MaxBackoff)
      BY <3>1 DEF Least, Latest
    <3>3. Least(2 * s.wait, MaxBackoff) \in Int
      BY <3>1 DEF Least
    <3> QED BY <1>1, <3>2, <3>3 DEF TriedAgain, KeptAs
  <2> QED BY <2>1, <2>2, <2>3
<1> QED BY <1>1, <1>2, <1>3, <1>4 DEF KeptAs

\* The withdrawals that are due: what is not kept any more need not be.
LEMMA RetryWithdrawalsInv == IInv /\ RetryWithdrawals => IInv'
<1> SUFFICES ASSUME IInv, RetryWithdrawals PROVE IInv'
  OBVIOUS
<1>1. PICK outcome \in [DueRequests -> Outcomes] :
        LET accepted == {r \in DueRequests : outcome[r] = "ok"}
            refused  == {r \in DueRequests : outcome[r] = "permanent"}
            ResultOf(s) == Retried(s, IF Due(s) THEN outcome[s.request] ELSE "failed")
        IN /\ requests' = [r \in Posted |->
                             [requests[r] EXCEPT !.withdrawn = @ \/ r \in accepted,
                                                 !.refused   = @ \/ r \in refused]]
           /\ stale' = UNION {ResultOf(s) : s \in stale}
           /\ grant' = GrantAfter(accepted)
  BY DEF RetryWithdrawals
<1> DEFINE accepted == {r \in DueRequests : outcome[r] = "ok"}
           refused  == {r \in DueRequests : outcome[r] = "permanent"}
           end(s) == IF Due(s) THEN outcome[s.request] ELSE "failed"
<1>2. UNCHANGED <<now, cur, acked>> /\ pc' = "poll"
  BY DEF RetryWithdrawals
<1>3. /\ requests' = [r \in Posted |->
                        [requests[r] EXCEPT !.withdrawn = @ \/ r \in accepted,
                                            !.refused   = @ \/ r \in refused]]
      /\ stale' = UNION {Retried(s, end(s)) : s \in stale}
      /\ grant' = IF cur \in accepted THEN NoTerms ELSE grant
  BY <1>1 DEF GrantAfter
<1>4. \A s \in stale : end(s) \in Outcomes /\ (Due(s) => s.request \in DueRequests)
  BY DEF DueRequests, Outcomes
<1>5. ASSUME NEW s \in stale, Due(s), end(s) \in {"ok", "permanent"}
      PROVE  s.request \in accepted \/ s.request \in refused
  BY <1>4, <1>5
<1> HIDE DEF accepted, refused, end
<1>6. ASSUME NEW r \in Posted
      PROVE  /\ requests'[r] \in Request
             /\ requests'[r].start = requests[r].start /\ requests'[r].end = requests[r].end
             /\ requests'[r].energy = requests[r].energy /\ requests'[r].power = requests[r].power
             /\ requests'[r].located = requests[r].located /\ requests'[r].done = requests[r].done
             /\ requests'[r].wanted = requests[r].wanted
             /\ requests'[r].withdrawn = (requests[r].withdrawn \/ r \in accepted)
             /\ requests'[r].refused = (requests[r].refused \/ r \in refused)
  <2>1. requests[r] \in Request
    BY DEF IInv, RequestInv, AsPosted
  <2>2. requests'[r] = [requests[r] EXCEPT !.withdrawn = @ \/ r \in accepted,
                                           !.refused   = @ \/ r \in refused]
    BY <1>3
  <2> QED BY <2>1, <2>2 DEF Request
<1>7. requests' \in Seq(Request) /\ Len(requests') = Len(requests) /\ Posted' = Posted
  <2>1. Len(requests) \in Nat
    BY DEF IInv, TypeOK
  <2>2. requests' \in [1..Len(requests) -> Request]
    BY <1>3, <1>6 DEF Posted
  <2>3. requests' \in Seq(Request) /\ Len(requests') = Len(requests)
    BY <2>1, <2>2
  <2> QED BY <2>3 DEF Posted
<1>8. ASSUME NEW t \in stale'
      PROVE  \E s \in stale : t \in Retried(s, end(s)) /\ t.request = s.request /\ KeptAs(t, now)
  <2>1. PICK s \in stale : t \in Retried(s, end(s))
    BY <1>3, <1>8
  <2> QED BY <1>4, <2>1, RetryComesTo
<1>9. ASSUME NEW t \in stale', NEW u \in stale', t.request = u.request
      PROVE  t = u
  <2>1. PICK s \in stale : t \in Retried(s, end(s)) /\ t.request = s.request
    BY <1>8
  <2>2. PICK v \in stale : u \in Retried(v, end(v)) /\ u.request = v.request
    BY <1>8
  <2>3. s = v
    BY <1>9, <2>1, <2>2 DEF IInv, TypeOK
  <2>4. end(s) \in Outcomes
    BY <1>4
  <2> QED BY <2>1, <2>2, <2>3, <2>4, RetryComesTo
<1>10. TypeOK'
  <2>1. \A t \in stale' : /\ t.request \in Posted'
                           /\ t.wait \in Least(Poll, MaxBackoff)..Latest(Poll, MaxBackoff)
                           /\ t.next \in Int /\ t.next <= now' + t.wait
    BY <1>2, <1>7, <1>8 DEF KeptAs
  <2>2. grant' \in Terms
    BY <1>3 DEF IInv, TypeOK, Terms
  <2> QED BY <1>2, <1>7, <1>9, <2>1, <2>2 DEF IInv, TypeOK
<1>11. RequestInv'
  BY <1>2, <1>6, <1>7 DEF IInv, RequestInv, AsPosted, Over
<1>12. GrantInv'
  <2> SUFFICES ASSUME grant' # NoTerms
               PROVE  cur' # 0 /\ ~requests'[cur].withdrawn /\ ~requests'[cur].done
                      /\ Within(grant', requests'[cur])
    BY <1>2 DEF GrantInv
  <2>1. cur \notin accepted /\ grant' = grant
    BY <1>3
  <2>2. cur \in Posted /\ cur # 0
    BY <2>1 DEF IInv, GrantInv, TypeOK, Posted
  <2> QED BY <1>2, <1>6, <2>1, <2>2 DEF IInv, GrantInv, Within, Direction
<1>13. WithdrawalKept'
  <2> SUFFICES ASSUME NEW r \in Posted, requests[r].wanted \/ r # cur
               PROVE  \/ requests'[r].withdrawn \/ requests'[r].refused
                      \/ ~requests'[r].located \/ now >= requests'[r].end + Grace
                      \/ \E t \in stale' : t.request = r
    BY <1>2, <1>6, <1>7 DEF WithdrawalKept, Over, Kept
  <2>1. CASE \/ requests[r].withdrawn \/ requests[r].refused
             \/ ~requests[r].located \/ Over(r)
    BY <1>6, <2>1 DEF Over
  <2>2. CASE Kept(r)
    <3>1. PICK s \in stale : s.request = r
      BY <2>2 DEF Kept
    <3>2. CASE Retried(s, end(s)) # {}
      <4>1. PICK t \in Retried(s, end(s)) : t \in stale'
        BY <1>3, <3>2
      <4> QED BY <1>4, <3>1, <4>1, RetryComesTo
    <3>3. CASE Due(s) /\ end(s) \in {"ok", "permanent"}
      BY <1>5, <1>6, <3>1, <3>3
    <3>4. CASE requests[r].withdrawn \/ Over(r)
      BY <1>6, <3>4 DEF Over
    <3> QED BY <1>4, <3>1, <3>2, <3>3, <3>4, RetryComesTo
  <2> QED BY <2>1, <2>2 DEF IInv, WithdrawalKept
<1> QED BY <1>10, <1>11, <1>12, <1>13 DEF IInv

\* The window and the grace have passed: the request and its grant are done with.
LEMMA FinishInv == IInv /\ Finish => IInv'
<1> SUFFICES ASSUME IInv, Finish PROVE IInv'
  OBVIOUS
<1>1. /\ UNCHANGED <<now, cur, stale, acked>> /\ pc' = "idle"
      /\ requests' = [requests EXCEPT ![cur].done = TRUE] /\ grant' = NoTerms
      /\ cur # 0 /\ Over(cur)
  BY DEF Finish, Following
<1>2. cur \in Posted /\ requests \in Seq(Request) /\ requests[cur] \in Request
  BY <1>1 DEF IInv, TypeOK, Posted
<1>3. /\ requests' \in Seq(Request) /\ Len(requests') = Len(requests) /\ Posted' = Posted
      /\ \A r \in Posted \ {cur} : requests'[r] = requests[r]
      /\ requests'[cur] = [requests[cur] EXCEPT !.done = TRUE]
  <2> DEFINE n == Len(requests)
             new == [requests[cur] EXCEPT !.done = TRUE]
  <2>1. new \in Request
    BY <1>2 DEF Request
  <2>2. n \in Nat /\ cur \in 1..n /\ requests \in [1..n -> Request]
    BY <1>2 DEF Posted
  <2> HIDE DEF new
  <2>3. requests' = [requests EXCEPT ![cur] = new]
    BY <1>1, <2>2 DEF new
  <2>4. /\ requests' \in [1..n -> Request] /\ requests'[cur] = new
        /\ \A r \in 1..n \ {cur} : requests'[r] = requests[r]
    BY <2>1, <2>2, <2>3
  <2>5. requests' \in Seq(Request) /\ Len(requests') = n
    BY <2>2, <2>4
  <2> QED BY <2>4, <2>5 DEF Posted, new
<1>4. /\ requests'[cur] \in Request
      /\ requests'[cur].end = requests[cur].end /\ requests'[cur].energy = requests[cur].energy
      /\ requests'[cur].power = requests[cur].power /\ requests'[cur].located = requests[cur].located
      /\ requests'[cur].withdrawn = requests[cur].withdrawn
      /\ requests'[cur].refused = requests[cur].refused
  BY <1>2, <1>3 DEF Request
<1>5. TypeOK'
  BY <1>1, <1>3 DEF IInv, TypeOK, Terms
<1>6. RequestInv'
  <2>1. AsPosted(requests'[cur]) /\ now' >= requests'[cur].end + Grace
    BY <1>1, <1>2, <1>4 DEF IInv, RequestInv, AsPosted, Over
  <2>2. \A r \in Posted \ {cur} : AsPosted(requests'[r]) /\ (requests'[r].done => now' >= requests'[r].end + Grace)
    BY <1>1, <1>3 DEF IInv, RequestInv, Over
  <2> QED BY <1>3, <2>1, <2>2 DEF RequestInv, Over
<1>7. WithdrawalKept'
  <2> SUFFICES ASSUME NEW r \in Posted, requests'[r].wanted \/ r # cur
               PROVE  \/ requests'[r].withdrawn \/ requests'[r].refused
                      \/ ~requests'[r].located \/ now >= requests'[r].end + Grace
                      \/ \E s \in stale : s.request = r
    BY <1>1, <1>3 DEF WithdrawalKept, Over, Kept
  <2>1. CASE r = cur
    BY <1>1, <1>4, <2>1 DEF Over
  <2>2. CASE r # cur
    BY <1>3, <2>2 DEF IInv, WithdrawalKept, Over, Kept
  <2> QED BY <2>1, <2>2
<1>8. GrantInv'
  BY <1>1 DEF IInv, GrantInv
<1> QED BY <1>5, <1>6, <1>7, <1>8 DEF IInv

\* A good read: the grant it gives lies within the request.
LEMMA ReadAnswersInv == IInv /\ ReadAnswers => IInv'
<1> SUFFICES ASSUME IInv, ReadAnswers PROVE IInv'
  OBVIOUS
<1>1. /\ UNCHANGED <<now, requests, cur, stale>> /\ pc' = "idle"
      /\ cur # 0 /\ ~requests[cur].done
  BY DEF ReadAnswers, Following
<1>2. PICK list \in Lists :
        /\ grant' = GrantOf(cur, Judge(list, cur, requests[cur], Grace, now))
        /\ Acknowledge(list)
  BY DEF ReadAnswers
<1>3. cur \in Posted /\ AsPosted(requests[cur]) /\ now \in Int
  BY <1>1, ReservationAssumption DEF IInv, RequestInv, TypeOK, Posted
<1>4. grant' # NoTerms =>
         grant' \in Terms /\ ~requests[cur].withdrawn /\ Within(grant', requests[cur])
  <2> DEFINE verdict == Judge(list, cur, requests[cur], Grace, now)
  <2>1. Dispatches(verdict.kind) => verdict.terms \in Terms /\ Within(verdict.terms, requests[cur])
    BY <1>3, VerdictFits
  <2>2. grant' = IF Dispatches(verdict.kind) /\ ~requests[cur].withdrawn THEN verdict.terms ELSE NoTerms
    BY <1>2 DEF GrantOf
  <2> HIDE DEF verdict
  <2> QED BY <2>1, <2>2
<1>5. acked' \subseteq 1..MaxResponses
  <2>1. ToAcknowledge(list, cur) \subseteq 1..MaxResponses
    BY ListsHave DEF ToAcknowledge
  <2> QED BY <1>2, <2>1 DEF Acknowledge, IInv, TypeOK
<1>6. TypeOK'
  <2>1. grant' \in Terms
    BY <1>4 DEF Terms
  <2> QED BY <1>1, <1>5, <2>1 DEF IInv, TypeOK, Posted
<1>7. RequestInv' /\ WithdrawalKept'
  BY <1>1 DEF IInv, RequestInv, WithdrawalKept, Posted, Over, Kept
<1>8. GrantInv'
  BY <1>1, <1>4, <1>5 DEF GrantInv
<1> QED BY <1>6, <1>7, <1>8 DEF IInv

\* A poll with nothing to read, or that reads nothing, and the clock.
LEMMA QuietInv ==
  ASSUME IInv, PollNothing \/ ReadFails \/ Advance \/ UNCHANGED vars
  PROVE  IInv'
<1>1. /\ UNCHANGED <<requests, cur, grant, stale, acked>>
      /\ pc' \in {"idle", "poll"} /\ now' \in 0..MaxTime /\ now' >= now
      /\ now \in Int
  BY ReservationAssumption DEF PollNothing, ReadFails, Advance, vars, clientVars, IInv, TypeOK
<1>2. Posted' = Posted
  BY <1>1 DEF Posted
<1>3. ASSUME NEW r \in Posted
      PROVE  Over(r) => Over(r)'
  <2>1. requests[r].end \in Int /\ Grace \in Int
    BY ReservationAssumption DEF IInv, RequestInv, AsPosted, Request
  <2> QED BY <1>1, <2>1 DEF Over
<1>4. TypeOK'
  <2>1. ASSUME NEW s \in stale
        PROVE  s.next <= now' + s.wait
    <3>1. s.next \in Int /\ s.next <= now + s.wait /\ s.wait \in Int
      BY ReservationAssumption DEF IInv, TypeOK, Least, Latest
    <3> QED BY <1>1, <3>1
  <2> QED BY <1>1, <1>2, <2>1 DEF IInv, TypeOK
<1>5. RequestInv'
  BY <1>1, <1>2, <1>3 DEF IInv, RequestInv
<1>6. WithdrawalKept'
  <2> SUFFICES ASSUME NEW r \in Posted, requests[r].wanted \/ r # cur
               PROVE  \/ requests[r].withdrawn \/ requests[r].refused
                      \/ ~requests[r].located \/ Over(r)' \/ Kept(r)
    BY <1>1, <1>2 DEF WithdrawalKept, Kept
  <2> QED BY <1>3 DEF IInv, WithdrawalKept
<1>7. GrantInv'
  BY <1>1 DEF IInv, GrantInv
<1> QED BY <1>4, <1>5, <1>6, <1>7 DEF IInv

-----------------------------------------------------------------------------
(* The results.                                                            *)

LEMMA NextInv == IInv /\ [Next]_vars => IInv'
<1> SUFFICES ASSUME IInv, [Next]_vars PROVE IInv'
  OBVIOUS
<1>1. ASSUME NEW s \in Settings, NEW located \in BOOLEAN, NEW outcome \in Outcomes,
             Trigger(s, located, outcome)
      PROVE  IInv'
  BY <1>1, TriggerInv
<1>2. ASSUME NEW outcome \in Outcomes, Withdraw(outcome)
      PROVE  IInv'
  BY <1>2, WithdrawInv
<1>3. CASE RetryWithdrawals
  BY <1>3, RetryWithdrawalsInv
<1>4. CASE Finish
  BY <1>4, FinishInv
<1>5. CASE ReadAnswers
  BY <1>5, ReadAnswersInv
<1>6. CASE PollNothing \/ ReadFails \/ Advance \/ UNCHANGED vars
  BY <1>6, QuietInv
<1> QED BY <1>1, <1>2, <1>3, <1>4, <1>5, <1>6 DEF Next

\* What holds between any two signals and polls: the inductive invariant.
THEOREM Invariance == Spec => []IInv
<1>1. Init => IInv
  BY InitInv
<1>2. IInv /\ [Next]_vars => IInv'
  BY NextInv
<1> QED BY <1>1, <1>2, PTL DEF Spec

\* reserver and dispatcher keep their shape; no withdrawal is kept twice, and
\* none waits longer than the cap of the backoff or a poll interval.
THEOREM TypeCorrect == Spec => []TypeOK
<1>1. IInv => TypeOK
  BY DEF IInv
<1> QED BY <1>1, Invariance, PTL

\* setGrant: whatever the server offers, the batteries are dispatched within the
\* request that is followed, while it is neither withdrawn nor finished.
THEOREM GrantIsWithin == Spec => []GrantWithinRequest
<1>1. IInv => GrantWithinRequest
  BY DEF IInv, GrantInv, GrantWithinRequest, Within
<1> QED BY <1>1, Invariance, PTL

\* Whatever fails, and whichever of SIGUSR1, SIGUSR2 and the retries comes
\* first, no request that is no longer wanted is left at the server forgotten.
THEOREM NothingForgotten == Spec => []WithdrawalKept
<1>1. IInv => WithdrawalKept
  BY DEF IInv
<1> QED BY <1>1, Invariance, PTL

\* judge: whatever complete list a poll reads, it dispatches only under the
\* answer in force that was created last, calls a grant late exactly if every
\* answer is, and tells the unanswered and the revoked apart.
THEOREM AnswersAreJudged == Spec => []AnswersJudged
<1>1. IInv => AnswersJudged
  <2> SUFFICES ASSUME IInv, cur # 0, NEW list \in Lists
               PROVE  LET verdict == Judge(list, cur, requests[cur], Grace, now)
                          mine == {list[i] : i \in Answers(list, cur)}
                          live == {a \in mine : a.status \notin Ended}
                      IN /\ Dispatches(verdict.kind) =>
                              \E a \in live :
                                /\ a.offer.complete /\ a.offer.duration > 0
                                /\ \A b \in live : b.created <= a.created
                                /\ verdict.terms.start >= a.offer.start
                                /\ verdict.terms.power <= Magnitude(a.offer.power)
                                /\ (verdict.kind = "late") =
                                     (\A b \in mine : b.created > requests[cur].start + Grace)
                         /\ verdict.kind \in {"pending", "expired"} <=> mine = {}
                         /\ verdict.kind = "revoked" <=> mine # {} /\ live = {}
    BY DEF AnswersJudged, Following
  <2> DEFINE verdict == Judge(list, cur, requests[cur], Grace, now)
             mine == {list[i] : i \in Answers(list, cur)}
             live == {a \in mine : a.status \notin Ended}
             effective == list[Effective(list, cur)]
             first == list[First(list, cur)]
             limit == requests[cur].start + Grace
  <2>1. AsPosted(requests[cur]) /\ now \in Int
    BY ReservationAssumption DEF IInv, RequestInv, TypeOK, Posted
  <2>2. /\ verdict.kind \in {"pending", "expired"} <=> Answers(list, cur) = {}
        /\ verdict.kind = "revoked" <=> Answers(list, cur) # {} /\ Live(list, cur) = {}
        /\ Dispatches(verdict.kind) =>
             /\ Live(list, cur) # {} /\ effective.offer.complete /\ effective.offer.duration > 0
             /\ verdict.terms.start >= effective.offer.start
             /\ verdict.terms.power <= Magnitude(effective.offer.power)
             /\ verdict.kind = "late" <=> first.created > limit
    BY <2>1, VerdictFits
  <2>3. live = {list[i] : i \in Live(list, cur)}
    BY DEF Live
  <2>4. (mine = {} <=> Answers(list, cur) = {}) /\ (live = {} <=> Live(list, cur) = {})
    BY <2>3
  <2>5. Live(list, cur) # {} =>
          effective \in live /\ \A b \in live : b.created <= effective.created
    BY <2>3, EffectiveIsLatest
  <2>6. Live(list, cur) # {} => (first.created > limit <=> \A b \in mine : b.created > limit)
    <3> SUFFICES ASSUME Live(list, cur) # {}
                 PROVE  first.created > limit <=> \A b \in mine : b.created > limit
      OBVIOUS
    <3>1. Answers(list, cur) # {}
      BY DEF Live
    <3>2. first \in mine /\ \A b \in mine : first.created <= b.created
      BY <3>1, FirstIsEarliest
    <3>3. \A b \in mine : b.created \in Int
      BY ListsHave, ReservationAssumption
    <3>4. limit \in Int
      BY <2>1, ReservationAssumption DEF AsPosted, Request
    <3> HIDE DEF first, mine, limit
    <3> QED BY <3>2, <3>3, <3>4
  <2> HIDE DEF verdict, mine, live, effective, first, limit
  <2>7. Dispatches(verdict.kind) =>
          /\ effective \in live
          /\ effective.offer.complete /\ effective.offer.duration > 0
          /\ \A b \in live : b.created <= effective.created
          /\ verdict.terms.start >= effective.offer.start
          /\ verdict.terms.power <= Magnitude(effective.offer.power)
          /\ (verdict.kind = "late") = (\A b \in mine : b.created > limit)
    BY <2>2, <2>5, <2>6
  <2>8. /\ verdict.kind \in {"pending", "expired"} <=> mine = {}
        /\ verdict.kind = "revoked" <=> mine # {} /\ live = {}
    BY <2>2, <2>4
  <2> QED BY <2>7, <2>8 DEF verdict, mine, live, limit
<1> QED BY <1>1, Invariance, PTL
=============================================================================
