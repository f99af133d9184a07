-------------------------- MODULE DeviceLoopProofs --------------------------
(***************************************************************************)
(* What DeviceLoop keeps on every path, for any devices, any intervals and *)
(* any backoff: a server that loses mirrors or refuses them is asked ever  *)
(* more rarely, and an alarm that stays on is told once.                   *)
(*                                                                         *)
(* The first half is about numbers: what the loop of mirrorBackoff         *)
(* computes, and that it grows with the failures.                          *)
(***************************************************************************)
EXTENDS DeviceLoop, NaturalsInduction, WellFoundedInduction, TLAPS

\* A set of natural numbers with 0 and every successor holds them all.
LEMMA NatBySuccessor ==
  ASSUME NEW S \in SUBSET Nat, 0 \in S, \A n \in S : n + 1 \in S
  PROVE  S = Nat
<1> DEFINE R == {pair \in Nat \X Nat : pair[1] < pair[2]}
<1> SUFFICES ASSUME Nat \ S # {} PROVE FALSE
  OBVIOUS
<1>1. IsWellFoundedOn(R, Nat)
  BY NatLessThanWellFounded DEF OpToRel
<1>2. PICK m \in Nat \ S : \A n \in Nat \ S : ~(<<n, m>> \in R)
  BY <1>1, WFMin, Zenon
<1>3. m \in Nat /\ m # 0
  OBVIOUS
<1>4. m - 1 \in Nat /\ <<m - 1, m>> \in R
  BY <1>3
<1>5. m - 1 \in S
  BY <1>2, <1>4
<1> QED BY <1>2, <1>3, <1>5

\* What the loop of mirrorBackoff computes: there is a function that satisfies
\* its recursion, so the one Doubled chooses does.
LEMMA DoubledIs ==
  ASSUME NEW base \in Nat
  PROVE  /\ Doubled(base) \in [Nat -> Nat]
         /\ \A n \in Nat :
              Doubled(base)[n] = IF n <= 1 THEN base ELSE 2 * Doubled(base)[n - 1]
<1> DEFINE Upto(g, n) == /\ g \in [0 .. n -> Nat]
                         /\ \A k \in 0 .. n : g[k] = IF k <= 1 THEN base ELSE 2 * g[k - 1]
           Reached == {n \in Nat : \E g : Upto(g, n)}
           F == [n \in Nat |-> (CHOOSE g : Upto(g, n))[n]]
<1>1. ASSUME NEW n \in Nat PROVE \E g : Upto(g, n)
  <2>1. 0 \in Reached
    <3>1. Upto([k \in 0 .. 0 |-> base], 0)
      OBVIOUS
    <3> QED BY <3>1
  <2>2. ASSUME NEW m \in Reached PROVE m + 1 \in Reached
    <3>1. PICK g : Upto(g, m)
      BY <2>2
    <3> DEFINE h == [k \in 0 .. m + 1 |->
                       IF k <= m THEN g[k] ELSE IF k <= 1 THEN base ELSE 2 * g[k - 1]]
    <3>2. m \in Nat
      OBVIOUS
    <3>3. h \in [0 .. m + 1 -> Nat]
      BY <3>1, <3>2
    <3>4. ASSUME NEW k \in 0 .. m + 1
          PROVE  h[k] = IF k <= 1 THEN base ELSE 2 * h[k - 1]
      <4>1. CASE k <= m
        BY <4>1, <3>1, <3>2
      <4>2. CASE k = m + 1
        BY <4>2, <3>1, <3>2
      <4> QED BY <4>1, <4>2, <3>2
    <3>5. Upto(h, m + 1)
      BY <3>3, <3>4
    <3> HIDE DEF Upto, h
    <3> QED BY <3>2, <3>5
  <2>3. Reached = Nat
    <3> HIDE DEF Upto
    <3> QED BY <2>1, <2>2, NatBySuccessor
  <2>4. n \in Reached
    BY <2>3
  <2> HIDE DEF Upto
  <2> QED BY <2>4
<1>2. ASSUME NEW n \in Nat, NEW p \in Nat, n <= p,
             NEW g, Upto(g, n), NEW h, Upto(h, p)
      PROVE  g[n] = h[n]
  <2> DEFINE Same == {k \in Nat : k <= n => g[k] = h[k]}
  <2>1. 0 \in Same
    BY <1>2
  <2>2. ASSUME NEW k \in Same PROVE k + 1 \in Same
    <3> SUFFICES ASSUME k + 1 <= n PROVE g[k + 1] = h[k + 1]
      OBVIOUS
    <3>1. k + 1 \in 0 .. n /\ k + 1 \in 0 .. p /\ (k + 1) - 1 = k
      BY <1>2
    <3>2. /\ g[k + 1] = IF k + 1 <= 1 THEN base ELSE 2 * g[k]
          /\ h[k + 1] = IF k + 1 <= 1 THEN base ELSE 2 * h[k]
      BY <1>2, <3>1
    <3>3. g[k] = h[k]
      BY <3>1
    <3> QED BY <3>2, <3>3
  <2>3. Same = Nat
    <3> HIDE DEF Upto
    <3> QED BY <2>1, <2>2, NatBySuccessor
  <2>4. n \in Same
    BY <2>3
  <2> HIDE DEF Upto
  <2> QED BY <2>4
<1>3. ASSUME NEW n \in Nat PROVE Upto(CHOOSE g : Upto(g, n), n)
  <2> HIDE DEF Upto
  <2> QED BY <1>1
<1>4. ASSUME NEW n \in Nat
      PROVE  F[n] \in Nat /\ F[n] = IF n <= 1 THEN base ELSE 2 * F[n - 1]
  <2> DEFINE G(k) == CHOOSE g : Upto(g, k)
  <2>1. Upto(G(n), n)
    BY <1>3
  <2>2. F[n] = G(n)[n]
    OBVIOUS
  <2>3. G(n)[n] \in Nat /\ G(n)[n] = IF n <= 1 THEN base ELSE 2 * G(n)[n - 1]
    <3> HIDE DEF G
    <3> QED BY <2>1
  <2>4. CASE n <= 1
    BY <2>2, <2>3, <2>4
  <2>5. CASE n > 1
    <3>1. n - 1 \in Nat /\ n - 1 <= n
      BY <2>5
    <3>2. Upto(G(n - 1), n - 1)
      BY <3>1, <1>3
    <3>3. G(n - 1)[n - 1] = G(n)[n - 1]
      <4> HIDE DEF G, Upto
      <4> QED BY <1>2, <2>1, <3>1, <3>2
    <3>4. F[n - 1] = G(n - 1)[n - 1]
      BY <3>1
    <3> HIDE DEF F, G
    <3> QED BY <2>2, <2>3, <2>5, <3>3, <3>4
  <2> QED BY <2>4, <2>5
<1> HIDE DEF F
<1>5. F = [n \in Nat |-> IF n <= 1 THEN base ELSE 2 * F[n - 1]]
  <2>1. F = [n \in Nat |-> F[n]]
    BY DEF F
  <2> QED BY <2>1, <1>4
<1>6. Doubled(base) = [n \in Nat |-> IF n <= 1 THEN base ELSE 2 * Doubled(base)[n - 1]]
  BY <1>5 DEF Doubled
<1> DEFINE D == Doubled(base)
<1>7. \A n \in Nat : D[n] = IF n <= 1 THEN base ELSE 2 * D[n - 1]
  <2> HIDE DEF D
  <2>1. D = [n \in Nat |-> IF n <= 1 THEN base ELSE 2 * D[n - 1]]
    BY <1>6 DEF D
  <2> QED BY <2>1
<1>8. \A n \in Nat : D[n] \in Nat
  <2> HIDE DEF D
  <2> DEFINE Natural == {n \in Nat : D[n] \in Nat}
  <2>1. 0 \in Natural
    BY <1>7
  <2>2. ASSUME NEW n \in Natural PROVE n + 1 \in Natural
    <3>1. n + 1 \in Nat /\ (n + 1) - 1 = n
      OBVIOUS
    <3>2. D[n + 1] = IF n + 1 <= 1 THEN base ELSE 2 * D[n]
      BY <1>7, <3>1
    <3> QED BY <3>1, <3>2
  <2>3. Natural = Nat
    BY <2>1, <2>2, NatBySuccessor
  <2> QED BY <2>3
<1>9. D \in [Nat -> Nat]
  <2> HIDE DEF D
  <2>1. D = [n \in Nat |-> IF n <= 1 THEN base ELSE 2 * D[n - 1]]
    BY <1>6 DEF D
  <2>2. \A n \in Nat : (IF n <= 1 THEN base ELSE 2 * D[n - 1]) \in Nat
    BY <1>7, <1>8
  <2> QED BY <2>1, <2>2
<1> QED BY <1>7, <1>9

\* The wait grows with the failures, up to the cap.
LEMMA BackoffGrows ==
  ASSUME setup \in Setups
  PROVE  /\ \A n \in Nat : MirrorBackoff(n) \in 0 .. MaxBackoff
         /\ \A m, n \in Nat : m <= n => MirrorBackoff(m) <= MirrorBackoff(n)
<1> DEFINE D == Doubled(setup.interval)
<1>1. setup.interval \in Nat /\ MaxBackoff \in Nat
  BY SetupsAssumption
<1>2. /\ D \in [Nat -> Nat]
      /\ \A n \in Nat : D[n] = IF n <= 1 THEN setup.interval ELSE 2 * D[n - 1]
  BY <1>1, DoubledIs
<1> HIDE DEF D
<1>3. ASSUME NEW m \in Nat, NEW n \in Nat, m <= n PROVE D[m] <= D[n]
  <2> DEFINE Above == {k \in Nat : D[m] <= D[m + k]}
  <2>1. 0 \in Above
    BY <1>2
  <2>2. ASSUME NEW k \in Above PROVE k + 1 \in Above
    <3>1. m + k \in Nat /\ m + (k + 1) \in Nat /\ (m + (k + 1)) - 1 = m + k
      OBVIOUS
    <3>2. D[m + (k + 1)] = IF m + (k + 1) <= 1 THEN setup.interval ELSE 2 * D[m + k]
      BY <1>2, <3>1
    <3>3. D[m + k] = IF m + k <= 1 THEN setup.interval ELSE 2 * D[(m + k) - 1]
      BY <1>2, <3>1
    <3>4. D[m + k] \in Nat /\ D[m] \in Nat
      BY <1>2, <3>1
    <3>5. D[m + k] <= D[m + (k + 1)]
      BY <3>1, <3>2, <3>3, <3>4
    <3>6. D[m] <= D[m + k] /\ D[m + (k + 1)] \in Nat
      BY <1>2, <3>1
    <3> QED BY <3>4, <3>5, <3>6
  <2>3. Above = Nat
    BY <2>1, <2>2, NatBySuccessor
  <2>4. n - m \in Nat /\ m + (n - m) = n
    BY <1>3
  <2>5. n - m \in Above
    BY <2>3, <2>4
  <2> QED BY <2>4, <2>5
<1>4. \A n \in Nat : MirrorBackoff(n) = Least(D[n], MaxBackoff)
  BY DEF MirrorBackoff, D
<1>5. \A n \in Nat : MirrorBackoff(n) \in 0 .. MaxBackoff
  BY <1>1, <1>2, <1>4 DEF Least
<1>6. ASSUME NEW m \in Nat, NEW n \in Nat, m <= n
      PROVE  MirrorBackoff(m) <= MirrorBackoff(n)
  <2>1. D[m] \in Nat /\ D[n] \in Nat /\ D[m] <= D[n]
    BY <1>2, <1>3, <1>6
  <2> QED BY <1>1, <1>4, <2>1 DEF Least
<1> QED BY <1>5, <1>6

-----------------------------------------------------------------------------
(* The inductive invariant.                                                *)

\* What the mirror and the observers of its creates are.
MirrorTypes ==
  /\ setup \in Setups
  /\ mirror \in [has : BOOLEAN, tries : 0 .. MaxTries, wait : Nat]
  /\ creates \in 0 .. MaxTries + 1
  /\ sinceCreate \in 0 .. MaxBackoff /\ gap \in 0 .. MaxBackoff

\* Every create since the last reading that was accepted has been counted as
\* a failure, the one of the present mirror excepted; without a mirror, what
\* is left of the wait and what has passed make up the backoff.
BackoffInv ==
  /\ NoCreateStorm
  /\ mirror.has => creates <= mirror.tries + 1
  /\ ~mirror.has /\ creates # 0 =>
       /\ Least(creates, MaxTries) <= mirror.tries
       /\ mirror.wait + sinceCreate >= MirrorBackoff(mirror.tries)
  /\ pc = "start" => creates = 0 /\ ~mirror.has

\* An onset is still to be told until it is fired, and then it is no onset.
OnsetInv ==
  /\ conditions \subseteq Codes /\ prev = conditions /\ rising \subseteq conditions
  /\ told \in [Codes -> {0, 1}]
  /\ \A c \in rising : told[c] = 0

IInv == MirrorTypes /\ BackoffInv /\ OnsetInv

-----------------------------------------------------------------------------
(* What happens to the mirror.                                             *)

\* A create may be counted: it comes when the whole wait is over.
LEMMA CreateInv ==
  ASSUME MirrorTypes, BackoffInv, ~mirror.has, pc = "start" \/ Ready(mirror),
         NEW outcome, CreateMirror(outcome),
         setup' = setup, pc' # "start"
  PROVE  MirrorTypes' /\ BackoffInv'
<1> DEFINE failedTries == Least(mirror.tries + 1, MaxTries)
<1> USE DEF MirrorTypes
<1>1. MaxBackoff \in Nat /\ MaxTries \in Nat \ {0}
  BY SetupsAssumption
<1>2. /\ \A n \in Nat : MirrorBackoff(n) \in 0 .. MaxBackoff
      /\ \A m, n \in Nat : m <= n => MirrorBackoff(m) <= MirrorBackoff(n)
  BY BackoffGrows
<1>3. \A n : MirrorBackoff(n)' = MirrorBackoff(n)
  BY DEF MirrorBackoff
<1>4. creates # 0 => sinceCreate >= MirrorBackoff(Least(creates, MaxTries))
  <2> SUFFICES ASSUME creates # 0 PROVE sinceCreate >= MirrorBackoff(Least(creates, MaxTries))
    OBVIOUS
  <2>1. mirror.wait = 0 /\ mirror.tries \in Nat
    BY DEF BackoffInv, Ready
  <2>2. Least(creates, MaxTries) <= mirror.tries /\ Least(creates, MaxTries) \in Nat
    BY <1>1 DEF BackoffInv, Least
  <2>3. sinceCreate >= MirrorBackoff(mirror.tries)
    BY <2>1 DEF BackoffInv
  <2>4. /\ MirrorBackoff(Least(creates, MaxTries)) <= MirrorBackoff(mirror.tries)
        /\ MirrorBackoff(Least(creates, MaxTries)) \in Nat
        /\ MirrorBackoff(mirror.tries) \in Nat
    BY <1>1, <1>2, <2>1, <2>2
  <2> HIDE DEF MirrorTypes
  <2> QED BY <2>3, <2>4 DEF MirrorTypes
<1>5. /\ creates' = Least(creates + 1, MaxTries + 1)
      /\ gap' = sinceCreate /\ sinceCreate' = 0
  BY DEF CreateMirror
<1>6. creates' \in 0 .. MaxTries + 1 /\ creates' # 0
  BY <1>1, <1>5 DEF Least
<1>7. NoCreateStorm'
  <2>1. creates' > 1 => creates # 0 /\ creates' - 1 = Least(creates, MaxTries)
    BY <1>1, <1>5 DEF Least
  <2> QED BY <1>3, <1>4, <1>5, <2>1 DEF NoCreateStorm
<1>8. CASE outcome = "ok"
  <2>1. mirror' = [mirror EXCEPT !.has = TRUE]
    BY <1>8 DEF CreateMirror, Created
  <2>2. creates' <= mirror.tries + 1
    BY <1>1, <1>5 DEF BackoffInv, Least
  <2>3. mirror' = [has |-> TRUE, tries |-> mirror.tries, wait |-> mirror.wait]
    BY <2>1
  <2>4. MirrorTypes'
    BY <1>1, <1>5, <1>6, <2>3
  <2> QED BY <1>7, <2>2, <2>3, <2>4 DEF BackoffInv
<1>9. CASE outcome # "ok"
  <2>1. mirror' = [has |-> FALSE, tries |-> failedTries, wait |-> MirrorBackoff(failedTries)]
    BY <1>9 DEF CreateMirror, Failed
  <2>2. failedTries \in 0 .. MaxTries
    BY <1>1 DEF Least
  <2>3. MirrorBackoff(failedTries) \in 0 .. MaxBackoff
    BY <1>1, <1>2, <2>2
  <2>4. Least(creates', MaxTries) <= failedTries
    BY <1>1, <1>5 DEF BackoffInv, Least
  <2> HIDE DEF failedTries
  <2>5. ~mirror'.has /\ mirror'.tries = failedTries /\ mirror'.wait = MirrorBackoff(failedTries)
    BY <2>1
  <2>6. Least(creates, MaxTries)' = Least(creates', MaxTries)
    BY DEF Least
  <2>7. MirrorTypes'
    BY <1>1, <1>5, <1>6, <2>1, <2>2, <2>3
  <2>8. MirrorBackoff(mirror.tries)' = MirrorBackoff(failedTries)
    BY <2>5 DEF MirrorBackoff
  <2>9. (mirror.wait + sinceCreate)' >= MirrorBackoff(mirror.tries)'
    BY <1>5, <2>3, <2>5, <2>8
  <2> QED BY <1>7, <2>4, <2>5, <2>6, <2>7, <2>9 DEF BackoffInv
<1> QED BY <1>8, <1>9

\* The answer to a reading: accepted, the count starts anew; 404, it is a
\* failure more.
LEMMA PostReadingInv ==
  ASSUME MirrorTypes, BackoffInv, mirror.has,
         NEW outcome \in {"accepted", "404", "failed"}, PostReading(outcome),
         setup' = setup, pc' # "start"
  PROVE  MirrorTypes' /\ BackoffInv'
<1> DEFINE failedTries == Least(mirror.tries + 1, MaxTries)
<1> USE DEF MirrorTypes
<1>1. MaxBackoff \in Nat /\ MaxTries \in Nat \ {0}
  BY SetupsAssumption
<1>2. \A n \in Nat : MirrorBackoff(n) \in 0 .. MaxBackoff
  BY BackoffGrows
<1>3. \A n : MirrorBackoff(n)' = MirrorBackoff(n)
  BY DEF MirrorBackoff
<1>4. gap' = gap /\ sinceCreate' = sinceCreate
  BY DEF PostReading
<1>5. CASE outcome = "accepted"
  <2>1. mirror' = [has |-> TRUE, tries |-> 0, wait |-> 0] /\ creates' = 0
    BY <1>5 DEF PostReading, Worked
  <2> QED BY <1>1, <1>4, <2>1 DEF BackoffInv, NoCreateStorm
<1>6. CASE outcome = "404"
  <2>1. /\ mirror' = [has |-> FALSE, tries |-> failedTries, wait |-> MirrorBackoff(failedTries)]
        /\ creates' = creates
    BY <1>6 DEF PostReading, Failed
  <2>2. failedTries \in 0 .. MaxTries
    BY <1>1 DEF Least
  <2>3. MirrorBackoff(failedTries) \in 0 .. MaxBackoff
    BY <1>1, <1>2, <2>2
  <2>4. Least(creates, MaxTries) <= failedTries
    BY <1>1 DEF BackoffInv, Least
  <2> HIDE DEF failedTries
  <2>5. NoCreateStorm'
    BY <1>3, <1>4, <2>1 DEF BackoffInv, NoCreateStorm
  <2>6. Least(creates, MaxTries)' = Least(creates, MaxTries)
    BY <2>1 DEF Least
  <2>7. MirrorTypes'
    BY <1>1, <1>4, <2>1, <2>2, <2>3
  <2>8. MirrorBackoff(mirror.tries)' = MirrorBackoff(failedTries)
    BY <2>1 DEF MirrorBackoff
  <2>9. (mirror.wait + sinceCreate)' >= MirrorBackoff(mirror.tries)'
    BY <1>4, <2>1, <2>3, <2>8
  <2> QED BY <2>1, <2>4, <2>5, <2>6, <2>7, <2>9 DEF BackoffInv
<1>7. CASE outcome = "failed"
  <2>1. mirror' = mirror /\ creates' = creates
    BY <1>7 DEF PostReading
  <2> QED BY <1>3, <1>4, <2>1 DEF BackoffInv, NoCreateStorm
<1> QED BY <1>5, <1>6, <1>7

\* While time passes, what is left of the wait is what has not passed of it.
LEMMA LaterInv ==
  ASSUME MirrorTypes, BackoffInv, NEW d \in Nat,
         mirror' = Later(mirror, d), sinceCreate' = Least(sinceCreate + d, MaxBackoff),
         UNCHANGED <<setup, creates, gap>>, pc' # "start"
  PROVE  MirrorTypes' /\ BackoffInv'
<1> USE DEF MirrorTypes
<1>1. MaxBackoff \in Nat /\ MaxTries \in Nat \ {0}
  BY SetupsAssumption
<1>2. MirrorBackoff(mirror.tries) \in 0 .. MaxBackoff
  BY BackoffGrows
<1>3. \A n : MirrorBackoff(n)' = MirrorBackoff(n)
  BY DEF MirrorBackoff
<1>4. /\ mirror'.has = mirror.has /\ mirror'.tries = mirror.tries
      /\ mirror'.wait = IF d > mirror.wait THEN 0 ELSE mirror.wait - d
      /\ mirror' \in [has : BOOLEAN, tries : 0 .. MaxTries, wait : Nat]
  BY DEF Later
<1>5. sinceCreate' \in 0 .. MaxBackoff
  BY <1>1 DEF Least
<1>6. MirrorBackoff(mirror.tries)' = MirrorBackoff(mirror.tries)
  BY <1>4 DEF MirrorBackoff
<1>7. mirror.wait + sinceCreate >= MirrorBackoff(mirror.tries) =>
        mirror'.wait + sinceCreate' >= MirrorBackoff(mirror.tries)
  BY <1>1, <1>2, <1>4 DEF Least
<1>8. NoCreateStorm'
  BY <1>3 DEF BackoffInv, NoCreateStorm
<1>9. Least(creates, MaxTries)' = Least(creates, MaxTries)
  BY DEF Least
<1> QED BY <1>4, <1>5, <1>6, <1>7, <1>8, <1>9 DEF BackoffInv

\* What leaves the mirror alone keeps all that is said of it.
LEMMA QuietInv ==
  ASSUME MirrorTypes, BackoffInv,
         UNCHANGED <<setup, mirror, creates, sinceCreate, gap>>, pc' # "start" \/ pc' = pc
  PROVE  MirrorTypes' /\ BackoffInv'
BY DEF MirrorTypes, BackoffInv, NoCreateStorm, MirrorBackoff, Least

-----------------------------------------------------------------------------
(* What happens to the alarms.                                             *)

\* An alarm that is on for the first time has not been told.
LEMMA EvaluateInv ==
  ASSUME OnsetInv, NEW next \in SUBSET Codes, NEW enabled, Evaluate(next, enabled)
  PROVE  OnsetInv'
<1>1. told' = [c \in Codes |-> IF c \in conditions \cap next THEN told[c] ELSE 0]
  BY DEF Evaluate
<1>2. conditions' = next /\ prev' = next /\ rising' \subseteq next \ conditions
  BY DEF Evaluate, OnsetInv
<1>3. told' \in [Codes -> {0, 1}]
  BY <1>1 DEF OnsetInv
<1>4. \A c \in rising' : told'[c] = 0
  BY <1>1, <1>2
<1> QED BY <1>2, <1>3, <1>4 DEF OnsetInv

\* Whatever becomes of its LogEvent, an onset that was fired is one no more.
LEMMA PostLogEventInv ==
  ASSUME OnsetInv, NEW c \in rising, NEW outcome, PostLogEvent(c, outcome)
  PROVE  OnsetInv'
<1>1. UNCHANGED <<conditions, prev>> /\ rising' = rising \ {c}
  BY DEF PostLogEvent, Latch
<1>2. c \in Codes /\ told[c] = 0 /\ told \in [Codes -> {0, 1}]
  BY DEF OnsetInv
<1>3. told' = [told EXCEPT ![c] = 0] \/ told' = [told EXCEPT ![c] = 1]
  <2>1. CASE outcome \in {"ok", "unanswered"}
    BY <1>2, <2>1 DEF PostLogEvent
  <2>2. CASE outcome \notin {"ok", "unanswered"}
    BY <1>2, <2>2 DEF PostLogEvent
  <2> QED BY <2>1, <2>2
<1>4. told' \in [Codes -> {0, 1}] /\ \A b \in Codes \ {c} : told'[b] = told[b]
  BY <1>2, <1>3
<1> QED BY <1>1, <1>2, <1>4 DEF OnsetInv

LEMMA DropOnsetInv ==
  ASSUME OnsetInv, NEW c \in rising, DropOnset(c)
  PROVE  OnsetInv'
BY DEF OnsetInv, DropOnset, Latch

LEMMA NoAlarm ==
  ASSUME OnsetInv, UNCHANGED <<conditions, prev, rising, told>>
  PROVE  OnsetInv'
BY DEF OnsetInv

-----------------------------------------------------------------------------
(* The invariant, and what follows.                                        *)

LEMMA InitInv == Init => IInv
<1> SUFFICES ASSUME Init PROVE IInv
  OBVIOUS
<1>1. MaxBackoff \in Nat /\ MaxTries \in Nat \ {0}
  BY SetupsAssumption
<1>2. MirrorTypes /\ BackoffInv
  BY <1>1 DEF Init, MirrorTypes, BackoffInv, NoCreateStorm
<1>3. OnsetInv
  BY DEF Init, AlarmInit, OnsetInv
<1> QED BY <1>2, <1>3 DEF IInv

LEMMA TickInv ==
  ASSUME IInv, NEW d \in Elapses, NEW works \in BOOLEAN, Tick(d, works)
  PROVE  IInv'
<1>1. d \in Nat /\ setup.alarms \subseteq Codes
  BY SetupsAssumption DEF IInv, MirrorTypes
<1>2. /\ mirror' = Later(mirror, d) /\ sinceCreate' = Least(sinceCreate + d, MaxBackoff)
      /\ UNCHANGED <<setup, creates, gap>> /\ pc' # "start"
  BY DEF Tick, Goto
<1>3. MirrorTypes' /\ BackoffInv'
  BY <1>1, <1>2, LaterInv DEF IInv
<1>4. \/ UNCHANGED <<conditions, prev, rising, told>>
      \/ \E next \in SUBSET setup.alarms : Evaluate(next, "logEvents" \in setup.links)
  BY DEF Tick
<1>5. CASE UNCHANGED <<conditions, prev, rising, told>>
  BY <1>3, <1>5, NoAlarm DEF IInv
<1>6. CASE \E next \in SUBSET setup.alarms : Evaluate(next, "logEvents" \in setup.links)
  <2>1. PICK next \in SUBSET setup.alarms : Evaluate(next, "logEvents" \in setup.links)
    BY <1>6
  <2>2. next \in SUBSET Codes
    BY <1>1
  <2> QED BY <1>3, <2>1, <2>2, EvaluateInv DEF IInv
<1> QED BY <1>4, <1>5, <1>6

LEMMA MirrorStepInv ==
  ASSUME IInv, NEW outcome, FirstMirror(outcome) \/ OwnCreates(outcome) \/ TryMirror(outcome)
  PROVE  IInv'
<1>1. setup' = setup /\ pc' # "start"
  BY DEF FirstMirror, OwnCreates, TryMirror, Goto, Reported
<1>2. OnsetInv'
  BY NoAlarm DEF IInv, FirstMirror, OwnCreates, TryMirror, alarmVars
<1>3. \/ /\ ~mirror.has /\ (pc = "start" \/ Ready(mirror))
         /\ CreateMirror(outcome)
      \/ UNCHANGED <<mirror, creates, sinceCreate, gap>>
  BY DEF FirstMirror, OwnCreates, TryMirror, mirrorVars, IInv, BackoffInv
<1> QED BY <1>1, <1>2, <1>3, CreateInv, QuietInv DEF IInv

LEMMA ReportInv ==
  ASSUME IInv, NEW outcome \in {"accepted", "404", "failed"}, Report(outcome)
  PROVE  IInv'
<1>1. mirror.has /\ PostReading(outcome) /\ setup' = setup /\ pc' # "start"
  BY DEF Report, Reported, Goto
<1>2. OnsetInv'
  BY NoAlarm DEF IInv, Report, alarmVars
<1> QED BY <1>1, <1>2, PostReadingInv DEF IInv

LEMMA AlarmStepInv ==
  ASSUME IInv,
         \/ \E outcome \in {"ok", "failed", "unanswered", "405"} : ReportOnset(outcome)
         \/ ForgetOnset
  PROVE  IInv'
<1>1. UNCHANGED <<setup, mirror, creates, sinceCreate, gap, pc>>
  BY DEF ReportOnset, ForgetOnset, mirrorVars
<1>2. OnsetInv'
  BY PostLogEventInv, DropOnsetInv DEF IInv, ReportOnset, ForgetOnset
<1> QED BY <1>1, <1>2, QuietInv DEF IInv

\* The remaining steps touch neither the mirror nor the alarms.
LEMMA OtherStepInv ==
  ASSUME IInv,
         \/ \E outcome \in {"ok", "failed"} : ResolveDER(outcome) \/ PutStatus(outcome)
         \/ \E items \in SUBSET Missing : PutSetup(items)
         \/ AlarmsDone \/ OwnSkips \/ NoDER \/ NoSetup \/ MirrorNotTried \/ ManagedSkips
         \/ LoseMirror \/ Change \/ UNCHANGED vars
  PROVE  IInv'
<1>1. UNCHANGED <<setup, mirror, creates, sinceCreate, gap>>
  BY DEF ResolveDER, PutStatus, PutSetup, AlarmsDone, OwnSkips, NoDER, NoSetup,
         MirrorNotTried, ManagedSkips, LoseMirror, Change, mirrorVars, vars
<1>2. UNCHANGED <<conditions, prev, rising, told>>
  BY DEF ResolveDER, PutStatus, PutSetup, AlarmsDone, OwnSkips, NoDER, NoSetup,
         MirrorNotTried, ManagedSkips, LoseMirror, Change, alarmVars, vars
<1>3. pc' # "start" \/ pc' = pc
  BY DEF ResolveDER, PutStatus, PutSetup, AlarmsDone, OwnSkips, NoDER, NoSetup,
         MirrorNotTried, ManagedSkips, LoseMirror, Change, Goto, Reported, vars
<1> QED BY <1>1, <1>2, <1>3, QuietInv, NoAlarm DEF IInv

LEMMA NextInv == IInv /\ [Next]_vars => IInv'
<1> SUFFICES ASSUME IInv, [Next]_vars PROVE IInv'
  OBVIOUS
<1> USE TickInv, MirrorStepInv, ReportInv, AlarmStepInv, OtherStepInv
<1> QED BY DEF Next, LoopStep

\* What the loop keeps, by induction over its steps.
THEOREM Invariance == Spec => []IInv
BY InitInv, NextInv, PTL DEF Spec

\* However often the server loses the mirror or refuses to create it, the n-th
\* create since a reading was accepted (mirror.go, mirrorRetry) comes a backoff
\* of n-1 failures after the one before.
THEOREM CreatesBackOff == Spec => []NoCreateStorm
<1>1. IInv => NoCreateStorm
  BY DEF IInv, BackoffInv
<1> QED BY <1>1, Invariance, PTL

\* The detector's memory moves on whatever became of a LogEvent
\* (alarm_detector.go, fireIfRising): an alarm that stays on is told once.
THEOREM OnsetIsToldOnce == Spec => []OnsetToldOnce
<1>1. IInv => OnsetToldOnce
  BY DEF IInv, OnsetInv, OnsetToldOnce
<1> QED BY <1>1, Invariance, PTL
=============================================================================
