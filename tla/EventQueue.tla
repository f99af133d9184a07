----------------------------- MODULE EventQueue -----------------------------
(***************************************************************************)
(* The scheduler of DERControl events, internal/inverter/scheduler.go: the *)
(* window an event's interval and randomization give it, and the queue     *)
(* ordered by fire time.  Pure operators: the queue itself lives in the    *)
(* modules that own one.                                                   *)
(*                                                                         *)
(* A queue is a function from the mRIDs queued to their entries, so one    *)
(* mRID has one entry (the code's "replace-not-duplicate").  The code      *)
(* keeps a slice sorted by FireAt with sort.Slice, which may leave events  *)
(* of equal FireAt in any order: "place" is the order the last sort left.  *)
(***************************************************************************)
EXTENDS Integers, FiniteSets

CONSTANTS MRIDs,     \* the mRIDs a server can use
          Intervals  \* the intervals, with randomization, an event can carry

\* Interval.Start and OneHourRange are signed, Interval.Duration is unsigned.
ASSUME IntervalsAssumption ==
  Intervals \subseteq [start: Int, duration: Nat, randomizeStart: Int, randomizeDuration: Int]

ASSUME MRIDsAssumption == IsFiniteSet(MRIDs)

Abs(n) == IF n < 0 THEN -n ELSE n

\* applyRandomizeStart: a jitter of 0..|rs| seconds, forward or backward.
StartTimes(iv) ==
  IF iv.randomizeStart >= 0
    THEN iv.start .. (iv.start + iv.randomizeStart)
    ELSE (iv.start + iv.randomizeStart) .. iv.start

\* applyRandomizeDuration: 0..|rd| seconds shifted back by |rd|/2, rounded down.
RandomizedDurations(iv) ==
  LET rd == Abs(iv.randomizeDuration)
  IN  (iv.duration - rd \div 2) .. (iv.duration + rd - rd \div 2)

Window == {w \in [fireAt: Int, expireAt: Int] : w.fireAt <= w.expireAt}

\* computeWindow: the windows the random source can give interval iv.
WindowsOf(iv) ==
  {[fireAt |-> s, expireAt |-> IF d < 0 THEN s ELSE s + d] :
     s \in StartTimes(iv), d \in RandomizedDurations(iv)}

Windows == UNION {WindowsOf(iv) : iv \in Intervals}

Entry == [fireAt: Int, expireAt: Int, place: Nat]

IsQueue(q) == DOMAIN q \subseteq MRIDs /\ q \in [DOMAIN q -> Entry]

EmptyQueue == [e \in {} |-> [fireAt |-> 0, expireAt |-> 0, place |-> 0]]

\* The orders one sort can leave among events of equal FireAt.
Sorts == {p \in [MRIDs -> 1 .. Cardinality(MRIDs)] :
            \A a, b \in MRIDs : p[a] = p[b] => a = b}

Without(q, gone) == [e \in DOMAIN q \ gone |-> q[e]]

\* OnEventsAdded: windows maps the events that carry an interval to the window
\* drawn for each.  An event queued before is replaced; then the queue is sorted.
OnEventsAdded(q, windows, sort) ==
  [e \in DOMAIN q \cup DOMAIN windows |->
     LET w == IF e \in DOMAIN windows THEN windows[e] ELSE q[e]
     IN  [fireAt |-> w.fireAt, expireAt |-> w.expireAt, place |-> sort[e]]]

OnEventsCancelled(q, gone) == Without(q, gone)

Before(q, a, b) ==
  \/ q[a].fireAt < q[b].fireAt
  \/ q[a].fireAt = q[b].fireAt /\ q[a].place < q[b].place

\* Next: the head of the queue, which the caller knows is not empty.
HeadOf(q) == CHOOSE a \in DOMAIN q : \A b \in DOMAIN q \ {a} : ~Before(q, b, a)

\* PopExpired: every event whose fire time is reached leaves the queue.
Due(q, now) == {e \in DOMAIN q : q[e].fireAt <= now}

\* Mutant: an event whose fire time is exactly now stays queued.
PopBefore(q, now) == Without(q, {e \in DOMAIN q : q[e].fireAt < now})

PopExpired(q, now) == Without(q, Due(q, now))
=============================================================================
