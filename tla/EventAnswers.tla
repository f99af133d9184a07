---------------------------- MODULE EventAnswers ----------------------------
(***************************************************************************)
(* What the server is promised about its events: the trail of Response     *)
(* statuses each event gets, whatever the engine does inside.  The status  *)
(* values are those mapTransitionToStatus documents in                     *)
(* cmd/inverterclient/response_hook.go.                                    *)
(***************************************************************************)
CONSTANT MRIDs

VARIABLE answered

\* 0 stands for no answer yet.
Successors ==
  [none      |-> {1, 253},      \* received, or refused at receipt
   received  |-> {2, 6, 253},   \* started, cancelled, or refused later
   started   |-> {3, 6, 253},   \* completed, cancelled, or refused later
   ended     |-> {1, 253},      \* a removed event can be listed again
   rejected  |-> {}]            \* nothing follows a refusal

Stage(status) ==
  CASE status = 0 -> "none"
    [] status = 1 -> "received"
    [] status = 2 -> "started"
    [] status \in {3, 6} -> "ended"
    [] status = 253 -> "rejected"

Answer(e) ==
  \E status \in Successors[Stage(answered[e])] :
    answered' = [answered EXCEPT ![e] = status]

Init == answered = [e \in MRIDs |-> 0]

Next == \E e \in MRIDs : Answer(e)

Spec == Init /\ [][Next]_answered
=============================================================================
