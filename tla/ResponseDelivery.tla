-------------------------- MODULE ResponseDelivery --------------------------
(***************************************************************************)
(* The POST of one Response, as the hook of response_hook.go makes it on   *)
(* the goroutine that ticks the engine: postResponseWithRetryClock around  *)
(* SEP2Client.PostResponse, which repeats a POST once by itself.           *)
(*                                                                         *)
(* A POST ends "ok" (201 or 204), "refused" (any other answer but a 5xx),  *)
(* "transient" (a 5xx or a broken connection) or "expired", when the 30 s  *)
(* of the hook are over; these also end a wait.                            *)
(***************************************************************************)
EXTENDS Naturals

VARIABLE post   \* the POST under way

\* defaultRetryMaxAttempts, and sendResponse's maxAttempts.
MaxAttempts == 3
MaxTries == 2

NoPost == [state |-> "none", attempt |-> 0, try |-> 0]

Posting(attempt, try) == [state |-> "posting", attempt |-> attempt, try |-> try]

BeginPost ==
  /\ post = NoPost
  /\ post' = Posting(1, 1)

\* Only a transient failure is tried again, at once or after a wait; after the
\* last attempt the Response is a dead letter.
PostOnce(outcome) ==
  /\ post.state = "posting"
  /\ post' = CASE outcome # "transient" -> NoPost
               [] outcome = "transient" /\ post.try < MaxTries ->
                    Posting(post.attempt, post.try + 1)
               [] outcome = "transient" /\ post.try = MaxTries /\ post.attempt < MaxAttempts ->
                    [post EXCEPT !.state = "waiting"]
               [] OTHER -> NoPost

\* Mutant: the attempts are not counted.
AttemptAgain == Posting(post.attempt, 1)

NextAttempt == Posting(post.attempt + 1, 1)

Wait(outcome) ==
  /\ post.state = "waiting"
  /\ post' = IF outcome = "expired" THEN NoPost ELSE NextAttempt

PostStep ==
  \/ BeginPost
  \/ \E outcome \in {"ok", "refused", "transient", "expired"} : PostOnce(outcome)
  \/ \E outcome \in {"elapsed", "expired"} : Wait(outcome)

PostEnds == post # NoPost /\ post' = NoPost
=============================================================================
