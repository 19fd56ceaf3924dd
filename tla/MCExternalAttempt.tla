------------------------- MODULE MCExternalAttempt -------------------------
(* Instances of ExternalAttempt for TLC. *)
EXTENDS ExternalAttempt, TLC

CONSTANTS w1, w2, m1, m2, o1, o2

\* Two observations that contradict each other.
TwoFindings == (o1 :> "applied") @@ (o2 :> "rejected")

\* An acceptance, a retryable reply, and one without a class that carries a finding.
ThreeReplies == {[class |-> "accepted", obs |-> NoObservation],
                 [class |-> "retryable_upstream", obs |-> NoObservation],
                 [class |-> "none", obs |-> o1]}

\* A partner with no key of its own, whose acceptance is a promise.
ByObservation == [key |-> "none", efficacy |-> "by_observation", absence |-> FALSE, maxQueries |-> 1]

=============================================================================
