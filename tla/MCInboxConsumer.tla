-------------------------- MODULE MCInboxConsumer --------------------------
(* The instance of InboxConsumer for TLC.                                  *)
EXTENDS InboxConsumer

CONSTANTS a, b, c, d, e

\* a and b are two payloads under one message id, which d and e carry too; c is
\* another message.
TwoKeys == [x \in Envelopes |-> IF x = c THEN "k2" ELSE "k1"]
TwoHashes == [x \in Envelopes |-> IF x = b THEN "h2" ELSE "h1"]

\* d is refused by the adapter, e is of a type the consumer does not take.
MixedKinds ==
    [x \in Envelopes |-> IF x = d THEN "refused" ELSE IF x = e THEN "unsubscribed" ELSE "accepted"]

=============================================================================
