------------------------ MODULE MCIdempotentCommand ------------------------
(* An instance of IdempotentCommand for TLC. *)
EXTENDS IdempotentCommand, TLC

CONSTANTS c1, c2, c3, k1

\* Three calls of one key, the last with another payload.
OneKey == (c1 :> k1) @@ (c2 :> k1) @@ (c3 :> k1)
OneKeyPayload == (c1 :> "a") @@ (c2 :> "a") @@ (c3 :> "b")

=============================================================================
