--------------------------- MODULE MCSqsConsumer ---------------------------
(* An instance of SqsConsumer for TLC. *)
EXTENDS SqsConsumer

=============================================================================
