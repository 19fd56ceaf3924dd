-------------------------- MODULE MCKafkaConsumer --------------------------
(* The instances of KafkaConsumer for TLC. *)
EXTENDS KafkaConsumer

=============================================================================
