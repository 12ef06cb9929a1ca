------------------------------ MODULE MCKafka ------------------------------
(* Instances of KafkaConsumer for TLC. *)
EXTENDS KafkaConsumer
=============================================================================
