-------------------------- MODULE MCKafkaConsumer ---------------------------
(***************************************************************************)
(* KafkaConsumer on a small instance: a good message, a malformed one, one  *)
(* without key or dispatcher, and one that cannot be decoded.               *)
(***************************************************************************)
EXTENDS KafkaConsumer

CONSTANTS good, bad, alone, garbled, p1, p2, c1, c2

MCMessages == {good, bad, alone, garbled}
MCPartitions == {p1, p2}
MCConsumers == {c1, c2}
=============================================================================
