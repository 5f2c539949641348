-------------------------- MODULE MCRabbitConsumer --------------------------
(***************************************************************************)
(* RabbitConsumer on a small instance: a good message, and one that is      *)
(* neither JSON nor named.                                                  *)
(***************************************************************************)
EXTENDS RabbitConsumer

CONSTANTS good, nameless, c1, c2

MCMessages == {good, nameless}
MCMalformed == {nameless}
MCAnonymous == {nameless}
MCConsumers == {c1, c2}
=============================================================================
