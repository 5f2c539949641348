------------------------- MODULE MCOutboxPublisher --------------------------
(***************************************************************************)
(* OutboxPublisher on a small instance.  Liveness is checked, so the        *)
(* publishers are not declared symmetric.                                   *)
(***************************************************************************)
EXTENDS OutboxPublisher

CONSTANTS a, b

MCEvents == 1..2
MCPublishers == {a, b}
=============================================================================
