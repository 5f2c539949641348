---------------------------- MODULE AtLeastOnce -----------------------------
(***************************************************************************)
(* The abstract specification of the consumers: what both promise to those  *)
(* who send them messages, whatever dies, is lost or comes twice.  A broker *)
(* offers copies of messages, each copy one message for good.  A message is *)
(* processed only if a copy of it was offered, any number of times.  A copy *)
(* is taken, never to be offered again, only after its message was          *)
(* processed, or if it never can be; what is taken stays taken.             *)
(***************************************************************************)
CONSTANTS Messages,
          Copies,    \* the places a message can have in a queue or a log
          Hopeless   \* messages that cannot be processed

VARIABLES offered,   \* pairs of a copy and its message
          taken,     \* those of them that will not be offered again
          processed  \* the messages that have been processed

vars == <<offered, taken, processed>>

Offer(copy, m) ==
    /\ \A d \in offered : d[1] # copy
    /\ offered' = offered \cup {<<copy, m>>}
    /\ UNCHANGED <<taken, processed>>

Process(m) ==
    /\ m \notin Hopeless
    /\ \E d \in offered : d[2] = m
    /\ processed' = processed \cup {m}
    /\ UNCHANGED <<offered, taken>>

Take(S) ==
    /\ \A d \in S : d[2] \in processed \cup Hopeless
    /\ taken' = taken \cup S
    /\ UNCHANGED <<offered, processed>>

Init == offered = {} /\ taken = {} /\ processed = {}

Next ==
    \/ \E copy \in Copies, m \in Messages : Offer(copy, m)
    \/ \E m \in Messages : Process(m)
    \/ \E S \in SUBSET offered : Take(S)

Spec == Init /\ [][Next]_vars
=============================================================================
