--------------------------- MODULE OutboxDelivery ---------------------------
(***************************************************************************)
(* The abstract specification of the transactional outbox: what it          *)
(* promises for one event, whoever publishes it and whatever fails.  An     *)
(* event is recorded once; it may be sent to the broker any number of       *)
(* times; it is published only after it was sent, and given up only after   *)
(* Limit attempts were counted.  An event given up may still turn out to    *)
(* have been delivered, and is then published.  Events may be put back, to  *)
(* be published again; their attempts are then counted anew, but an event   *)
(* that was spent before stays so.                                          *)
(***************************************************************************)
EXTENDS Naturals

CONSTANTS Events,   \* the events that may be recorded
          Limit     \* attempts after which an event may be given up

VARIABLES state,    \* "absent", "pending", "published" or "dead"
          attempts, \* failed attempts counted since the event was put back
          spent,    \* events that have had Limit attempts
          sent      \* the events the broker's log holds

vars == <<state, attempts, spent, sent>>

Record(e) ==
    /\ state[e] = "absent"
    /\ state' = [state EXCEPT ![e] = "pending"]
    /\ UNCHANGED <<attempts, spent, sent>>

Send(e) ==
    /\ state[e] # "absent"
    /\ sent' = sent \cup {e}
    /\ UNCHANGED <<state, attempts, spent>>

CountFailure(e) ==
    /\ state[e] # "absent"
    /\ attempts' = [attempts EXCEPT ![e] = @ + 1]
    /\ spent' = IF attempts[e] + 1 >= Limit THEN spent \cup {e} ELSE spent
    /\ UNCHANGED <<state, sent>>

Publish(e) ==
    /\ state[e] \in {"pending", "dead"}
    /\ e \in sent
    /\ state' = [state EXCEPT ![e] = "published"]
    /\ UNCHANGED <<attempts, spent, sent>>

GiveUp(e) ==
    /\ state[e] = "pending"
    /\ e \in spent
    /\ state' = [state EXCEPT ![e] = "dead"]
    /\ UNCHANGED <<attempts, spent, sent>>

Replay(S) ==
    /\ \A e \in S : state[e] # "absent"
    /\ state' = [e \in Events |-> IF e \in S THEN "pending" ELSE state[e]]
    /\ attempts' = [e \in Events |-> IF e \in S THEN 0 ELSE attempts[e]]
    /\ UNCHANGED <<spent, sent>>

Init ==
    /\ state = [e \in Events |-> "absent"]
    /\ attempts = [e \in Events |-> 0]
    /\ spent = {}
    /\ sent = {}

Next ==
    \/ \E e \in Events :
        Record(e) \/ Send(e) \/ CountFailure(e) \/ Publish(e) \/ GiveUp(e)
    \/ \E S \in SUBSET Events : Replay(S)

Spec == Init /\ [][Next]_vars

=============================================================================
