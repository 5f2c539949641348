-------------------------- MODULE PaymentLifecycle --------------------------
(***************************************************************************)
(* The abstract specification of one payment: a status that moves along a  *)
(* fixed graph, one move at a time, whoever asks for it.  It is what the   *)
(* event-sourced implementation (PaymentEventStore), with its concurrent   *)
(* readers and optimistic writers, has to look like from outside.          *)
(*                                                                         *)
(* The graph is the one PaymentAggregate enforces with its guard clauses,  *)
(* and so includes FAILED -> SUCCEEDED.                                    *)
(***************************************************************************)

CONSTANT Payments   \* the identifiers a payment may have

VARIABLE status     \* the status of each payment, "NONE" before it exists

Statuses ==
    {"PENDING", "PROCESSING", "SUCCEEDED", "FAILED", "CANCELLED", "REFUNDED"}

\* The moves the aggregate's command methods make: process, succeed, fail,
\* cancel and mark_as_refunded, each behind its _ensure_ guard.
Moves ==
         {<<"PENDING", "PROCESSING">>, <<"PENDING", "CANCELLED">>}
    \cup {"PENDING", "PROCESSING", "FAILED"} \X {"SUCCEEDED", "FAILED"}
    \cup {<<"SUCCEEDED", "REFUNDED">>}

Open(p) ==
    /\ status[p] = "NONE"
    /\ status' = [status EXCEPT ![p] = "PENDING"]

Move(p, s) ==
    /\ <<status[p], s>> \in Moves
    /\ status' = [status EXCEPT ![p] = s]

Init == status = [p \in Payments |-> "NONE"]

Next == \E p \in Payments : Open(p) \/ \E s \in Statuses : Move(p, s)

Spec == Init /\ [][Next]_status

=============================================================================
