--------------------------- MODULE RabbitConsumer ---------------------------
(***************************************************************************)
(* The RabbitMQ consumers (manage.py run_consumer): processes that take one *)
(* message at a time from a queue, acknowledge what they have processed and *)
(* what their cache has seen, and reject what they cannot read.             *)
(*                                                                         *)
(* The broker gives a message to another consumer, or to the same one       *)
(* again, when the connection it was delivered on is gone.  The process     *)
(* does not notice before it acknowledges; it reconnects, with its cache,   *)
(* or ends, without.  The cache is in the memory of the process, its        *)
(* entries expire, and it drops some when it is full.                       *)
(*                                                                         *)
(* HANDLER_REGISTRY is empty, so that process_domain_event itself does not  *)
(* fail.                                                                    *)
(***************************************************************************)
EXTENDS Naturals

CONSTANTS
    Messages,     \* what is published to the queue
    Malformed,    \* those whose body is not JSON
    Anonymous,    \* those without a message_id, which are never duplicates
    Consumers,    \* processes
    NoCopy,       \* what a consumer has at hand between two callbacks
    MaxCopies,    \* bound: how often a message is published
    MaxFaults     \* bound: lost connections and crashes

VARIABLES
    place,        \* of each copy: "unsent", "ready", "gone", or its consumer
    stage,        \* how far each process is
    atHand,       \* the copy each process's callback is at
    cache,        \* messages marked in each process's cache
    processed,    \* messages that went through process_domain_event
    faults        \* faults so far

vars == <<place, stage, atHand, cache, processed, faults>>

Copies == [message : Messages, number : 1..MaxCopies]

Stages == {"stopped", "connecting", "waiting"}
Callback == {"handling", "acking", "rejecting", "skipping"}

ASSUME KindsAreMessages == Malformed \cup Anonymous \subseteq Messages
ASSUME PlacesAreDistinct ==
    NoCopy \notin Copies /\ {"unsent", "ready", "gone"} \cap Consumers = {}
ASSUME BoundsAreNaturals == {MaxCopies, MaxFaults} \subseteq Nat
-----------------------------------------------------------------------------
(***************************************************************************)
(* The callback                                                            *)
(***************************************************************************)

\* A plausible change: a cache that outlives its process.
MutFreshCache(c) == cache[c]

FreshCache(c) == {}

\* A plausible slip: the body is handed on as it is.
MutParses(m) == TRUE

Parses(m) == m \notin Malformed

\* A plausible slip: requeue is left at its default.
MutAfterReject == "ready"

\* basic_nack(requeue=False) on a queue that is declared without a dead letter
\* exchange drops the message, as an acknowledgement does.
AfterReject == "gone"

\* The broker delivers one message (prefetch_count = 1) and is_duplicate looks
\* it up among the marks that are left, and marks it if it is new.
Deliver(c, k) ==
    /\ stage[c] = "waiting"
    /\ place[k] = "ready"
    /\ place' = [place EXCEPT ![k] = c]
    /\ atHand' = [atHand EXCEPT ![c] = k]
    /\ \E kept \in SUBSET cache[c] :
        IF k.message \in kept \ Anonymous
        THEN /\ stage' = [stage EXCEPT ![c] = "skipping"]
             /\ cache' = [cache EXCEPT ![c] = kept]
        ELSE /\ stage' = [stage EXCEPT ![c] = "handling"]
             /\ cache' = [cache EXCEPT ![c] = kept \cup ({k.message} \ Anonymous)]
    /\ UNCHANGED <<processed, faults>>

Process(c) ==
    /\ stage[c] = "handling"
    /\ Parses(atHand[c].message)
    /\ processed' = processed \cup {atHand[c].message}
    /\ stage' = [stage EXCEPT ![c] = "acking"]
    /\ UNCHANGED <<place, atHand, cache, faults>>

ProcessFails(c) ==
    /\ stage[c] = "handling"
    /\ ~Parses(atHand[c].message)
    /\ stage' = [stage EXCEPT ![c] = "rejecting"]
    /\ UNCHANGED <<place, atHand, cache, processed, faults>>

\* basic_ack or basic_nack, on the connection the message was delivered on.
Settle(c) ==
    /\ stage[c] \in {"acking", "rejecting", "skipping"}
    /\ place[atHand[c]] = c
    /\ place' = [place EXCEPT ![atHand[c]] =
                   IF stage[c] = "rejecting" THEN AfterReject ELSE "gone"]
    /\ stage' = [stage EXCEPT ![c] = "waiting"]
    /\ atHand' = [atHand EXCEPT ![c] = NoCopy]
    /\ UNCHANGED <<cache, processed, faults>>

\* The process ends, whatever it was doing; the broker takes back its message.
Stop(c) ==
    /\ place' = [k \in Copies |-> IF place[k] = c THEN "ready" ELSE place[k]]
    /\ stage' = [stage EXCEPT ![c] = "stopped"]
    /\ atHand' = [atHand EXCEPT ![c] = NoCopy]
    /\ cache' = [cache EXCEPT ![c] = FreshCache(c)]
    /\ UNCHANGED processed

\* The connection has gone meanwhile.  What basic_ack raises is caught and
\* followed by a basic_nack that raises too; the loop of start_consumer goes on
\* after an AMQPConnectionError and ends after any other exception.
Reconnects(c) ==
    /\ stage' = [stage EXCEPT ![c] = "connecting"]
    /\ atHand' = [atHand EXCEPT ![c] = NoCopy]
    /\ UNCHANGED <<place, cache, processed>>

SettleFails(c) ==
    /\ stage[c] \in {"acking", "rejecting", "skipping"}
    /\ place[atHand[c]] # c
    /\ Reconnects(c) \/ Stop(c)
    /\ UNCHANGED faults
-----------------------------------------------------------------------------
(***************************************************************************)
(* The loop of start_consumer, and the environment                         *)
(***************************************************************************)

\* Somebody runs the command (again).
Start(c) ==
    /\ stage[c] = "stopped"
    /\ stage' = [stage EXCEPT ![c] = "connecting"]
    /\ UNCHANGED <<place, atHand, cache, processed, faults>>

Connect(c) ==
    /\ stage[c] = "connecting"
    /\ stage' = [stage EXCEPT ![c] = "waiting"]
    /\ UNCHANGED <<place, atHand, cache, processed, faults>>

UseFault == faults < MaxFaults /\ faults' = faults + 1

\* A process that waits notices at once; one in its callback does not, and its
\* message is back in the queue.
LoseConnection(c) ==
    /\ stage[c] \in Callback \cup {"waiting"}
    /\ UseFault
    /\ place' = [k \in Copies |-> IF place[k] = c THEN "ready" ELSE place[k]]
    /\ stage' = [stage EXCEPT ![c] = IF @ = "waiting" THEN "connecting" ELSE @]
    /\ UNCHANGED <<atHand, cache, processed>>

\* The process is killed, or told to stop.
Crash(c) ==
    /\ stage[c] # "stopped"
    /\ UseFault
    /\ Stop(c)

\* A publisher that is not sure publishes again.
Publish(k) ==
    /\ place[k] = "unsent"
    /\ place' = [place EXCEPT ![k] = "ready"]
    /\ UNCHANGED <<stage, atHand, cache, processed, faults>>
-----------------------------------------------------------------------------
Init ==
    /\ place = [k \in Copies |-> "unsent"]
    /\ stage = [c \in Consumers |-> "stopped"]
    /\ atHand = [c \in Consumers |-> NoCopy]
    /\ cache = [c \in Consumers |-> {}]
    /\ processed = {}
    /\ faults = 0

\* What a process does by itself.
Run(c) ==
    \/ Process(c)
    \/ ProcessFails(c)
    \/ Settle(c)
    \/ SettleFails(c)
    \/ Start(c)
    \/ Connect(c)

Next ==
    \/ \E c \in Consumers :
        \/ Run(c)
        \/ \E k \in Copies : Deliver(c, k)
        \/ LoseConnection(c)
        \/ Crash(c)
    \/ \E k \in Copies : Publish(k)

Spec == Init /\ [][Next]_vars

\* Processes run, are started again and get a connection, and the broker passes
\* over no message while a consumer waits for one.
Fairness ==
    /\ \A c \in Consumers : WF_vars(Run(c))
    /\ \A k \in Copies : WF_vars(\E c \in Consumers : Deliver(c, k))

FairSpec == Spec /\ Fairness
-----------------------------------------------------------------------------
(***************************************************************************)
(* Properties                                                              *)
(***************************************************************************)

\* Types of the variables.  What the broker has with a consumer is what its
\* callback is at, and only messages that can be read are processed.
TypeOK ==
    /\ place \in [Copies -> {"unsent", "ready", "gone"} \cup Consumers]
    /\ stage \in [Consumers -> Stages \cup Callback]
    /\ atHand \in [Consumers -> Copies \cup {NoCopy}]
    /\ \A c \in Consumers : stage[c] \in Callback <=> atHand[c] # NoCopy
    /\ \A k \in Copies, c \in Consumers : place[k] = c => atHand[c] = k
    /\ cache \in [Consumers -> SUBSET Messages]
    /\ processed \subseteq Messages \ Malformed
    /\ faults \in 0..MaxFaults

\* There is nothing left to do for m.
Settled(m) == m \in processed \cup Malformed

\* A copy leaves the queue only when its message has been processed, or cannot
\* be: not when it was marked before it was processed and the process died, nor
\* when it came back over a new connection while its callback still ran
\* (callback, is_duplicate, start_consumer).
TakenIsProcessed == \A k \in Copies : place[k] = "gone" => Settled(k.message)

\* The queue, as the copies of AtLeastOnce.
Carried(k) == <<k, k.message>>

Offered == {Carried(k) : k \in {j \in Copies : place[j] # "unsent"}}

Taken == {Carried(k) : k \in {j \in Copies : place[j] = "gone"}}

Delivery == INSTANCE AtLeastOnce
    WITH Hopeless <- Malformed, offered <- Offered, taken <- Taken

\* The consumers implement delivery at least once: besides TakenIsProcessed,
\* nothing is processed that was not published, and a copy that has left the
\* queue is not put back by a connection that is lost, a process that dies or
\* a callback that settles what another consumer has by now.
ImplementsAtLeastOnce == Delivery!Spec

\* Every published copy leaves the queue in the end, after finitely many
\* faults, the unreadable ones too.
EventuallyTaken == \A k \in Copies : place[k] = "ready" ~> place[k] = "gone"
=============================================================================
