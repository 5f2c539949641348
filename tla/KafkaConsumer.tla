--------------------------- MODULE KafkaConsumer ----------------------------
(***************************************************************************)
(* The Kafka consumers of the payment topic: processes of one group that    *)
(* poll the partitions they own, drop what their cache has seen, dispatch   *)
(* the rest to the event bus, and commit offsets one message at a time.     *)
(* KafkaDomainConsumer, its dispatchers and DomainEventBus.                 *)
(*                                                                         *)
(* The cache is Django's default one, in the memory of the process: it dies *)
(* with the process, no other process sees it, and it drops entries when    *)
(* it is full.  A message is put into it before it is processed.            *)
(*                                                                         *)
(* Offsets count from one; a committed offset is the number of messages     *)
(* the group will not see again.                                            *)
(***************************************************************************)
EXTENDS Naturals, Sequences, FiniteSets

CONSTANTS
    Messages,     \* what is in the topic: events, each with its key
    Malformed,    \* those from_dict raises on, or whose value is no JSON
    Unknown,      \* those whose event_type has no dispatcher
    Keyless,      \* those without a key, which are never taken for duplicates
    Undecodable,  \* those whose key, header or value is not UTF-8
    Partitions,
    Consumers,    \* processes of the group
    NoOne,        \* owner of a partition that is not assigned
    Nothing,      \* a consumer that is about to poll
    CacheSize,    \* entries the cache holds before it drops some
    MaxLength,    \* bound: messages of a partition
    MaxFaults     \* bound: crashes, broker errors and lost partitions

VARIABLES
    log,          \* the messages of each partition
    committed,    \* the group's committed offset of each partition
    owner,        \* the consumer each partition is assigned to
    position,     \* the last offset its owner has polled
    alive,        \* the processes that run
    cache,        \* messages marked in each process's cache
    current,      \* the message each process is at, and how far with it
    dispatched,   \* messages that reached the event bus and came back
    faults        \* faults so far

broker == <<log, committed, owner, position>>
vars == <<broker, alive, cache, current, dispatched, faults>>

Stages == {"handling", "handled", "skipping"}

Current == [partition : Partitions, offset : 1..MaxLength, stage : Stages]

ASSUME KindsAreMessages ==
    Malformed \cup Unknown \cup Keyless \cup Undecodable \subseteq Messages
ASSUME EmptyValuesAreDistinct == NoOne \notin Consumers /\ Nothing \notin Current
ASSUME BoundsAreNaturals == {CacheSize, MaxLength, MaxFaults} \subseteq Nat
-----------------------------------------------------------------------------
(***************************************************************************)
(* Messages and the cache                                                  *)
(***************************************************************************)

MessageOf(c) == log[current[c].partition][current[c].offset]

At(c, stage) == current[c] # Nothing /\ current[c].stage = stage

\* A plausible change: a cache that outlives its process.
MutFreshCache(c) == cache[c]

FreshCache(c) == {}

IsDuplicate(c, m) == m \notin Keyless /\ m \in cache[c]

\* What the cache may hold after a message is looked up.  A full cache drops
\* entries; which ones is left open.
Marked(c, m) ==
    IF m \in Keyless \/ m \in cache[c] THEN {cache[c]}
    ELSE IF Cardinality(cache[c]) < CacheSize THEN {cache[c] \cup {m}}
    ELSE {kept \cup {m} : kept \in SUBSET cache[c]}

UseFault == faults < MaxFaults /\ faults' = faults + 1
-----------------------------------------------------------------------------
(***************************************************************************)
(* The consumer's loop                                                     *)
(***************************************************************************)

\* poll and is_duplicate: a message that is new is marked at once.
Poll(c, p) ==
    /\ c \in alive
    /\ current[c] = Nothing
    /\ owner[p] = c
    /\ position[p] < Len(log[p])
    /\ LET offset == position[p] + 1
           m == log[p][offset]
       IN
        /\ m \notin Undecodable
        /\ position' = [position EXCEPT ![p] = offset]
        /\ current' = [current EXCEPT ![c] =
                         [partition |-> p, offset |-> offset,
                          stage |-> IF IsDuplicate(c, m) THEN "skipping"
                                    ELSE "handling"]]
        /\ \E marked \in Marked(c, m) : cache' = [cache EXCEPT ![c] = marked]
    /\ UNCHANGED <<log, committed, owner, alive, dispatched, faults>>

\* The process ends, whatever it was doing, and leaves the group.
Stop(c) ==
    /\ alive' = alive \ {c}
    /\ owner' = [p \in Partitions |-> IF owner[p] = c THEN NoOne ELSE owner[p]]
    /\ cache' = [cache EXCEPT ![c] = FreshCache(c)]
    /\ current' = [current EXCEPT ![c] = Nothing]
    /\ UNCHANGED <<log, committed, position, dispatched>>

\* A message that cannot be decoded: the exception, raised outside the inner
\* try, ends the loop and the process.
PollUndecodable(c, p) ==
    /\ c \in alive
    /\ current[c] = Nothing
    /\ owner[p] = c
    /\ position[p] < Len(log[p])
    /\ log[p][position[p] + 1] \in Undecodable
    /\ Stop(c)
    /\ UNCHANGED faults

\* HANDLER_REGISTRY has a dispatcher for the message's event_type.
HasDispatcher(m) == m \notin Unknown

\* The dispatcher's from_dict makes an event of the value; otherwise it raises.
IsEvent(m) == m \notin Malformed

\* DomainEventBus.publish calls every handler and drops what they raise: it
\* always comes back, whatever was handled.
Publish(m) == dispatched' = dispatched \cup {m}

\* process_event.  Without a dispatcher nothing is called.
Process(c) ==
    /\ At(c, "handling")
    /\ LET m == MessageOf(c) IN
        IF HasDispatcher(m) THEN IsEvent(m) /\ Publish(m)
        ELSE UNCHANGED dispatched
    /\ current' = [current EXCEPT ![c].stage = "handled"]
    /\ UNCHANGED <<broker, alive, cache, faults>>

\* The dispatcher raises: logged and not committed.  The loop goes on to poll,
\* and poll returns the next message.
ProcessFails(c) ==
    /\ At(c, "handling")
    /\ HasDispatcher(MessageOf(c)) /\ ~IsEvent(MessageOf(c))
    /\ current' = [current EXCEPT ![c] = Nothing]
    /\ UNCHANGED <<broker, alive, cache, dispatched, faults>>

\* A plausible slip: the offset after the next.
MutNewOffset(c) == current[c].offset + 1

NewOffset(c) == current[c].offset

\* The group takes a commit from the partition's owner only.
Commit(c) ==
    /\ At(c, "handled") \/ At(c, "skipping")
    /\ owner[current[c].partition] = c
    /\ committed' = [committed EXCEPT ![current[c].partition] = NewOffset(c)]
    /\ current' = [current EXCEPT ![c] = Nothing]
    /\ UNCHANGED <<log, owner, position, alive, cache, dispatched, faults>>

\* A commit that is refused because the partition is another's by now, or
\* that the broker fails.
CommitRefused(c) ==
    IF owner[current[c].partition] = c THEN UseFault ELSE UNCHANGED faults

\* The commit of a processed message is inside the inner try: its exception
\* is logged and the loop goes on.
CommitFails(c) ==
    /\ At(c, "handled")
    /\ CommitRefused(c)
    /\ current' = [current EXCEPT ![c] = Nothing]
    /\ UNCHANGED <<broker, alive, cache, dispatched>>

\* The commit of a duplicate is outside of it: its exception ends the loop,
\* and with it the process.
CommitOfDuplicateFails(c) ==
    /\ At(c, "skipping")
    /\ CommitRefused(c)
    /\ Stop(c)

\* poll returns an error, which is raised; or the process dies.
Crash(c) ==
    /\ c \in alive
    /\ UseFault
    /\ Stop(c)
-----------------------------------------------------------------------------
(***************************************************************************)
(* The environment                                                         *)
(***************************************************************************)

\* Somebody runs the command (again).
Start(c) ==
    /\ c \notin alive
    /\ alive' = alive \cup {c}
    /\ UNCHANGED <<broker, cache, current, dispatched, faults>>

\* A plausible slip: auto.offset.reset = latest, and no offset is found.
MutFirstPosition(p) == Len(log[p])

\* A plausible change: a consumer that joins reads its partition from the start.
MutStartOfLog(p) == 0

\* The group's coordinator gives a partition to a consumer, which learns of it
\* in poll, and begins at the committed offset.
FirstPosition(p) == committed[p]

Assign(p, c) ==
    /\ owner[p] = NoOne
    /\ c \in alive
    /\ current[c] = Nothing
    /\ owner' = [owner EXCEPT ![p] = c]
    /\ position' = [position EXCEPT ![p] = FirstPosition(p)]
    /\ UNCHANGED <<log, committed, alive, cache, current, dispatched, faults>>

\* The coordinator takes a partition away, from a consumer that has been too
\* slow for it or to balance the group.
Revoke(p) ==
    /\ owner[p] # NoOne
    /\ UseFault
    /\ owner' = [owner EXCEPT ![p] = NoOne]
    /\ UNCHANGED <<log, committed, position, alive, cache, current, dispatched>>

\* The publisher delivers at least once: the same message may arrive again, in
\* this partition or in another.
Arrive(p, m) ==
    /\ Len(log[p]) < MaxLength
    /\ log' = [log EXCEPT ![p] = Append(@, m)]
    /\ UNCHANGED <<committed, owner, position, alive, cache, current,
                   dispatched, faults>>
-----------------------------------------------------------------------------
Init ==
    /\ log = [p \in Partitions |-> <<>>]
    /\ committed = [p \in Partitions |-> 0]
    /\ owner = [p \in Partitions |-> NoOne]
    /\ position = [p \in Partitions |-> 0]
    /\ alive = {}
    /\ cache = [c \in Consumers |-> {}]
    /\ current = [c \in Consumers |-> Nothing]
    /\ dispatched = {}
    /\ faults = 0

\* The loop of one consumer.
Loop(c) ==
    \/ \E p \in Partitions : Poll(c, p) \/ PollUndecodable(c, p)
    \/ Process(c)
    \/ ProcessFails(c)
    \/ Commit(c)
    \/ CommitFails(c)
    \/ CommitOfDuplicateFails(c)

Next ==
    \/ \E c \in Consumers : Loop(c) \/ Crash(c) \/ Start(c)
    \/ \E p \in Partitions :
        \/ \E c \in Consumers : Assign(p, c)
        \/ Revoke(p)
        \/ \E m \in Messages : Arrive(p, m)

Spec == Init /\ [][Next]_vars

\* Processes run, one that ended is started again, and the coordinator leaves
\* no partition without an owner.
Fairness ==
    /\ \A c \in Consumers : WF_vars(Loop(c)) /\ WF_vars(Start(c))
    /\ \A p \in Partitions : WF_vars(\E c \in Consumers : Assign(p, c))

FairSpec == Spec /\ Fairness
-----------------------------------------------------------------------------
(***************************************************************************)
(* Properties                                                              *)
(***************************************************************************)

\* Types of the variables.
TypeOK ==
    /\ log \in [Partitions -> Seq(Messages)]
    /\ \A p \in Partitions : Len(log[p]) <= MaxLength
    /\ committed \in [Partitions -> 0..MaxLength]
    /\ owner \in [Partitions -> Consumers \cup {NoOne}]
    /\ position \in [Partitions -> 0..MaxLength]
    /\ alive \subseteq Consumers
    /\ cache \in [Consumers -> SUBSET Messages]
    /\ current \in [Consumers -> Current \cup {Nothing}]
    /\ dispatched \subseteq Messages
    /\ faults \in 0..MaxFaults

\* There is nothing left to do for m: it was dispatched, or cannot be.
Settled(m) == m \in dispatched \cup Malformed \cup Unknown

\* Every message the group will not see again was dispatched, unless it never
\* can be: neither a process that dies between marking and dispatching, nor a
\* partition that moves in the middle of a message, nor a duplicate that is
\* dropped, nor a commit that comes late makes the group skip one (start).
NothingLost ==
    \A p \in Partitions : \A i \in 1..committed[p] :
        i <= Len(log[p]) /\ Settled(log[p][i])

\* The mark that is_duplicate sets too early is never believed too early: a
\* message in the cache of a process is settled, or is the one the process is
\* handling.  This is what a cache shared by processes would break.
MarkedIsHandled ==
    \A c \in Consumers : \A m \in cache[c] :
        Settled(m) \/ (At(c, "handling") /\ MessageOf(c) = m)

\* The offsets of the topic, as the copies of AtLeastOnce.
Offsets == Partitions \X (1..MaxLength)

Carried(copy) == <<copy, log[copy[1]][copy[2]]>>

Offered == {Carried(copy) : copy \in {x \in Offsets : x[2] <= Len(log[x[1]])}}

Taken == {d \in Offered : d[1][2] <= committed[d[1][1]]}

Delivery == INSTANCE AtLeastOnce
    WITH Copies <- Offsets, Hopeless <- Malformed \cup Unknown,
         offered <- Offered, taken <- Taken, processed <- dispatched

\* The consumers implement delivery at least once: besides NothingLost, nothing
\* is dispatched that is not in the topic, and no commit, of a duplicate, of a
\* consumer that has just got the partition or of one that is late, takes the
\* group's offset back over messages it has done with.
ImplementsAtLeastOnce == Delivery!Spec

\* Every message that can be dispatched is, after finitely many faults.  What
\* may prevent it is a message that cannot be decoded: every process that polls
\* it dies of it, and the next one begins with it again.
EventuallyDispatched ==
    \A m \in Messages \ (Malformed \cup Unknown \cup Undecodable) :
        (\E p \in Partitions : \E i \in 1..Len(log[p]) : log[p][i] = m) ~>
            \/ m \in dispatched
            \/ \E p \in Partitions : \E i \in 1..Len(log[p]) :
                  log[p][i] \in Undecodable

(***************************************************************************)
(* What the repository says and the code does not do                       *)
(***************************************************************************)

\* "Do NOT commit - retry on next poll" (messaging/kafka/consumer.py): a
\* message that was polled and could not be processed stays uncommitted.
FailedStaysUncommitted ==
    \A p \in Partitions : \A i \in 1..committed[p] :
        log[p][i] \notin Malformed \ Unknown
=============================================================================
