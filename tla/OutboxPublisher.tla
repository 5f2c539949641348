-------------------------- MODULE OutboxPublisher ---------------------------
(***************************************************************************)
(* The outbox publisher: processes that poll the EventOutbox table, queue   *)
(* what they find with a Kafka producer of their own, and write the table   *)
(* again from the producer's delivery reports.  OutboxKafkaPublisher and    *)
(* the methods of DjangoOutBoxORMRepository it calls.                       *)
(*                                                                         *)
(* Every statement on the table is a step: the polling transaction (it      *)
(* holds its row locks until it ends, and it ends before anything is        *)
(* produced), the UPDATEs of mark_as_published and mark_as_failed, and the  *)
(* look at the retry limit that follows a failure.  The broker answers at   *)
(* any time; reports are served only inside flush.  A producer that is      *)
(* dropped takes its unserved messages with it.  Meanwhile administrators   *)
(* put events back for replay, and delete old ones (EventOutboxAdmin).      *)
(*                                                                         *)
(* Events are numbered by created_at, the order of the poll.                *)
(***************************************************************************)
EXTENDS Naturals, FiniteSets, Functions

CONSTANTS
    Events,       \* the numbers of the events that may be recorded
    Publishers,   \* publisher processes
    NoEvent,      \* no failure waits for the retry limit to be looked at
    BatchSize,    \* rows of one poll (20 in publish_events)
    Capacity,     \* messages a producer's local queue holds
    Limit,        \* KAFKA_RETRIES
    MaxCount,     \* the largest value of retry_count, a smallint column
    MaxFaults     \* bound: flushes that time out, deaths, administrators' actions

VARIABLES
    recorded,     \* events that got a row in EventOutbox
    deleted,      \* those whose row an administrator has deleted
    published,    \* rows whose published_at is set
    processed,    \* rows whose processed_at is set
    retries,      \* retry_count of each row
    spent,        \* history: events with Limit failures and no replay between
    unsendable,   \* events the producer refuses to queue (too large); fixed
    sent,         \* events in the broker's log
    pc,           \* where each publisher stands in publish_events
    batch,        \* events polled by each publisher and not yet queued
    queue,        \* messages of each producer: how many of each event and fate
    judged,       \* event whose failure was counted, before the limit is looked at
    doomed,       \* publishers that found their judged event over the limit
    faults        \* faults so far

rows == <<recorded, deleted, published, processed, retries, spent>>
vars == <<rows, unsendable, sent, pc, batch, queue, judged, doomed, faults>>

Fates == {"waiting", "delivered", "failed"}

\* A message is known by its event; copies of one event are counted.
Messages == Events \X Fates

Steps == {"idle", "polling", "producing", "draining", "retrying"}

ASSUME EventsAreNumbered == Events \subseteq Nat /\ IsFiniteSet(Events)
ASSUME NoEventIsNone == NoEvent \notin Events
ASSUME LimitsAreNaturals ==
    {BatchSize, Capacity, Limit, MaxCount, MaxFaults} \subseteq Nat
-----------------------------------------------------------------------------
(***************************************************************************)
(* The table                                                               *)
(***************************************************************************)

\* A plausible slip: what has failed once is not polled again.
MutPending == {e \in recorded \ (processed \cup deleted) : retries[e] = 0}

\* Rows a poll selects from.
Pending == recorded \ (processed \cup deleted)

\* Rows held by the polling transaction of some publisher.
Locked == UNION {batch[q] : q \in {q \in Publishers : pc[q] = "polling"}}

\* The first BatchSize of S by created_at.
Oldest(S) == {e \in S : Cardinality({x \in S : x < e}) < BatchSize}

\* A plausible slip: the last value of the column is taken for free.
MutCountFits(e) == retries[e] <= MaxCount

\* The count of one more failure still fits its column.
CountFits(e) == retries[e] < MaxCount

\* mark_as_failed finds the row, and the row takes the count.
Countable(e) == e \notin deleted /\ CountFits(e)

Exhausted(e) == retries[e] >= Limit

CountFailure(e) ==
    /\ retries' = [retries EXCEPT ![e] = @ + 1]
    /\ spent' = IF retries[e] + 1 >= Limit THEN spent \cup {e} ELSE spent

UseFault == faults < MaxFaults /\ faults' = faults + 1
-----------------------------------------------------------------------------
(***************************************************************************)
(* The producer                                                            *)
(***************************************************************************)

NoMessages == [m \in Messages |-> 0]

Outstanding(p) == FoldFunction(LAMBDA n, sum : n + sum, 0, queue[p])

Has(p, e, fate) == queue[p][<<e, fate>>] > 0

\* produce: the message joins the queue.
Enqueue(p, e) == queue' = [queue EXCEPT ![p][<<e, "waiting">>] = @ + 1]

\* A delivery report is served: its message leaves the queue.
Serve(p, e, fate) == queue' = [queue EXCEPT ![p][<<e, fate>>] = @ - 1]

\* flush runs when the local queue was full, and when the batch is queued.
Flushing(p) ==
    /\ judged[p] = NoEvent
    /\ \/ pc[p] = "draining"
       \/ pc[p] = "producing" /\ batch[p] = {}

\* The exception leaves publish_events (or the process dies): the batch and
\* the producer, with every message that was not reported, are forgotten, and
\* the loop begins again with a new producer.
StartOver(p) ==
    /\ pc' = [pc EXCEPT ![p] = "idle"]
    /\ batch' = [batch EXCEPT ![p] = {}]
    /\ queue' = [queue EXCEPT ![p] = NoMessages]
    /\ judged' = [judged EXCEPT ![p] = NoEvent]
    /\ doomed' = doomed \ {p}
-----------------------------------------------------------------------------
(***************************************************************************)
(* publish_events                                                          *)
(***************************************************************************)

\* get_unpublished_events: SELECT ... FOR UPDATE SKIP LOCKED.  A poll that
\* finds nothing returns, and changes nothing: not even a flush is tried.
Poll(p) ==
    /\ pc[p] = "idle"
    /\ LET polled == Oldest(Pending \ Locked) IN
        /\ polled # {}
        /\ batch' = [batch EXCEPT ![p] = polled]
    /\ pc' = [pc EXCEPT ![p] = "polling"]
    /\ UNCHANGED <<rows, unsendable, sent, queue, judged, doomed, faults>>

\* The transaction of the poll ends, and with it the row locks.
PollEnds(p) ==
    /\ pc[p] = "polling"
    /\ pc' = [pc EXCEPT ![p] = "producing"]
    /\ UNCHANGED <<rows, unsendable, sent, batch, queue, judged, doomed, faults>>

\* The event the loop has come to.
IsNext(p, e) == e \in batch[p] /\ \A x \in batch[p] : e <= x

Queued(p, e) ==
    /\ Enqueue(p, e)
    /\ batch' = [batch EXCEPT ![p] = @ \ {e}]
    /\ pc' = [pc EXCEPT ![p] = "producing"]
    /\ UNCHANGED <<rows, unsendable, sent, judged, doomed, faults>>

Produce(p, e) ==
    /\ pc[p] = "producing"
    /\ IsNext(p, e)
    /\ e \notin unsendable
    /\ Outstanding(p) < Capacity
    /\ Queued(p, e)

\* BufferError: the queue is flushed before one more try.
BufferFull(p, e) ==
    /\ pc[p] = "producing"
    /\ IsNext(p, e)
    /\ e \notin unsendable
    /\ Outstanding(p) >= Capacity
    /\ pc' = [pc EXCEPT ![p] = "draining"]
    /\ UNCHANGED <<rows, unsendable, sent, batch, queue, judged, doomed, faults>>

ProduceAgain(p, e) ==
    /\ pc[p] = "retrying"
    /\ IsNext(p, e)
    /\ Outstanding(p) < Capacity
    /\ Queued(p, e)

\* The second BufferError is raised inside an except clause: nothing in
\* publish_events catches it.
BufferStillFull(p) ==
    /\ pc[p] = "retrying"
    /\ Outstanding(p) >= Capacity
    /\ StartOver(p)
    /\ UNCHANGED <<rows, unsendable, sent, faults>>

\* produce raises anything else: mark_as_failed, whatever the count is.
CannotQueue(p, e) ==
    /\ pc[p] = "producing"
    /\ IsNext(p, e)
    /\ e \in unsendable
    /\ Countable(e)
    /\ e \notin Locked
    /\ CountFailure(e)
    /\ batch' = [batch EXCEPT ![p] = @ \ {e}]
    /\ UNCHANGED <<recorded, deleted, published, processed, unsendable, sent,
                   pc, queue, judged, doomed, faults>>

\* The same when the column is at its limit or the row is gone: the UPDATE
\* raises, inside an except clause again.
CannotCount(p, e) ==
    /\ pc[p] = "producing"
    /\ IsNext(p, e)
    /\ e \in unsendable
    /\ ~Countable(e)
    /\ StartOver(p)
    /\ UNCHANGED <<rows, unsendable, sent, faults>>

\* flush returns: everything was reported.
FlushEnds(p) ==
    /\ Flushing(p)
    /\ queue[p] = NoMessages
    /\ pc' = [pc EXCEPT ![p] = IF @ = "draining" THEN "retrying" ELSE "idle"]
    /\ UNCHANGED <<rows, unsendable, sent, batch, queue, judged, doomed, faults>>

\* flush gives up after ten seconds without an answer.  The messages stay in
\* the queue, to be reported in the flush of a later round.
FlushTimesOut(p) ==
    /\ Flushing(p)
    /\ \E e \in Events : Has(p, e, "waiting")
    /\ \A e \in Events : ~Has(p, e, "delivered") /\ ~Has(p, e, "failed")
    /\ UseFault
    /\ pc' = [pc EXCEPT ![p] = IF @ = "draining" THEN "retrying" ELSE "idle"]
    /\ UNCHANGED <<rows, unsendable, sent, batch, queue, judged, doomed>>
-----------------------------------------------------------------------------
(***************************************************************************)
(* The broker, and _delivery_report                                        *)
(***************************************************************************)

Answer(p, e, fate) ==
    /\ Has(p, e, "waiting")
    /\ queue' = [queue EXCEPT ![p][<<e, "waiting">>] = @ - 1,
                              ![p][<<e, fate>>] = @ + 1]
    /\ UNCHANGED <<rows, unsendable, pc, batch, judged, doomed, faults>>

\* The broker has written the message and acknowledges it.
Deliver(p, e) ==
    /\ Answer(p, e, "delivered")
    /\ sent' = sent \cup {e}

\* The producer gives a message up; it may have been written all the same.
Fail(p, e) ==
    /\ Answer(p, e, "failed")
    /\ sent' \in {sent, sent \cup {e}}

\* A plausible slip: the report's error is not looked at.
MutSaysDelivered(fate) == fate \in {"delivered", "failed"}

SaysDelivered(fate) == fate = "delivered"

\* mark_as_published: an UPDATE of the row unless published_at is set.
ReportDelivered(p, e, fate) ==
    /\ Flushing(p)
    /\ Has(p, e, fate)
    /\ SaysDelivered(fate)
    /\ e \notin Locked \cup deleted
    /\ Serve(p, e, fate)
    /\ published' = published \cup {e}
    /\ processed' = IF e \in published THEN processed ELSE processed \cup {e}
    /\ UNCHANGED <<recorded, deleted, retries, spent, unsendable, sent,
                   pc, batch, judged, doomed, faults>>

\* mark_as_failed.
ReportFailed(p, e) ==
    /\ Flushing(p)
    /\ Has(p, e, "failed")
    /\ ~SaysDelivered("failed")
    /\ Countable(e)
    /\ e \notin Locked
    /\ CountFailure(e)
    /\ Serve(p, e, "failed")
    /\ judged' = [judged EXCEPT ![p] = e]
    /\ UNCHANGED <<recorded, deleted, published, processed, unsendable, sent,
                   pc, batch, doomed, faults>>

\* mark_as_failed raises, or mark_as_published does not find its row: the
\* callback's exception leaves flush.
ReportRaises(p, e, fate) ==
    /\ Flushing(p)
    /\ Has(p, e, fate)
    /\ \/ SaysDelivered(fate) /\ e \in deleted
       \/ fate = "failed" /\ ~SaysDelivered(fate) /\ ~Countable(e)
    /\ StartOver(p)
    /\ UNCHANGED <<rows, unsendable, sent, faults>>

\* The row is read again, if it is still there.
Judge(p) ==
    /\ judged[p] # NoEvent /\ p \notin doomed
    /\ IF judged[p] \notin deleted /\ Exhausted(judged[p])
       THEN doomed' = doomed \cup {p} /\ UNCHANGED judged
       ELSE judged' = [judged EXCEPT ![p] = NoEvent] /\ UNCHANGED doomed
    /\ UNCHANGED <<rows, unsendable, sent, pc, batch, queue, faults>>

\* And marked dead, whatever it has become.
Bury(p) ==
    /\ p \in doomed
    /\ judged[p] \notin Locked
    /\ processed' = processed \cup ({judged[p]} \ deleted)
    /\ judged' = [judged EXCEPT ![p] = NoEvent]
    /\ doomed' = doomed \ {p}
    /\ UNCHANGED <<recorded, deleted, published, retries, spent, unsendable,
                   sent, pc, batch, queue, faults>>
-----------------------------------------------------------------------------
(***************************************************************************)
(* The environment                                                         *)
(***************************************************************************)

\* The event store commits a row.  Transactions that overlap commit in any
\* order, so a row may appear before one with an older created_at.
Record(e) ==
    /\ e \notin recorded
    /\ recorded' = recorded \cup {e}
    /\ UNCHANGED <<deleted, published, processed, retries, spent, unsendable,
                   sent, pc, batch, queue, judged, doomed, faults>>

\* An administrator marks events as unprocessed, for replay.
MarkAsUnprocessed(S) ==
    /\ S # {} /\ S \subseteq recorded \ (deleted \cup Locked)
    /\ UseFault
    /\ published' = published \ S
    /\ processed' = processed \ S
    /\ retries' = [e \in Events |-> IF e \in S THEN 0 ELSE retries[e]]
    /\ UNCHANGED <<recorded, deleted, spent, unsendable, sent,
                   pc, batch, queue, judged, doomed>>

\* An administrator deletes the processed events that were created before some
\* day, published or dead.
DeleteProcessedOld(day) ==
    /\ deleted' = deleted \cup {e \in processed : e < day}
    /\ deleted' # deleted
    /\ UseFault
    /\ UNCHANGED <<recorded, published, processed, retries, spent, unsendable,
                   sent, pc, batch, queue, judged, doomed>>

\* The process dies, or is stopped, and is started again.  Between two rounds
\* and with nothing left to report it has nothing to lose.
Crash(p) ==
    /\ pc[p] # "idle" \/ queue[p] # NoMessages
    /\ UseFault
    /\ StartOver(p)
    /\ UNCHANGED <<rows, unsendable, sent>>
-----------------------------------------------------------------------------
Init ==
    /\ recorded = {} /\ deleted = {} /\ published = {} /\ processed = {}
    /\ retries = [e \in Events |-> 0]
    /\ spent = {}
    /\ unsendable \in SUBSET Events
    /\ sent = {}
    /\ pc = [p \in Publishers |-> "idle"]
    /\ batch = [p \in Publishers |-> {}]
    /\ queue = [p \in Publishers |-> NoMessages]
    /\ judged = [p \in Publishers |-> NoEvent]
    /\ doomed = {}
    /\ faults = 0

\* A publisher's loop, but for the UPDATEs.
Loop(p) ==
    \/ Poll(p)
    \/ PollEnds(p)
    \/ BufferStillFull(p)
    \/ FlushEnds(p)
    \/ Judge(p)
    \/ \E e \in Events :
        \/ Produce(p, e)
        \/ BufferFull(p, e)
        \/ ProduceAgain(p, e)
        \/ CannotCount(p, e)
        \/ \E fate \in Fates : ReportRaises(p, e, fate)

\* The UPDATEs, which wait for the row lock of a poll.
Write(p) ==
    \/ Bury(p)
    \/ \E e \in Events :
        \/ CannotQueue(p, e)
        \/ \E fate \in Fates : ReportDelivered(p, e, fate)
        \/ ReportFailed(p, e)

Next ==
    \/ \E e \in Events : Record(e)
    \/ \E S \in SUBSET Events : MarkAsUnprocessed(S)
    \/ \E day \in {e + 1 : e \in Events} : DeleteProcessedOld(day)
    \/ \E p \in Publishers :
        \/ Loop(p)
        \/ Write(p)
        \/ FlushTimesOut(p)
        \/ Crash(p)
        \/ \E e \in Events : Deliver(p, e) \/ Fail(p, e)

Spec == Init /\ [][Next]_vars

\* The publisher's loop goes on; who waits for a row lock gets it, though
\* others poll the row again and again; and a message is answered some time:
\* the producer itself gives it up when its own timeout is over.
Fairness ==
    \A p \in Publishers :
        /\ WF_vars(Loop(p)) /\ SF_vars(Write(p))
        /\ WF_vars(\E e \in Events : Deliver(p, e) \/ Fail(p, e))

FairSpec == Spec /\ Fairness
-----------------------------------------------------------------------------
(***************************************************************************)
(* Properties                                                              *)
(***************************************************************************)

\* Types of the variables.
OutboxTypeOK ==
    /\ recorded \subseteq Events
    /\ published \subseteq recorded
    /\ processed \subseteq recorded
    /\ deleted \subseteq recorded
    /\ retries \in [Events -> 0..MaxCount]
    /\ spent \subseteq recorded
    /\ unsendable \subseteq Events
    /\ sent \subseteq recorded
    /\ pc \in [Publishers -> Steps]
    /\ batch \in [Publishers -> SUBSET recorded]
    /\ queue \in [Publishers -> [Messages -> Nat]]
    /\ judged \in [Publishers -> recorded \cup {NoEvent}]
    /\ doomed \subseteq {p \in Publishers : judged[p] # NoEvent}
    /\ faults \in 0..MaxFaults

\* An event leaves the poll only for a reason that lasts: it is in the
\* broker's log, or Limit failures of it were counted in a row.  Whatever
\* publishers overlap, time out or die between producing, reporting and
\* marking, and whatever administrators replay or delete meanwhile, no event is
\* forgotten (_delivery_report, mark_as_published, EventOutboxAdmin).
NothingForgotten ==
    \A e \in recorded \ Pending :
        IF e \in published THEN e \in sent ELSE e \in spent

StateOf(e) ==
    CASE e \notin recorded -> "absent"
      [] e \in Pending     -> "pending"
      [] e \in published \ Pending -> "published"
      [] OTHER             -> "dead"

Delivery == INSTANCE OutboxDelivery
    WITH state <- [e \in Events |-> StateOf(e)], attempts <- retries

\* Several publishers with their producers implement the outbox's promise:
\* every write of the table is one legal step of one event.
ImplementsDelivery == Delivery!Spec

\* Every event that is recorded, or put back for replay, is published or dead in
\* the end: faults that stop leave no row behind that nobody would poll, report
\* or judge.  The one
\* thing that blocks the outbox is an event that cannot be queued: it is counted
\* and polled again until its counter is full, and then every round that
\* reaches it is abandoned, with what was queued before it.
EventuallySettled ==
    \A e \in Events : e \in recorded ~>
        \/ e \in processed
        \/ \E u \in unsendable : ~CountFits(u)
=============================================================================
