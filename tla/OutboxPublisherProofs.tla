----------------------- MODULE OutboxPublisherProofs ------------------------
(***************************************************************************)
(* Proofs about the outbox publisher, for any events, any number of         *)
(* publishers, any batch size, queue capacity, retry limit and number of    *)
(* faults.  The inductive invariant adds to the safety properties what the  *)
(* producers' queues say about the table and the broker's log.              *)
(***************************************************************************)
EXTENDS OutboxPublisher, TLAPS

\* A producer holds messages of recorded events only.
QueuedAreRecorded ==
    \A p \in Publishers, e \in Events, fate \in Fates :
        Has(p, e, fate) => e \in recorded

\* A message whose delivery is still to be reported is in the log.
DeliveredAreSent ==
    \A p \in Publishers, e \in Events : Has(p, e, "delivered") => e \in sent

\* A row is published only with processed_at, and deleted only with it.
RowsAreProcessed == published \subseteq processed /\ deleted \subseteq processed

\* An event that is to be buried, or that the look at the limit would find
\* there, has had its failures.
JudgedAreSpent ==
    \A p \in Publishers :
        judged[p] # NoEvent /\ (p \in doomed \/ Exhausted(judged[p]))
            => judged[p] \in spent

IInv ==
    /\ OutboxTypeOK
    /\ NothingForgotten
    /\ QueuedAreRecorded
    /\ DeliveredAreSent
    /\ RowsAreProcessed
    /\ JudgedAreSpent

USE DEF Fates, Steps
-----------------------------------------------------------------------------
(***************************************************************************)
(* The producers' queues                                                   *)
(***************************************************************************)

\* What becomes of a queue's counts when one message joins it.
LEMMA EnqueueCounts ==
    ASSUME OutboxTypeOK, NEW p \in Publishers, NEW e \in Events, Enqueue(p, e)
    PROVE  /\ queue' \in [Publishers -> [Messages -> Nat]]
           /\ \A q \in Publishers, x \in Events, f \in Fates :
                 Has(q, x, f)' => Has(q, x, f) \/ (x = e /\ f = "waiting")
<1> DEFINE m == <<e, "waiting">>
<1>1. m \in Messages /\ queue[p] \in [Messages -> Nat]
    BY DEF OutboxTypeOK, Messages
<1>2. queue' = [queue EXCEPT ![p] = [queue[p] EXCEPT ![m] = @ + 1]]
    BY DEF Enqueue
<1>3. queue' \in [Publishers -> [Messages -> Nat]]
    BY <1>1, <1>2 DEF OutboxTypeOK
<1>4. ASSUME NEW q \in Publishers, NEW x \in Events, NEW f \in Fates,
             ~(x = e /\ f = "waiting")
      PROVE  queue'[q][<<x, f>>] = queue[q][<<x, f>>]
    <2>1. <<x, f>> # m /\ <<x, f>> \in Messages
        BY <1>4 DEF Messages
    <2> QED BY <1>1, <1>2, <2>1 DEF OutboxTypeOK
<1> QED BY <1>3, <1>4 DEF Has

\* What becomes of them when a report is served.
LEMMA ServeCounts ==
    ASSUME OutboxTypeOK, NEW p \in Publishers, NEW e \in Events, NEW fate \in Fates,
           Has(p, e, fate), Serve(p, e, fate)
    PROVE  /\ queue' \in [Publishers -> [Messages -> Nat]]
           /\ \A q \in Publishers, x \in Events, f \in Fates :
                 Has(q, x, f)' => Has(q, x, f)
<1> DEFINE m == <<e, fate>>
<1>1. m \in Messages /\ queue[p] \in [Messages -> Nat] /\ queue[p][m] > 0
    BY DEF OutboxTypeOK, Messages, Has
<1>2. queue' = [queue EXCEPT ![p] = [queue[p] EXCEPT ![m] = @ - 1]]
    BY DEF Serve
<1>3. queue' \in [Publishers -> [Messages -> Nat]]
    BY <1>1, <1>2 DEF OutboxTypeOK
<1>4. ASSUME NEW q \in Publishers, NEW x \in Events, NEW f \in Fates
      PROVE  queue'[q][<<x, f>>] > 0 => queue[q][<<x, f>>] > 0
    <2>1. CASE <<x, f>> = m /\ q = p
        BY <1>1, <2>1
    <2>2. CASE ~(<<x, f>> = m /\ q = p)
        <3>1. <<x, f>> \in Messages
            BY DEF Messages
        <3> QED BY <1>1, <1>2, <2>2, <3>1 DEF OutboxTypeOK
    <2> QED BY <2>1, <2>2
<1> QED BY <1>3, <1>4 DEF Has

\* And when the broker answers.
LEMMA AnswerCounts ==
    ASSUME OutboxTypeOK, NEW p \in Publishers, NEW e \in Events,
           NEW fate \in {"delivered", "failed"}, Answer(p, e, fate)
    PROVE  /\ queue' \in [Publishers -> [Messages -> Nat]]
           /\ \A q \in Publishers, x \in Events, f \in Fates :
                 Has(q, x, f)' => Has(q, x, f) \/ (x = e /\ f = fate)
<1> DEFINE m == <<e, "waiting">>
           n == <<e, fate>>
<1>1. /\ m \in Messages /\ n \in Messages /\ m # n
      /\ queue[p] \in [Messages -> Nat] /\ queue[p][m] > 0
    BY DEF OutboxTypeOK, Messages, Has, Answer
<1>2. queue' = [queue EXCEPT ![p] = [queue[p] EXCEPT ![m] = @ - 1, ![n] = @ + 1]]
    BY DEF Answer
<1>3. [queue[p] EXCEPT ![m] = @ - 1, ![n] = @ + 1] \in [Messages -> Nat]
    BY <1>1
<1>4. queue' \in [Publishers -> [Messages -> Nat]]
    BY <1>2, <1>3 DEF OutboxTypeOK
<1>5. ASSUME NEW q \in Publishers, NEW x \in Events, NEW f \in Fates,
             ~(x = e /\ f = fate)
      PROVE  queue'[q][<<x, f>>] > 0 => queue[q][<<x, f>>] > 0
    <2>1. <<x, f>> # n /\ <<x, f>> \in Messages
        BY <1>5 DEF Messages
    <2>2. CASE <<x, f>> = m /\ q = p
        BY <1>1, <2>2
    <2>3. CASE ~(<<x, f>> = m /\ q = p)
        BY <1>1, <1>2, <2>1, <2>3 DEF OutboxTypeOK
    <2> QED BY <2>2, <2>3
<1> QED BY <1>4, <1>5 DEF Has

\* A producer made anew holds nothing.
LEMMA StartOverCounts ==
    ASSUME OutboxTypeOK, NEW p \in Publishers, StartOver(p)
    PROVE  /\ queue' \in [Publishers -> [Messages -> Nat]]
           /\ \A q \in Publishers, x \in Events, f \in Fates :
                 Has(q, x, f)' => Has(q, x, f)
<1>1. NoMessages \in [Messages -> Nat]
    BY DEF NoMessages
<1>2. queue' = [queue EXCEPT ![p] = NoMessages]
    BY DEF StartOver
<1>3. queue' \in [Publishers -> [Messages -> Nat]]
    BY <1>1, <1>2 DEF OutboxTypeOK
<1>4. ASSUME NEW q \in Publishers, NEW x \in Events, NEW f \in Fates
      PROVE  queue'[q][<<x, f>>] > 0 => queue[q][<<x, f>>] > 0
    <2>1. <<x, f>> \in Messages
        BY DEF Messages
    <2>2. CASE q = p
        <3>1. queue'[q][<<x, f>>] = 0
            BY <1>2, <2>1, <2>2 DEF OutboxTypeOK, NoMessages
        <3> QED BY <3>1
    <2>3. CASE q # p
        BY <1>2, <2>3 DEF OutboxTypeOK
    <2> QED BY <2>2, <2>3
<1> QED BY <1>3, <1>4 DEF Has
-----------------------------------------------------------------------------
(***************************************************************************)
(* The steps                                                               *)
(***************************************************************************)

\* Steps that leave the table and the log alone, and whose queues hold nothing
\* new but messages of the batch, preserve the invariant.
LEMMA QuietPreserves ==
    ASSUME IInv, UNCHANGED <<rows, unsendable, sent>>,
           pc' \in [Publishers -> Steps],
           batch' \in [Publishers -> SUBSET recorded],
           queue' \in [Publishers -> [Messages -> Nat]],
           judged' \in [Publishers -> recorded \cup {NoEvent}],
           doomed' \subseteq {q \in Publishers : judged'[q] # NoEvent},
           \A q \in Publishers : judged'[q] # NoEvent =>
               judged'[q] = judged[q]
               /\ (q \in doomed' => q \in doomed \/ Exhausted(judged[q])),
           faults' \in 0..MaxFaults,
           \A q \in Publishers, x \in Events, f \in Fates :
               Has(q, x, f)' => Has(q, x, f) \/ (x \in recorded /\ f = "waiting")
    PROVE  IInv'
<1>1. OutboxTypeOK'
    BY DEF IInv, OutboxTypeOK, rows
<1>2. NothingForgotten' /\ RowsAreProcessed'
    BY DEF IInv, NothingForgotten, Pending, RowsAreProcessed, rows
<1>3. QueuedAreRecorded'
    BY DEF IInv, QueuedAreRecorded, rows
<1>4. DeliveredAreSent'
    BY DEF IInv, DeliveredAreSent
<1>5. JudgedAreSpent'
    BY DEF IInv, JudgedAreSpent, Exhausted, rows
<1> QED BY <1>1, <1>2, <1>3, <1>4, <1>5 DEF IInv

\* Polling, moving on, waiting and timing out.
LEMMA MovesPreserve ==
    ASSUME IInv, NEW p \in Publishers,
           \/ Poll(p) \/ PollEnds(p) \/ FlushEnds(p) \/ FlushTimesOut(p)
           \/ \E e \in Events : BufferFull(p, e)
    PROVE  IInv'
<1>1. /\ UNCHANGED <<rows, unsendable, sent, queue, judged, doomed>>
      /\ pc' \in [Publishers -> Steps]
    BY DEF IInv, OutboxTypeOK, Poll, PollEnds, FlushEnds, FlushTimesOut, BufferFull
<1>2. faults' \in 0..MaxFaults
    BY LimitsAreNaturals
    DEF IInv, OutboxTypeOK, UseFault, Poll, PollEnds, FlushEnds, FlushTimesOut, BufferFull
<1>3. batch' \in [Publishers -> SUBSET recorded]
    <2>1. CASE Poll(p)
        BY <2>1 DEF IInv, OutboxTypeOK, Poll, Oldest, Pending
    <2> QED BY <2>1 DEF IInv, OutboxTypeOK, PollEnds, FlushEnds, FlushTimesOut, BufferFull
<1>4. /\ queue' \in [Publishers -> [Messages -> Nat]]
      /\ judged' \in [Publishers -> recorded \cup {NoEvent}]
      /\ doomed' \subseteq {q \in Publishers : judged'[q] # NoEvent}
    BY <1>1 DEF IInv, OutboxTypeOK
<1>5. \A q \in Publishers, x \in Events, f \in Fates :
          Has(q, x, f)' => Has(q, x, f)
    BY <1>1 DEF Has
<1> QED BY <1>1, <1>2, <1>3, <1>4, <1>5, QuietPreserves

\* Queueing the next event.
LEMMA QueuedPreserves ==
    ASSUME IInv, NEW p \in Publishers, NEW e \in Events,
           Produce(p, e) \/ ProduceAgain(p, e)
    PROVE  IInv'
<1>1. /\ e \in batch[p] /\ Enqueue(p, e)
      /\ UNCHANGED <<rows, unsendable, sent, judged, doomed, faults>>
      /\ batch' = [batch EXCEPT ![p] = @ \ {e}]
      /\ pc' = [pc EXCEPT ![p] = "producing"]
    BY DEF Produce, ProduceAgain, IsNext, Queued
<1>2. e \in recorded
    BY <1>1 DEF IInv, OutboxTypeOK
<1>3. OutboxTypeOK
    BY DEF IInv
<1>4. /\ pc' \in [Publishers -> Steps]
      /\ batch' \in [Publishers -> SUBSET recorded]
      /\ judged' \in [Publishers -> recorded \cup {NoEvent}]
      /\ doomed' \subseteq {q \in Publishers : judged'[q] # NoEvent}
      /\ faults' \in 0..MaxFaults
    BY <1>1 DEF IInv, OutboxTypeOK
<1> QED BY <1>1, <1>2, <1>3, <1>4, EnqueueCounts, QuietPreserves

\* Beginning again, after an exception or a crash.
LEMMA StartOverPreserves ==
    ASSUME IInv, NEW p \in Publishers, StartOver(p),
           UNCHANGED <<rows, unsendable, sent>>, faults' \in 0..MaxFaults
    PROVE  IInv'
<1>1. OutboxTypeOK
    BY DEF IInv
<1>2. /\ pc' \in [Publishers -> Steps]
      /\ batch' \in [Publishers -> SUBSET recorded]
      /\ judged' \in [Publishers -> recorded \cup {NoEvent}]
      /\ doomed' \subseteq {q \in Publishers : judged'[q] # NoEvent}
    BY DEF IInv, OutboxTypeOK, StartOver
<1>3. \A q \in Publishers : judged'[q] # NoEvent =>
          judged'[q] = judged[q] /\ (q \in doomed' => q \in doomed)
    BY DEF IInv, OutboxTypeOK, StartOver
<1> QED BY <1>1, <1>2, <1>3, StartOverCounts, QuietPreserves

\* The look at the limit: it dooms only an event that has reached it.
LEMMA JudgePreserves ==
    ASSUME IInv, NEW p \in Publishers, Judge(p)
    PROVE  IInv'
<1>1. UNCHANGED <<rows, unsendable, sent, pc, batch, queue, faults>>
    BY DEF Judge
<1>2. \/ /\ doomed' = doomed \cup {p} /\ Exhausted(judged[p])
         /\ judged' = judged /\ judged[p] # NoEvent
      \/ /\ judged' = [judged EXCEPT ![p] = NoEvent] /\ doomed' = doomed
         /\ p \notin doomed
    BY DEF Judge
<1>3. /\ judged' \in [Publishers -> recorded \cup {NoEvent}]
      /\ doomed' \subseteq {q \in Publishers : judged'[q] # NoEvent}
      /\ \A q \in Publishers : judged'[q] # NoEvent =>
            judged'[q] = judged[q]
            /\ (q \in doomed' => q \in doomed \/ Exhausted(judged[q]))
    BY <1>2 DEF IInv, OutboxTypeOK
<1>4. /\ pc' \in [Publishers -> Steps]
      /\ batch' \in [Publishers -> SUBSET recorded]
      /\ queue' \in [Publishers -> [Messages -> Nat]]
      /\ faults' \in 0..MaxFaults
    BY <1>1 DEF IInv, OutboxTypeOK
<1>5. \A q \in Publishers, x \in Events, f \in Fates :
          Has(q, x, f)' => Has(q, x, f)
    BY <1>1 DEF Has
<1> QED BY <1>1, <1>3, <1>4, <1>5, QuietPreserves

\* A counted failure leaves the poll as it is, and whoever is judged for the
\* event finds it spent once it is exhausted.
LEMMA CountingPreserves ==
    ASSUME IInv, NEW e \in recorded, CountFailure(e), CountFits(e),
           UNCHANGED <<recorded, deleted, published, processed, sent>>
    PROVE  /\ retries' \in [Events -> 0..MaxCount]
           /\ spent \subseteq spent' /\ spent' \subseteq recorded
           /\ NothingForgotten' /\ RowsAreProcessed'
           /\ \A x \in recorded :
                 Exhausted(x)' => x \in spent' \/ Exhausted(x)
           /\ Exhausted(e)' => e \in spent'
<1>1. retries' \in [Events -> 0..MaxCount]
    BY LimitsAreNaturals DEF IInv, OutboxTypeOK, CountFailure, CountFits
<1>2. spent \subseteq spent' /\ spent' \subseteq recorded
    BY DEF IInv, OutboxTypeOK, CountFailure
<1>3. NothingForgotten' /\ RowsAreProcessed'
    BY <1>2 DEF IInv, NothingForgotten, Pending, RowsAreProcessed
<1>4. ASSUME NEW x \in recorded
      PROVE  /\ x = e => (Exhausted(x)' => x \in spent')
             /\ x # e => (Exhausted(x)' => Exhausted(x))
    BY LimitsAreNaturals DEF IInv, OutboxTypeOK, CountFailure, Exhausted
<1> QED BY <1>1, <1>2, <1>3, <1>4

\* An event that cannot be queued is counted.
LEMMA CannotQueuePreserves ==
    ASSUME IInv, NEW p \in Publishers, NEW e \in Events, CannotQueue(p, e)
    PROVE  IInv'
<1>1. /\ e \in recorded /\ CountFailure(e) /\ CountFits(e)
      /\ UNCHANGED <<recorded, deleted, published, processed, unsendable, sent,
                     pc, queue, judged, doomed, faults>>
      /\ batch' = [batch EXCEPT ![p] = @ \ {e}]
    BY DEF IInv, OutboxTypeOK, CannotQueue, IsNext, Countable
<1>2. /\ retries' \in [Events -> 0..MaxCount]
      /\ spent \subseteq spent' /\ spent' \subseteq recorded
      /\ NothingForgotten' /\ RowsAreProcessed'
      /\ \A x \in recorded : Exhausted(x)' => x \in spent' \/ Exhausted(x)
    BY <1>1, CountingPreserves
<1>3. OutboxTypeOK'
    BY <1>1, <1>2 DEF IInv, OutboxTypeOK
<1>4. QueuedAreRecorded' /\ DeliveredAreSent'
    BY <1>1 DEF IInv, QueuedAreRecorded, DeliveredAreSent, Has
<1>5. JudgedAreSpent'
    <2> SUFFICES ASSUME NEW q \in Publishers, judged[q] # NoEvent,
                        q \in doomed \/ Exhausted(judged[q])'
                 PROVE  judged[q] \in spent'
        BY <1>1 DEF JudgedAreSpent, Exhausted
    <2>1. judged[q] \in recorded
        BY DEF IInv, OutboxTypeOK
    <2> QED BY <1>1, <1>2, <2>1 DEF IInv, JudgedAreSpent, Exhausted
<1> QED BY <1>2, <1>3, <1>4, <1>5 DEF IInv

\* The broker answers: what it says it delivered it has written.
LEMMA AnswersPreserve ==
    ASSUME IInv, NEW p \in Publishers, NEW e \in Events,
           Deliver(p, e) \/ Fail(p, e)
    PROVE  IInv'
<1>1. PICK fate \in {"delivered", "failed"} :
          /\ Answer(p, e, fate)
          /\ sent' \in {sent, sent \cup {e}}
          /\ fate = "delivered" => e \in sent'
    BY DEF Deliver, Fail
<1>2. OutboxTypeOK /\ Has(p, e, "waiting")
    BY <1>1 DEF IInv, Answer
<1>3. e \in recorded
    BY <1>2 DEF IInv, QueuedAreRecorded
<1>4. UNCHANGED <<rows, unsendable, pc, batch, judged, doomed, faults>>
    BY <1>1 DEF Answer
<1>5. /\ queue' \in [Publishers -> [Messages -> Nat]]
      /\ \A q \in Publishers, x \in Events, f \in Fates :
            Has(q, x, f)' => Has(q, x, f) \/ (x = e /\ f = fate)
    BY <1>1, <1>2, AnswerCounts
<1>6. OutboxTypeOK'
    BY <1>1, <1>2, <1>3, <1>4, <1>5 DEF OutboxTypeOK, rows
<1>7. NothingForgotten' /\ RowsAreProcessed' /\ JudgedAreSpent'
    BY <1>1, <1>4 DEF IInv, NothingForgotten, Pending, RowsAreProcessed,
                      JudgedAreSpent, Exhausted, rows
<1>8. QueuedAreRecorded'
    BY <1>3, <1>4, <1>5 DEF IInv, QueuedAreRecorded, rows
<1>9. DeliveredAreSent'
    BY <1>1, <1>4, <1>5 DEF IInv, DeliveredAreSent
<1> QED BY <1>6, <1>7, <1>8, <1>9 DEF IInv

\* A delivery is reported and the row marked published.
LEMMA ReportDeliveredPreserves ==
    ASSUME IInv, NEW p \in Publishers, NEW e \in Events, NEW fate \in Fates,
           ReportDelivered(p, e, fate)
    PROVE  IInv'
<1>1. OutboxTypeOK /\ Has(p, e, "delivered") /\ Serve(p, e, "delivered")
    BY DEF IInv, ReportDelivered, SaysDelivered
<1>2. e \in recorded /\ e \in sent
    BY <1>1 DEF IInv, QueuedAreRecorded, DeliveredAreSent
<1>3. /\ queue' \in [Publishers -> [Messages -> Nat]]
      /\ \A q \in Publishers, x \in Events, f \in Fates :
            Has(q, x, f)' => Has(q, x, f)
    BY <1>1, ServeCounts
<1>4. OutboxTypeOK'
    BY <1>1, <1>2, <1>3 DEF OutboxTypeOK, ReportDelivered
<1>5. NothingForgotten' /\ RowsAreProcessed'
    BY <1>2 DEF IInv, NothingForgotten, Pending, RowsAreProcessed, ReportDelivered
<1>6. QueuedAreRecorded' /\ DeliveredAreSent'
    BY <1>3 DEF IInv, QueuedAreRecorded, DeliveredAreSent, ReportDelivered
<1>7. JudgedAreSpent'
    BY DEF IInv, JudgedAreSpent, Exhausted, ReportDelivered
<1> QED BY <1>4, <1>5, <1>6, <1>7 DEF IInv

\* A failure is reported and counted.
LEMMA ReportFailedPreserves ==
    ASSUME IInv, NEW p \in Publishers, NEW e \in Events, ReportFailed(p, e)
    PROVE  IInv'
<1>1. /\ Has(p, e, "failed") /\ Serve(p, e, "failed")
      /\ CountFailure(e) /\ CountFits(e)
      /\ UNCHANGED <<recorded, deleted, published, processed, unsendable, sent,
                     pc, batch, doomed, faults>>
      /\ judged' = [judged EXCEPT ![p] = e] /\ judged[p] = NoEvent
    BY DEF ReportFailed, Countable, Flushing
<1>2. OutboxTypeOK /\ e \in recorded
    BY <1>1 DEF IInv, QueuedAreRecorded
<1>3. /\ queue' \in [Publishers -> [Messages -> Nat]]
      /\ \A q \in Publishers, x \in Events, f \in Fates :
            Has(q, x, f)' => Has(q, x, f)
    BY <1>1, <1>2, ServeCounts
<1>4. /\ retries' \in [Events -> 0..MaxCount]
      /\ spent \subseteq spent' /\ spent' \subseteq recorded
      /\ NothingForgotten' /\ RowsAreProcessed'
      /\ \A x \in recorded : Exhausted(x)' => x \in spent' \/ Exhausted(x)
      /\ Exhausted(e)' => e \in spent'
    BY <1>1, <1>2, CountingPreserves
<1>5. OutboxTypeOK'
    <2>1. /\ judged' \in [Publishers -> recorded \cup {NoEvent}]
          /\ doomed \subseteq {q \in Publishers : judged'[q] # NoEvent}
        BY <1>1, <1>2 DEF OutboxTypeOK
    <2> QED BY <1>1, <1>2, <1>3, <1>4, <2>1 DEF OutboxTypeOK
<1>6. QueuedAreRecorded' /\ DeliveredAreSent'
    BY <1>1, <1>3 DEF IInv, QueuedAreRecorded, DeliveredAreSent
<1>7. JudgedAreSpent'
    <2> SUFFICES ASSUME NEW q \in Publishers, judged'[q] # NoEvent,
                        q \in doomed \/ Exhausted(judged[q])'
                 PROVE  judged'[q] \in spent'
        BY <1>1 DEF JudgedAreSpent
    <2>1. CASE q = p
        <3>1. judged'[q] = e /\ q \notin doomed
            BY <1>1, <1>2, <2>1 DEF OutboxTypeOK
        <3> QED BY <1>4, <3>1 DEF Exhausted
    <2>2. CASE q # p
        <3>1. judged'[q] = judged[q] /\ judged[q] \in recorded
            BY <1>1, <1>2, <2>2 DEF OutboxTypeOK
        <3> QED BY <1>4, <3>1 DEF IInv, JudgedAreSpent, Exhausted
    <2> QED BY <2>1, <2>2
<1> QED BY <1>4, <1>5, <1>6, <1>7 DEF IInv

\* The doomed event is marked dead.
LEMMA BuryPreserves ==
    ASSUME IInv, NEW p \in Publishers, Bury(p)
    PROVE  IInv'
<1>1. /\ judged[p] \in recorded /\ judged[p] \in spent
      /\ UNCHANGED <<recorded, deleted, published, retries, spent, unsendable,
                     sent, pc, batch, queue, faults>>
      /\ processed' = processed \cup ({judged[p]} \ deleted)
      /\ judged' = [judged EXCEPT ![p] = NoEvent]
      /\ doomed' = doomed \ {p}
    BY DEF IInv, OutboxTypeOK, JudgedAreSpent, Bury
<1>2. OutboxTypeOK'
    BY <1>1 DEF IInv, OutboxTypeOK
<1>3. NothingForgotten' /\ RowsAreProcessed'
    <2> SUFFICES ASSUME NEW x \in recorded, x \notin Pending'
                 PROVE  IF x \in published THEN x \in sent ELSE x \in spent
        BY <1>1 DEF NothingForgotten, RowsAreProcessed, IInv
    <2>1. CASE x \notin Pending
        BY <2>1 DEF IInv, NothingForgotten
    <2>2. CASE x \in Pending
        <3>1. x = judged[p] /\ x \notin published
            BY <1>1, <2>2 DEF IInv, Pending, RowsAreProcessed
        <3> QED BY <1>1, <3>1
    <2> QED BY <2>1, <2>2
<1>4. QueuedAreRecorded' /\ DeliveredAreSent'
    BY <1>1 DEF IInv, QueuedAreRecorded, DeliveredAreSent, Has
<1>5. JudgedAreSpent'
    BY <1>1 DEF IInv, OutboxTypeOK, JudgedAreSpent, Exhausted
<1> QED BY <1>2, <1>3, <1>4, <1>5 DEF IInv

\* Rows are put back to be polled again.
LEMMA MarkAsUnprocessedPreserves ==
    ASSUME IInv, NEW S \in SUBSET Events, MarkAsUnprocessed(S)
    PROVE  IInv'
<1>1. /\ S \subseteq recorded \ deleted
      /\ published' = published \ S /\ processed' = processed \ S
      /\ retries' = [e \in Events |-> IF e \in S THEN 0 ELSE retries[e]]
      /\ UNCHANGED <<recorded, deleted, spent, unsendable, sent,
                     pc, batch, queue, judged, doomed>>
      /\ faults' \in 0..MaxFaults
    BY LimitsAreNaturals DEF IInv, OutboxTypeOK, MarkAsUnprocessed, UseFault
<1>2. OutboxTypeOK'
    BY <1>1, LimitsAreNaturals DEF IInv, OutboxTypeOK
<1>3. NothingForgotten' /\ RowsAreProcessed'
    BY <1>1 DEF IInv, NothingForgotten, Pending, RowsAreProcessed
<1>4. QueuedAreRecorded' /\ DeliveredAreSent'
    BY <1>1 DEF IInv, QueuedAreRecorded, DeliveredAreSent, Has
<1>5. JudgedAreSpent'
    <2> SUFFICES ASSUME NEW q \in Publishers, judged[q] # NoEvent,
                        q \in doomed \/ Exhausted(judged[q])'
                 PROVE  judged[q] \in spent
        BY <1>1 DEF JudgedAreSpent
    <2>1. judged[q] \in Events
        BY DEF IInv, OutboxTypeOK
    <2>2. Exhausted(judged[q])' => Exhausted(judged[q])
        BY <1>1, <2>1, LimitsAreNaturals DEF IInv, OutboxTypeOK, Exhausted
    <2> QED BY <2>2 DEF IInv, JudgedAreSpent
<1> QED BY <1>2, <1>3, <1>4, <1>5 DEF IInv

\* Old rows are deleted, which are processed.
LEMMA DeleteProcessedOldPreserves ==
    ASSUME IInv, NEW day, DeleteProcessedOld(day)
    PROVE  IInv'
<1>1. /\ deleted' \subseteq processed /\ deleted \subseteq deleted'
      /\ UNCHANGED <<recorded, published, processed, retries, spent, unsendable,
                     sent, pc, batch, queue, judged, doomed>>
      /\ faults' \in 0..MaxFaults
    BY LimitsAreNaturals
    DEF IInv, OutboxTypeOK, RowsAreProcessed, DeleteProcessedOld, UseFault
<1>2. OutboxTypeOK'
    BY <1>1 DEF IInv, OutboxTypeOK
<1>3. NothingForgotten' /\ RowsAreProcessed'
    BY <1>1 DEF IInv, NothingForgotten, Pending, RowsAreProcessed
<1>4. QueuedAreRecorded' /\ DeliveredAreSent' /\ JudgedAreSpent'
    BY <1>1 DEF IInv, QueuedAreRecorded, DeliveredAreSent, Has, JudgedAreSpent,
                Exhausted
<1> QED BY <1>2, <1>3, <1>4 DEF IInv

\* The event store records an event.
LEMMA RecordPreserves ==
    ASSUME IInv, NEW e \in Events, Record(e)
    PROVE  IInv'
<1>1. OutboxTypeOK'
    BY DEF IInv, OutboxTypeOK, Record
<1>2. /\ NothingForgotten' /\ QueuedAreRecorded' /\ DeliveredAreSent'
      /\ RowsAreProcessed' /\ JudgedAreSpent'
    BY DEF IInv, OutboxTypeOK, NothingForgotten, Pending, QueuedAreRecorded,
           DeliveredAreSent, Has, RowsAreProcessed, JudgedAreSpent, Exhausted, Record
<1> QED BY <1>1, <1>2 DEF IInv
-----------------------------------------------------------------------------
(***************************************************************************)
(* The invariant                                                           *)
(***************************************************************************)

LEMMA InitIInv == ASSUME Init PROVE IInv
<1>1. NoMessages \in [Messages -> Nat]
    BY DEF NoMessages
<1>2. \A p \in Publishers, e \in Events, f \in Fates : ~Has(p, e, f)
    BY DEF Init, Has, NoMessages, Messages
<1>3. OutboxTypeOK
    BY <1>1, LimitsAreNaturals DEF Init, OutboxTypeOK
<1> QED BY <1>2, <1>3
        DEF Init, IInv, NothingForgotten, QueuedAreRecorded, DeliveredAreSent,
            RowsAreProcessed, JudgedAreSpent

LEMMA NextIInv == ASSUME IInv, [Next]_vars PROVE IInv'
<1>1. CASE UNCHANGED vars
    BY <1>1 DEF vars, rows, IInv, OutboxTypeOK, NothingForgotten, Pending,
                QueuedAreRecorded, DeliveredAreSent, Has, RowsAreProcessed,
                JudgedAreSpent, Exhausted
<1>2. CASE Next
    <2>1. ASSUME NEW e \in Events, Record(e) PROVE IInv'
        BY <2>1, RecordPreserves
    <2>2. ASSUME NEW p \in Publishers, Loop(p) PROVE IInv'
        <3>1. faults \in 0..MaxFaults
            BY DEF IInv, OutboxTypeOK
        <3>2. CASE Poll(p) \/ PollEnds(p) \/ FlushEnds(p)
                   \/ \E e \in Events : BufferFull(p, e)
            BY <3>2, MovesPreserve
        <3>3. CASE \/ BufferStillFull(p)
                   \/ \E e \in Events : CannotCount(p, e)
                   \/ \E e \in Events, fate \in Fates : ReportRaises(p, e, fate)
            BY <3>1, <3>3, StartOverPreserves
            DEF BufferStillFull, CannotCount, ReportRaises
        <3>4. CASE \E e \in Events : Produce(p, e) \/ ProduceAgain(p, e)
            BY <3>4, QueuedPreserves
        <3> QED BY <2>2, <3>2, <3>3, <3>4, JudgePreserves DEF Loop
    <2>3. ASSUME NEW p \in Publishers, Write(p) PROVE IInv'
        BY <2>3, BuryPreserves, CannotQueuePreserves, ReportDeliveredPreserves,
           ReportFailedPreserves DEF Write
    <2>4. ASSUME NEW p \in Publishers, FlushTimesOut(p) PROVE IInv'
        BY <2>4, MovesPreserve
    <2>5. ASSUME NEW p \in Publishers, Crash(p) PROVE IInv'
        <3>1. faults' \in 0..MaxFaults
            BY <2>5, LimitsAreNaturals DEF IInv, OutboxTypeOK, Crash, UseFault
        <3> QED BY <2>5, <3>1, StartOverPreserves DEF Crash
    <2>6. ASSUME NEW p \in Publishers, NEW e \in Events,
                 Deliver(p, e) \/ Fail(p, e)
          PROVE  IInv'
        BY <2>6, AnswersPreserve
    <2>7. ASSUME NEW S \in SUBSET Events, MarkAsUnprocessed(S) PROVE IInv'
        BY <2>7, MarkAsUnprocessedPreserves
    <2>8. ASSUME NEW day, DeleteProcessedOld(day) PROVE IInv'
        BY <2>8, DeleteProcessedOldPreserves
    <2> QED BY <1>2, <2>1, <2>2, <2>3, <2>4, <2>5, <2>6, <2>7, <2>8 DEF Next
<1> QED BY <1>1, <1>2

\* The inductive invariant holds in every reachable state.
THEOREM Invariance == Spec => []IInv
<1>1. Init => IInv
    BY InitIInv
<1>2. IInv /\ [Next]_vars => IInv'
    BY NextIInv
<1> QED BY <1>1, <1>2, PTL DEF Spec

\* The table, the log, the batches and the queues have their types: in
\* particular retry_count never exceeds its column.
THEOREM TypeCorrectness == Spec => []OutboxTypeOK
<1>1. IInv => OutboxTypeOK
    BY DEF IInv
<1> QED BY <1>1, Invariance, PTL

\* No event leaves the poll without a reason that lasts: it was sent, or its
\* failures were counted to the limit, whatever was replayed or deleted.
THEOREM NoEventIsForgotten == Spec => []NothingForgotten
<1>1. IInv => NothingForgotten
    BY DEF IInv
<1> QED BY <1>1, Invariance, PTL
-----------------------------------------------------------------------------
(***************************************************************************)
(* The refinement                                                          *)
(***************************************************************************)

States == [e \in Events |-> StateOf(e)]

\* A step that changes neither the table nor the log is not seen.
LEMMA QuietIsSilent ==
    ASSUME UNCHANGED <<rows, sent>>
    PROVE  UNCHANGED Delivery!vars
<1>1. UNCHANGED <<recorded, deleted, published, processed, retries, spent, sent>>
    BY DEF rows
<1>2. States' = States
    BY <1>1 DEF States, StateOf, Pending
<1> QED BY <1>1, <1>2 DEF Delivery!vars, States

\* Every step of a publisher that counts a failure of a recorded event counts
\* an attempt.
LEMMA FailuresAreCounted ==
    ASSUME IInv, NEW p \in Publishers, NEW e \in Events,
           CannotQueue(p, e) \/ ReportFailed(p, e)
    PROVE  Delivery!CountFailure(e)
<1>1. e \in recorded
    BY DEF IInv, OutboxTypeOK, QueuedAreRecorded, CannotQueue, IsNext, ReportFailed
<1>2. /\ UNCHANGED <<recorded, deleted, published, processed, sent>>
      /\ CountFailure(e)
    BY DEF CannotQueue, ReportFailed
<1>3. States' = States /\ States[e] # "absent"
    BY <1>1, <1>2 DEF States, StateOf, Pending
<1> QED BY <1>2, <1>3 DEF Delivery!CountFailure, CountFailure, States

\* A served report of a delivery publishes its event, unless that has been done.
LEMMA ReportsPublish ==
    ASSUME IInv, NEW p \in Publishers, NEW e \in Events, NEW fate \in Fates,
           ReportDelivered(p, e, fate)
    PROVE  Delivery!Publish(e) \/ UNCHANGED Delivery!vars
<1>1. e \in recorded /\ e \in sent /\ deleted \subseteq processed
    BY DEF IInv, QueuedAreRecorded, DeliveredAreSent, RowsAreProcessed,
           ReportDelivered, SaysDelivered
<1>2. CASE e \in published
    <2>1. UNCHANGED <<rows, sent>>
        BY <1>2 DEF ReportDelivered, rows
    <2> QED BY <2>1, QuietIsSilent
<1>3. CASE e \notin published
    <2>1. /\ published' = published \cup {e} /\ processed' = processed \cup {e}
          /\ UNCHANGED <<recorded, deleted, retries, spent, sent>>
        BY <1>3 DEF ReportDelivered
    <2>2. States[e] \in {"pending", "dead"}
        BY <1>1, <1>3 DEF States, StateOf, Pending
    <2>3. States' = [States EXCEPT ![e] = "published"]
        <3>1. ASSUME NEW x \in Events
              PROVE  States'[x] = [States EXCEPT ![e] = "published"][x]
            BY <1>1, <2>1 DEF States, StateOf, Pending
        <3> QED BY <3>1 DEF States
    <2> QED BY <1>1, <2>1, <2>2, <2>3 DEF Delivery!Publish, States
<1> QED BY <1>2, <1>3

\* Burying gives the event up, unless that is done or its row is gone.
LEMMA BuryingGivesUp ==
    ASSUME IInv, NEW p \in Publishers, Bury(p)
    PROVE  Delivery!GiveUp(judged[p]) \/ UNCHANGED Delivery!vars
<1> DEFINE e == judged[p]
<1>1. /\ e \in recorded /\ recorded \subseteq Events /\ e \in spent
      /\ published \subseteq processed /\ deleted \subseteq processed
      /\ processed' = processed \cup ({e} \ deleted)
      /\ UNCHANGED <<recorded, deleted, published, retries, spent, sent>>
    BY DEF IInv, OutboxTypeOK, JudgedAreSpent, RowsAreProcessed, Bury
<1>2. CASE e \notin processed
    <2>1. processed' = processed \cup {e}
        BY <1>1, <1>2
    <2>2. States[e] = "pending"
        BY <1>1, <1>2 DEF States, StateOf, Pending
    <2>3. States' = [States EXCEPT ![e] = "dead"]
        <3>1. ASSUME NEW x \in Events
              PROVE  States'[x] = [States EXCEPT ![e] = "dead"][x]
            BY <1>1, <1>2, <2>1 DEF States, StateOf, Pending
        <3> QED BY <3>1 DEF States
    <2> QED BY <1>1, <2>2, <2>3 DEF Delivery!GiveUp, States
<1>3. CASE e \in processed
    <2>1. UNCHANGED <<rows, sent>>
        BY <1>1, <1>3 DEF rows
    <2> QED BY <2>1, QuietIsSilent
<1> QED BY <1>2, <1>3

\* What an administrator puts back is pending again.
LEMMA MarkingReplays ==
    ASSUME IInv, NEW S \in SUBSET Events, MarkAsUnprocessed(S)
    PROVE  Delivery!Replay(S)
<1>1. /\ S \subseteq recorded \ deleted
      /\ published' = published \ S /\ processed' = processed \ S
      /\ retries' = [e \in Events |-> IF e \in S THEN 0 ELSE retries[e]]
      /\ UNCHANGED <<recorded, deleted, spent, sent>>
    BY DEF MarkAsUnprocessed
<1>2. \A e \in S : States[e] # "absent"
    BY <1>1 DEF States, StateOf
<1>3. States' = [e \in Events |-> IF e \in S THEN "pending" ELSE States[e]]
    <2>1. ASSUME NEW x \in Events
          PROVE  StateOf(x)' = IF x \in S THEN "pending" ELSE StateOf(x)
        <3>1. CASE x \in S
            BY <1>1, <3>1 DEF StateOf, Pending
        <3>2. CASE x \notin S
            <4>1. (x \in Pending)' <=> x \in Pending
                BY <1>1, <3>2 DEF Pending
            <4> QED BY <1>1, <3>2, <4>1 DEF StateOf
        <3> QED BY <3>1, <3>2
    <2> QED BY <2>1 DEF States
<1> QED BY <1>1, <1>2, <1>3 DEF Delivery!Replay, States

\* Only what is no longer polled is deleted, and stays what it was.
LEMMA DeletingIsSilent ==
    ASSUME IInv, NEW day, DeleteProcessedOld(day)
    PROVE  UNCHANGED Delivery!vars
<1>1. /\ deleted \subseteq processed /\ deleted' \subseteq processed
      /\ UNCHANGED <<recorded, published, processed, retries, spent, sent>>
    BY DEF IInv, RowsAreProcessed, DeleteProcessedOld
<1>2. Pending' = Pending
    BY <1>1 DEF Pending
<1>3. States' = States
    BY <1>1, <1>2 DEF States, StateOf
<1> QED BY <1>1, <1>3 DEF Delivery!vars, States

\* Every step of the detailed specification is one of the abstract one, or is
\* not seen.
LEMMA StepsRefine ==
    ASSUME IInv, [Next]_vars
    PROVE  [Delivery!Next]_(Delivery!vars)
<1>1. CASE UNCHANGED vars
    BY <1>1, QuietIsSilent DEF vars
<1>2. ASSUME NEW e \in Events, Record(e) PROVE Delivery!Next
    <2>1. /\ e \notin recorded /\ recorded' = recorded \cup {e}
          /\ e \notin published /\ e \notin processed
          /\ e \notin deleted
          /\ UNCHANGED <<deleted, published, processed, retries, spent, sent>>
        BY <1>2 DEF Record, IInv, OutboxTypeOK
    <2>2. States[e] = "absent"
        BY <2>1 DEF States, StateOf, Pending
    <2>3. States' = [States EXCEPT ![e] = "pending"]
        <3>1. ASSUME NEW x \in Events
              PROVE  States'[x] = [States EXCEPT ![e] = "pending"][x]
            BY <2>1 DEF States, StateOf, Pending
        <3> QED BY <3>1 DEF States
    <2>4. Delivery!Record(e)
        BY <2>1, <2>2, <2>3 DEF Delivery!Record, States
    <2> QED BY <2>4 DEF Delivery!Next
<1>3. ASSUME NEW p \in Publishers, Loop(p) \/ FlushTimesOut(p) \/ Crash(p)
      PROVE  UNCHANGED Delivery!vars
    <2>1. UNCHANGED <<rows, sent>>
        BY <1>3 DEF Loop, Poll, PollEnds, BufferStillFull, FlushEnds, Produce,
                    ProduceAgain, Queued, BufferFull, CannotCount,
                    ReportRaises, Judge, FlushTimesOut, Crash
    <2> QED BY <2>1, QuietIsSilent
<1>4. ASSUME NEW p \in Publishers, Write(p)
      PROVE  [Delivery!Next]_(Delivery!vars)
    <2>1. CASE Bury(p)
        <3>1. judged[p] \in Events
            BY <2>1 DEF IInv, OutboxTypeOK, Bury
        <3> QED BY <2>1, <3>1, BuryingGivesUp DEF Delivery!Next
    <2>2. CASE \E e \in Events : CannotQueue(p, e) \/ ReportFailed(p, e)
        BY <2>2, FailuresAreCounted DEF Delivery!Next
    <2>3. CASE \E e \in Events, fate \in Fates : ReportDelivered(p, e, fate)
        BY <2>3, ReportsPublish DEF Delivery!Next
    <2> QED BY <1>4, <2>1, <2>2, <2>3 DEF Write
<1>5. ASSUME NEW p \in Publishers, NEW e \in Events, Deliver(p, e) \/ Fail(p, e)
      PROVE  [Delivery!Next]_(Delivery!vars)
    <2>1. /\ Has(p, e, "waiting") /\ UNCHANGED rows
          /\ sent' \in {sent, sent \cup {e}}
        BY <1>5 DEF Deliver, Fail, Answer
    <2>2. CASE sent' = sent
        BY <2>1, <2>2, QuietIsSilent
    <2>3. CASE sent' = sent \cup {e}
        <3>1. UNCHANGED <<recorded, deleted, published, processed, retries, spent>>
            BY <2>1 DEF rows
        <3>2. States' = States
            BY <3>1 DEF States, StateOf, Pending
        <3>3. States[e] # "absent"
            BY <2>1 DEF IInv, QueuedAreRecorded, States, StateOf
        <3>4. Delivery!Send(e)
            BY <2>3, <3>1, <3>2, <3>3 DEF Delivery!Send, States
        <3> QED BY <3>4 DEF Delivery!Next
    <2> QED BY <2>1, <2>2, <2>3
<1>6. ASSUME NEW S \in SUBSET Events, MarkAsUnprocessed(S) PROVE Delivery!Next
    BY <1>6, MarkingReplays DEF Delivery!Next
<1>7. ASSUME NEW day, DeleteProcessedOld(day) PROVE UNCHANGED Delivery!vars
    BY <1>7, DeletingIsSilent
<1> QED BY <1>1, <1>2, <1>3, <1>4, <1>5, <1>6, <1>7 DEF Next

\* Publishers, producers, broker and administrators implement the promise of
\* the outbox.
THEOREM Refinement == Spec => ImplementsDelivery
<1>1. Init => Delivery!Init
    <2> SUFFICES ASSUME Init PROVE Delivery!Init
        OBVIOUS
    <2>1. States = [e \in Events |-> "absent"]
        BY DEF Init, States, StateOf, Pending
    <2> QED BY <2>1 DEF Init, Delivery!Init, States
<1>2. IInv /\ [Next]_vars => [Delivery!Next]_(Delivery!vars)
    BY StepsRefine
<1> QED BY <1>1, <1>2, Invariance, PTL DEF Spec, ImplementsDelivery, Delivery!Spec
=============================================================================
