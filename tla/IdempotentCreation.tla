------------------------- MODULE IdempotentCreation -------------------------
(***************************************************************************)
(* Creating a payment under an Idempotency-Key: the executor that wraps    *)
(* the four creation commands, the service that claims a key or replays    *)
(* its answer, and the row of the idempotency_keys table they share.       *)
(*                                                                         *)
(* Each database statement or transaction of the code is a step of its     *)
(* own, for between two of them every other request may run:               *)
(*                                                                         *)
(*   Begin     the fast path: is there an answer to replay?                *)
(*   Claim     the locked read of claim_or_replay; its transaction ends    *)
(*             before the row is written                                   *)
(*   Insert, Steal       the write that makes the request the holder       *)
(*   Execute   the creation command (PaymentEventStore, in one step)       *)
(*   Read..., Save...    record_success and record_failure: an unlocked    *)
(*             read that checks the row, then a locked overwrite           *)
(*                                                                         *)
(* Rows carry a primary key (idempotency_id) of their own: a key whose row *)
(* was cleaned up gets a new row.  The user is part of the key.  locked_by *)
(* is left out: no code path reads it to decide anything.  A reply that is *)
(* an error leaves the request where it began.                             *)
(***************************************************************************)
EXTENDS Naturals, FiniteSets

CONSTANTS
    Requests,     \* requests in flight, over all processes of the service
    Keys,         \* idempotency keys, each with its user
    Payloads,     \* request bodies; the fingerprint of a body is the body
    Refunds,      \* those of them sent to the refund endpoint
    Payments,     \* payment ids
    NoPayment,    \* no payment_id in a body, no payment in an answer
    ChosenId,     \* the payment_id a body asks for
    TestAnswers,  \* the payment_ids of bodies sent to record_test_failure
    NoRow,        \* no row in the table
    NoRequest,    \* a slot without a request
    MaxRows,      \* bound: rows ever inserted for one key
    MaxFaults     \* bound: requests that die or lose the database

VARIABLES
    rows,         \* rows[k]: the row of key k
    inserted,     \* inserted[k]: how many rows k ever had
    expired,      \* expired[k]: the expires_at values, by row, now past
    unguarded,    \* history: the rows <<k, i>> once seen PENDING and not locked
    created,      \* the payments in the event store, and who asked for them
    request,      \* request[r]: where r is and what it remembers
    faults

vars == <<rows, inserted, expired, unguarded, created, request, faults>>

Statuses == {"PENDING", "COMPLETED", "FAILED"}
Locks == {"none", "live", "lapsed"}

IdRow == [id          : Nat \ {0},
          expiry      : Nat \ {0},
          fingerprint : Payloads,
          status      : Statuses,
          lock        : Locks,
          answer      : Payments \cup {NoPayment}]

Steps == {"claim", "insert", "steal", "execute", "readSuccess", "saveSuccess",
          "readFailure", "saveFailure", "saveTest", "answered", "answeredFailed"}

\* row is the row the request claims; seen is what record_* has read; payment is
\* what it has created, what it is told or, in "saveTest", what it will record.
Request == [step    : Steps,
            key     : Keys,
            payload : Payloads,
            row     : Nat,
            seen    : [fingerprint : Payloads, expiry : Nat],
            payment : Payments \cup {NoPayment}]

Creation == [id : Payments, key : Keys, row : Nat, payload : Payloads]

\* What IdempotencyKey says of a row.
Entry == [number : Nat \ {0}, body : Payloads, status : Statuses,
          answer : Payments \cup {NoPayment}]

ASSUME NothingIsDistinct ==
    /\ NoPayment \notin Payments
    /\ NoRow \notin IdRow \cup Entry
    /\ NoRequest \notin Request
ASSUME BodiesAreBodies ==
    /\ Refunds \subseteq Payloads
    /\ ChosenId \in [Payloads -> Payments \cup {NoPayment}]
    /\ TestAnswers \subseteq Payments \cup {NoPayment}
ASSUME BoundsAreNaturals == MaxRows \in Nat \ {0} /\ MaxFaults \in Nat
-----------------------------------------------------------------------------
(***************************************************************************)
(* The row                                                                 *)
(***************************************************************************)

Terminal(row) == row.status \in {"COMPLETED", "FAILED"}
Expired(k) == rows[k].expiry \in expired[k]

\* A plausible slip: the table is created without the constraint.
MutConstraintHolds(row) == TRUE

\* no_locks_on_terminal_states, checked by the database on every write.
ConstraintHolds(row) == row.status = "PENDING" \/ row.lock = "none"

NewRow(k, fingerprint, lock) ==
    [id |-> inserted[k] + 1, expiry |-> inserted[k] + 1,
     fingerprint |-> fingerprint, status |-> "PENDING", lock |-> lock,
     answer |-> NoPayment]

\* A plausible slip: save() without update_fields also writes back the status
\* that was read before.
MutStolen(row) == [row EXCEPT !.lock = "live", !.status = "PENDING"]

Stolen(row) == [row EXCEPT !.lock = "live"]

\* A plausible slip: a failure is recorded as if it were a success.
MutOutcome(row, seen, status, answer) ==
    [row EXCEPT !.status = "COMPLETED", !.answer = answer, !.lock = "none"]

\* update() writes every column of what was read, and the outcome; the primary
\* key is the locked row's.
Outcome(row, seen, status, answer) ==
    [row EXCEPT !.fingerprint = seen.fingerprint, !.expiry = seen.expiry,
                !.status = status, !.answer = answer, !.lock = "none"]
-----------------------------------------------------------------------------
(***************************************************************************)
(* Claiming                                                                *)
(***************************************************************************)

NothingSeen(payload) == [fingerprint |-> payload, expiry |-> 0]

\* The request with its answer: the payment_id of the stored body, whatever the
\* status of the row is.  A body without one is told as an error.  Answers from a
\* FAILED row are kept apart for the properties only.  What fetch_view then reads
\* of the payment, or fails to read, changes nothing.
Replied(q, status, answer) ==
    IF answer = NoPayment THEN NoRequest
    ELSE [q EXCEPT !.step = IF status = "COMPLETED" THEN "answered"
                                                    ELSE "answeredFailed",
                   !.payment = answer, !.row = 0, !.seen = NothingSeen(q.payload)]

Goto(r, q) == request' = [request EXCEPT ![r] = q]

Tables == <<rows, inserted, expired, unguarded, created>>

\* get_replay_response: an answer that has not expired.
Replayable(k) == rows[k] # NoRow /\ ~Expired(k) /\ Terminal(rows[k])

\* The fast path of process_request.
Begin(r, k, payload) ==
    LET q == [step |-> "claim", key |-> k, payload |-> payload, row |-> 0,
              seen |-> NothingSeen(payload), payment |-> NoPayment]
    IN
    /\ request[r] = NoRequest
    /\ Goto(r, IF Replayable(k) THEN Replied(q, rows[k].status, rows[k].answer)
                                ELSE q)
    /\ UNCHANGED <<Tables, faults>>

\* A plausible slip: the claim, like the fast path, ignores the fingerprint.
MutFits(k, payload) == TRUE

Fits(k, payload) == rows[k].fingerprint = payload

\* A plausible slip: only an unlocked key may be claimed, a lapsed lock stays.
MutFree(k) == rows[k].lock = "none"

\* A plausible slip: the lock is not looked at.
MutFreeAlways(k) == TRUE

Free(k) == rows[k].lock # "live"

\* The read of claim_or_replay and what follows from it.
Claim(r) ==
    LET q == request[r]
        k == q.key
    IN
    /\ q # NoRequest /\ q.step = "claim"
    /\ \/ /\ rows[k] = NoRow
          /\ Goto(r, [q EXCEPT !.step = "insert"])
       \/ /\ Replayable(k) /\ Fits(k, q.payload)
          /\ Goto(r, Replied(q, rows[k].status, rows[k].answer))
       \/ /\ rows[k] # NoRow
          /\ \/ Expired(k)
             \/ ~Fits(k, q.payload)
             \/ ~Terminal(rows[k]) /\ ~Free(k)
          /\ Goto(r, NoRequest)
       \/ /\ rows[k] # NoRow /\ ~Expired(k) /\ ~Terminal(rows[k])
          /\ Fits(k, q.payload) /\ Free(k)
          /\ Goto(r, [q EXCEPT !.step = "steal", !.row = rows[k].id])
    /\ UNCHANGED <<Tables, faults>>

\* The INSERT of a key not found, which fails if another request was first.
Insert(r) ==
    LET q == request[r]
        k == q.key
    IN
    /\ q # NoRequest /\ q.step = "insert"
    /\ IF rows[k] = NoRow
       THEN /\ rows' = [rows EXCEPT ![k] = NewRow(k, q.payload, "live")]
            /\ inserted' = [inserted EXCEPT ![k] = @ + 1]
            /\ Goto(r, [q EXCEPT !.step = "execute", !.row = inserted[k] + 1])
       ELSE /\ Goto(r, NoRequest)
            /\ UNCHANGED <<rows, inserted>>
    /\ UNCHANGED <<expired, unguarded, created, faults>>

\* The UPDATE of the lock columns of the row that was read, by primary key.  It
\* fails if that row is gone, or has become terminal meanwhile.
Steal(r) ==
    LET q == request[r]
        k == q.key
    IN
    /\ q # NoRequest /\ q.step = "steal"
    /\ IF /\ rows[k] # NoRow
          /\ rows[k].id = q.row
          /\ ConstraintHolds(Stolen(rows[k]))
       THEN /\ rows' = [rows EXCEPT ![k] = Stolen(@)]
            /\ Goto(r, [q EXCEPT !.step = "execute"])
       ELSE /\ Goto(r, NoRequest)
            /\ UNCHANGED rows
    /\ UNCHANGED <<inserted, expired, unguarded, created, faults>>
-----------------------------------------------------------------------------
(***************************************************************************)
(* Executing and recording                                                 *)
(***************************************************************************)

\* The id a body asks for, or a fresh uuid4; the event store refuses an id that
\* is in use.
IdFor(payload, p) ==
    /\ ChosenId[payload] \in {p, NoPayment}
    /\ \A c \in created : c.id # p

\* The view of the new payment is built from the body, and a refund's body has
\* no payment_method: KeyError, after the refund has been saved.
Execute(r, p) ==
    LET q == request[r] IN
    /\ q # NoRequest /\ q.step = "execute"
    /\ IdFor(q.payload, p)
    /\ created' = created \cup
         {[id |-> p, key |-> q.key, row |-> q.row, payload |-> q.payload]}
    /\ Goto(r, [q EXCEPT !.payment = p,
                  !.step = IF q.payload \in Refunds THEN "readFailure"
                                                    ELSE "readSuccess"])
    /\ UNCHANGED <<rows, inserted, expired, unguarded, faults>>

\* The command is rejected, or does not reach the database.
ExecuteFails(r) ==
    LET q == request[r] IN
    /\ q # NoRequest /\ q.step = "execute"
    /\ Goto(r, [q EXCEPT !.step = "readFailure"])
    /\ UNCHANGED <<Tables, faults>>

Recordable(k) == rows[k] # NoRow /\ ~Expired(k) /\ rows[k].status = "PENDING"

\* A plausible slip: expires_at is not among the columns that are fetched.
MutSeenOf(k) == [fingerprint |-> rows[k].fingerprint, expiry |-> 0]

SeenOf(k) == [fingerprint |-> rows[k].fingerprint, expiry |-> rows[k].expiry]

\* record_success, first half.  When it raises, the executor records a failure.
ReadSuccess(r) ==
    LET q == request[r] IN
    /\ q # NoRequest /\ q.step = "readSuccess"
    /\ Goto(r, IF Recordable(q.key)
               THEN [q EXCEPT !.step = "saveSuccess", !.seen = SeenOf(q.key)]
               ELSE [q EXCEPT !.step = "readFailure"])
    /\ UNCHANGED <<Tables, faults>>

SaveSuccess(r) ==
    LET q == request[r]
        k == q.key
    IN
    /\ q # NoRequest /\ q.step = "saveSuccess"
    /\ IF rows[k] # NoRow
       THEN /\ rows' = [rows EXCEPT ![k] =
                          Outcome(@, q.seen, "COMPLETED", q.payment)]
            /\ Goto(r, Replied(q, "COMPLETED", q.payment))
       ELSE /\ Goto(r, [q EXCEPT !.step = "readFailure"])
            /\ UNCHANGED rows
    /\ UNCHANGED <<inserted, expired, unguarded, created, faults>>

\* record_failure of the executor, first half.  What it raises is swallowed.
ReadFailure(r) ==
    LET q == request[r] IN
    /\ q # NoRequest /\ q.step = "readFailure"
    /\ Goto(r, IF Recordable(q.key)
               THEN [q EXCEPT !.step = "saveFailure", !.seen = SeenOf(q.key)]
               ELSE NoRequest)
    /\ UNCHANGED <<Tables, faults>>

\* Its body holds the error and no payment_id.
SaveFailure(r) ==
    LET q == request[r]
        k == q.key
    IN
    /\ q # NoRequest /\ q.step = "saveFailure"
    /\ rows' = IF rows[k] # NoRow
               THEN [rows EXCEPT ![k] = Outcome(@, q.seen, "FAILED", NoPayment)]
               ELSE rows
    /\ Goto(r, NoRequest)
    /\ UNCHANGED <<inserted, expired, unguarded, created, faults>>

\* The same for record_test_failure: the body is what its caller chose.
SaveTestFailure(r) ==
    LET q == request[r]
        k == q.key
    IN
    /\ q # NoRequest /\ q.step = "saveTest"
    /\ rows' = IF rows[k] # NoRow
               THEN [rows EXCEPT ![k] = Outcome(@, q.seen, "FAILED", q.payment)]
               ELSE rows
    /\ Goto(r, NoRequest)
    /\ UNCHANGED <<inserted, expired, unguarded, created, faults>>

Told(r) ==
    request[r] # NoRequest /\ request[r].step \in {"answered", "answeredFailed"}

\* The client has its answer.
Leave(r) ==
    /\ Told(r)
    /\ Goto(r, NoRequest)
    /\ UNCHANGED <<Tables, faults>>
-----------------------------------------------------------------------------
(***************************************************************************)
(* Failures, time and administration                                       *)
(***************************************************************************)

\* The process dies, the client hangs up and the task is cancelled, or (before
\* the command, or in record_failure) the database fails; a row that is locked
\* at the instant of the claim (nowait) is such a failure.
Crash(r) ==
    /\ request[r] # NoRequest /\ ~Told(r)
    /\ faults < MaxFaults
    /\ faults' = faults + 1
    /\ Goto(r, NoRequest)
    /\ UNCHANGED Tables

\* The database fails in record_success: the except clause takes over.
RecordSuccessFails(r) ==
    /\ request[r] # NoRequest
    /\ request[r].step \in {"readSuccess", "saveSuccess"}
    /\ faults < MaxFaults
    /\ faults' = faults + 1
    /\ Goto(r, [request[r] EXCEPT !.step = "readFailure"])
    /\ UNCHANGED Tables

\* begin_test_processing: a claim that nothing follows.  Its caller is told to
\* go on, and the lease stays until it lapses; one of the MaxFaults.
ClaimOnly(r) ==
    /\ request[r] # NoRequest /\ request[r].step = "execute"
    /\ faults < MaxFaults
    /\ faults' = faults + 1
    /\ Goto(r, NoRequest)
    /\ UNCHANGED Tables

\* create_key: a row nobody holds.  A key that exists is left as it is.
CreateKey(k, payload) ==
    /\ rows[k] = NoRow
    /\ rows' = [rows EXCEPT ![k] = NewRow(k, payload, "none")]
    /\ inserted' = [inserted EXCEPT ![k] = @ + 1]
    /\ unguarded' = unguarded \cup {<<k, inserted[k] + 1>>}
    /\ UNCHANGED <<expired, created, request, faults>>

\* create_test_idempotency_key, with any body.
CreateTestKey(k) == \E payload \in Payloads : CreateKey(k, payload)

\* record_test_failure: record_failure by somebody who claimed nothing, with a
\* body of any content, which may name any payment or none.
RecordTestFailure(r, k) ==
    /\ request[r] = NoRequest
    /\ Recordable(k)
    /\ \E answer \in TestAnswers :
          Goto(r, [step |-> "saveTest", key |-> k,
                   payload |-> rows[k].fingerprint, row |-> 0,
                   seen |-> SeenOf(k), payment |-> answer])
    /\ UNCHANGED <<Tables, faults>>

\* The 30 seconds of a lease are over.
LeaseLapses(k) ==
    /\ rows[k] # NoRow /\ rows[k].lock = "live"
    /\ rows' = [rows EXCEPT ![k].lock = "lapsed"]
    /\ unguarded' = unguarded \cup {<<k, rows[k].id>>}
    /\ UNCHANGED <<inserted, expired, created, request, faults>>

\* The 24 hours of a row are over.
KeyExpires(k) ==
    /\ rows[k] # NoRow /\ ~Expired(k)
    /\ expired' = [expired EXCEPT ![k] = @ \cup {rows[k].expiry}]
    /\ UNCHANGED <<rows, inserted, unguarded, created, request, faults>>

\* cleanup_expired_keys, for any older_than_hours that is not negative.  The
\* bound is here, where it cannot keep a request from inserting its row.
CleanUp(k) ==
    /\ rows[k] # NoRow /\ Expired(k)
    /\ inserted[k] < MaxRows
    /\ rows' = [rows EXCEPT ![k] = NoRow]
    /\ UNCHANGED <<inserted, expired, unguarded, created, request, faults>>

\* The management command release_stuck_idempotency_locks.
ReleaseStuck(k) ==
    /\ rows[k] # NoRow /\ rows[k].status = "PENDING" /\ rows[k].lock = "lapsed"
    /\ rows' = [rows EXCEPT ![k].lock = "none"]
    /\ UNCHANGED <<inserted, expired, unguarded, created, request, faults>>
-----------------------------------------------------------------------------
Init ==
    /\ rows = [k \in Keys |-> NoRow]
    /\ inserted = [k \in Keys |-> 0]
    /\ expired = [k \in Keys |-> {}]
    /\ unguarded = {}
    /\ created = {}
    /\ request = [r \in Requests |-> NoRequest]
    /\ faults = 0

\* What a request does once it has begun.
Proceed(r) ==
    \/ Claim(r) \/ Insert(r) \/ Steal(r)
    \/ (\E p \in Payments : Execute(r, p)) \/ ExecuteFails(r)
    \/ ReadSuccess(r) \/ SaveSuccess(r) \/ ReadFailure(r) \/ SaveFailure(r)
    \/ SaveTestFailure(r) \/ Leave(r)

Environment(k) ==
    \/ CreateTestKey(k)
    \/ LeaseLapses(k) \/ KeyExpires(k) \/ CleanUp(k) \/ ReleaseStuck(k)

Next ==
    \/ \E r \in Requests :
        \/ \E k \in Keys, payload \in Payloads : Begin(r, k, payload)
        \/ \E k \in Keys : RecordTestFailure(r, k)
        \/ Proceed(r)
        \/ Crash(r) \/ ClaimOnly(r)
        \/ RecordSuccessFails(r)
    \/ \E k \in Keys : Environment(k)

Spec == Init /\ [][Next]_vars

\* A request that runs goes on, a lease that is not given back runs out, and the
\* client of a key that is not settled comes back, as the error it got asks it
\* to.  Strong fairness for the client: only the bound on Requests can keep it
\* waiting for a slot.
Fairness ==
    /\ \A r \in Requests : WF_vars(Proceed(r))
    /\ \A k \in Keys : WF_vars(LeaseLapses(k))
    /\ \A k \in Keys, payload \in Payloads :
          SF_vars(\E r \in Requests : Begin(r, k, payload))

FairSpec == Spec /\ Fairness
-----------------------------------------------------------------------------
(***************************************************************************)
(* Properties                                                              *)
(***************************************************************************)

\* Types of the seven variables.
TypeOK ==
    /\ rows \in [Keys -> IdRow \cup {NoRow}]
    /\ inserted \in [Keys -> Nat]
    /\ expired \in [Keys -> SUBSET (Nat \ {0})]
    /\ unguarded \subseteq Keys \X (Nat \ {0})
    /\ created \subseteq Creation
    /\ request \in [Requests -> Request \cup {NoRequest}]
    /\ faults \in Nat

\* As long as the lease of a row has never run out, one request at most has
\* created a payment under it, whatever crashed, failed, expired or was cleaned
\* up on the way (claim_or_replay as a mutual exclusion).
OnceUnderLease ==
    \A c, d \in created :
        c.key = d.key /\ c.row = d.row /\ <<c.key, c.row>> \notin unguarded
            => c = d

\* Two payments under one row are retries of the same body, even when a lapsed
\* lease let both through and although the fingerprint was compared before the
\* lock was taken (claim_or_replay).
RetriesAgree ==
    \A c, d \in created :
        c.key = d.key /\ c.row = d.row => c.payload = d.payload

\* A COMPLETED key names a payment that was created under this very key, and if
\* it was created under this very row, then from the body whose fingerprint the
\* row has, although record_success reads and writes the row in two steps and
\* others may steal, settle or replace it between.  (If the row was replaced, the
\* payment may be of the earlier row and of another body: nothing prevents it.)
CompletedNamesPayment ==
    \A k \in Keys : rows[k] # NoRow /\ rows[k].status = "COMPLETED" =>
        \E c \in created :
            /\ c.id = rows[k].answer /\ c.key = k
            /\ c.row = rows[k].id => c.payload = rows[k].fingerprint

\* A key with an outcome is locked by nobody (record_success and record_failure
\* clear the lock, and a steal that comes too late is refused).
TerminalUnlocked ==
    \A k \in Keys : rows[k] # NoRow /\ Terminal(rows[k]) => rows[k].lock = "none"

\* A row that has an outcome keeps one: no stale write, of a stealer or of a
\* second recorder, opens it for execution again (_ALLOWED_TRANSITIONS).
OutcomesStay ==
    [][\A k \in Keys :
          rows[k] # NoRow /\ Terminal(rows[k]) /\ rows'[k] # NoRow
              /\ rows'[k].id = rows[k].id
            => Terminal(rows'[k])]_vars

\* A client is told the payment of a success, its own or a replayed one.
Answered(r) == request[r] # NoRequest /\ request[r].step = "answered"

\* However often a key is sent, with any bodies and crashes, all who are answered
\* from a success get the same payment, as long as the key was neither cleaned up
\* nor out of its first lease (process_request).  Failures that are recorded
\* through record_test_failure meanwhile, with payments of their own in their
\* bodies, are replayed as well, but make no second success.
OneAnswer ==
    \A r, s \in Requests :
        Answered(r) /\ Answered(s) /\ request[r].key = request[s].key
            /\ inserted[request[r].key] = 1
            /\ <<request[r].key, 1>> \notin unguarded
        => request[r].payment = request[s].payment

\* What a row says, without its lock and the time it expires.
EntryOf(k) ==
    IF rows[k] = NoRow THEN NoRow
    ELSE [number |-> rows[k].id, body |-> rows[k].fingerprint,
          status |-> rows[k].status, answer |-> rows[k].answer]

Entries == [k \in Keys |-> EntryOf(k)]

Key == INSTANCE IdempotencyKey
    WITH NoEntry <- NoRow, entry <- Entries, count <- inserted,
         lapsed <- unguarded, made <- created

\* Requests that claim, steal, execute and record in any order, with rows that
\* expire and are replaced under them, implement the key: every write of the
\* table and every payment is one step that the key's promise allows.
ImplementsKey == Key!Spec

\* A key in progress does not stay so: after a crash its lease runs out, a retry
\* takes it over and settles it, unless the key itself expires.
PendingKeySettles ==
    \A k \in Keys :
        rows[k] # NoRow /\ rows[k].status = "PENDING"
            ~> rows[k] = NoRow \/ Terminal(rows[k]) \/ Expired(k)

(***************************************************************************)
(* What the repository says and the code does not do                       *)
(***************************************************************************)

\* "Ensures exactly-once semantics for payment initiation"
\* (IdempotentPaymentExecutor): a row has one payment at most.
ExactlyOnce ==
    \A c, d \in created : c.key = d.key /\ c.row = d.row => c = d

\* "Ensures the same idempotency key cannot be reused with different data"
\* (compute_fingerprint): a request that is answered from a success is told a
\* payment that was created from its own body.
AnsweredFromOwnBody ==
    \A r \in Requests :
        Answered(r) =>
            \E c \in created :
                c.id = request[r].payment /\ c.payload = request[r].payload

\* "Build complete PaymentView with ALL required fields"
\* (execute_payment_creation): a request that has created its payment does not
\* record a failure, as long as nothing crashed and no lease or key ran out.
CreatedIsNoFailure ==
    faults = 0 /\ unguarded = {} /\ (\A k \in Keys : expired[k] = {}) =>
        \A r \in Requests :
            request[r] # NoRequest /\ request[r].payment # NoPayment
                => request[r].step # "saveFailure"
=============================================================================
