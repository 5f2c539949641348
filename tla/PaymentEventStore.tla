------------------------- MODULE PaymentEventStore --------------------------
(***************************************************************************)
(* The write side of the payment service: commands that rehydrate a        *)
(* PaymentAggregate from its event stream, decide on one new event, and    *)
(* later append it to the event store under optimistic concurrency         *)
(* control, together with its outbox row and, when settings.DEBUG is set,  *)
(* its synchronous projection into the read model.                         *)
(*                                                                         *)
(* A command is two steps.  The read and the decision are one: between the *)
(* SELECT of PaymentEventSourcedRepository.load and the await of the save  *)
(* nothing that another request can see happens.  The append is the other: *)
(* EventStoreRepository.append is one database transaction.  Between the   *)
(* two every other request may run, in this process or another.            *)
(*                                                                         *)
(* A command the code rejects (payment not found, wrong status, amount     *)
(* that is not positive or exceeds the original) leaves every variable as  *)
(* it is and is therefore no action here: its guard is false.              *)
(***************************************************************************)
EXTENDS Naturals, FiniteSets, FiniteSetsExt

CONSTANTS
    Payments,     \* payment ids; a creator picks one itself or takes a fresh uuid4
    Workers,      \* requests in flight, over all processes of the service
    NoPayment,    \* reference_id of a payment that is not a refund
    Idle,         \* a worker between two commands
    MaxVersion,   \* bound: the longest stream a command still extends
    MaxAmount,    \* bound: the largest amount a request names
    Unfit         \* the amounts of money that the read model's columns cannot
                  \* hold: zero when rounded to 4 places, more than 19 digits,
                  \* a currency of more than 3 letters

VARIABLES
    store,        \* the rows of the EventStore table
    outbox,       \* the rows of the EventOutbox table
    readModel,    \* the status column of PaymentReadModel, "NONE" without a row
    command,      \* what each worker has decided and not yet saved
    debug         \* settings.DEBUG, fixed when the service starts

vars == <<store, outbox, readModel, command, debug>>

Statuses ==
    {"PENDING", "PROCESSING", "SUCCEEDED", "FAILED", "CANCELLED", "REFUNDED"}

EventTypes ==
    {"Created", "Processed", "Succeeded", "Failed", "Cancelled", "Refunded"}

Amounts == 0..MaxAmount

\* amount and original are those of a PaymentCreatedEvent; the other events
\* carry ids only, and hold 0 and NoPayment here.
Event == [type     : EventTypes,
          amount   : Amounts,
          original : Payments \cup {NoPayment}]

Row == [payment : Payments, version : Nat \ {0}, event : Event]

\* PaymentReadModel: of its columns the status is kept; "NONE" is no row.
ReadModels == [Payments -> Statuses \cup {"NONE"}]

Command == [payment : Payments, expected : Nat, event : Event]

ASSUME IdleIsNoCommand == Idle \notin Command
ASSUME NoPaymentIsNoId == NoPayment \notin Payments
ASSUME BoundsAreNaturals == MaxVersion \in Nat /\ MaxAmount \in Nat
ASSUME UnfitAreAmounts == Unfit \subseteq Amounts
-----------------------------------------------------------------------------
(***************************************************************************)
(* The aggregate                                                           *)
(***************************************************************************)

\* The status an aggregate has after `when` has dispatched an event to its
\* handler.  Each handler but Created's overwrites the status whatever it was,
\* so the last event of a stream alone decides; Created leaves the initial
\* PENDING.
StatusAfter == [type \in EventTypes |->
    CASE type = "Created"   -> "PENDING"
      [] type = "Processed" -> "PROCESSING"
      [] type = "Succeeded" -> "SUCCEEDED"
      [] type = "Failed"    -> "FAILED"
      [] type = "Cancelled" -> "CANCELLED"
      [] type = "Refunded"  -> "REFUNDED"]

\* A plausible slip in the guards: a settled payment counts as processable.
MutEnsureProcessable(s) == s # "CANCELLED"

EnsurePending(s)     == s = "PENDING"
EnsureProcessable(s) == s \notin {"SUCCEEDED", "REFUNDED", "CANCELLED"}

\* A plausible slip: a payment may be marked refunded before it has succeeded.
MutEnsureSucceeded(s) == s \in {"SUCCEEDED", "PROCESSING"}

EnsureSucceeded(s)   == s = "SUCCEEDED"

CreatedEvent(amount, original) ==
    [type |-> "Created", amount |-> amount, original |-> original]

TransitionEvent(type) ==
    [type |-> type, amount |-> 0, original |-> NoPayment]
-----------------------------------------------------------------------------
(***************************************************************************)
(* The tables                                                              *)
(***************************************************************************)

RowsOf(rows, p) == {r \in rows : r.payment = p}

LatestVersion(rows, p) == Max({0} \cup {r.version : r \in RowsOf(rows, p)})

\* The last row of p's stream, from which load takes both the version and
\* (through StatusAfter) the status of the aggregate.
IsLast(row, p) ==
    /\ row.payment = p
    /\ \A r \in store : r.payment = p => r.version <= row.version

\* A plausible slip: the table is created without its unique constraint.
MutTaken(p, version) == FALSE

\* The unique constraint on (aggregate_id, aggregate_version).
Taken(p, version) == \E r \in RowsOf(store, p) : r.version = version

\* A plausible slip: the version is taken from the table when the event is
\* saved, not from the aggregate that the decision was made on.
MutAppendVersion(c) == LatestVersion(store, c.payment) + 1

AppendVersion(c) == c.expected + 1

\* A plausible slip: the outbox forgets to move on from the highest version.
MutOutboxVersion(p) == LatestVersion(outbox, p)

\* The outbox numbers its rows itself, from what it holds for the aggregate.
OutboxVersion(p) == LatestVersion(outbox, p) + 1
-----------------------------------------------------------------------------
(***************************************************************************)
(* The projector                                                           *)
(***************************************************************************)

\* The statuses a handler's UPDATE ... WHERE status IN (...) matches; when it
\* matches no row the handler raises ProjectionInvariantViolation.
ProjectableFrom == [type \in EventTypes |->
    CASE type = "Created"                -> Statuses \cup {"NONE"}
      [] type \in {"Processed", "Cancelled"} -> {"PENDING"}
      [] type \in {"Succeeded", "Failed"}    -> {"PENDING", "PROCESSING"}
      [] type = "Refunded"               -> {"SUCCEEDED"}]

\* A plausible slip: two handlers write each other's status.
MutProjectedStatus ==
    [StatusAfter EXCEPT !["Failed"] = "CANCELLED", !["Cancelled"] = "FAILED"]

\* The status a handler writes.
ProjectedStatus == [type \in EventTypes |->
    CASE type = "Created"   -> "PENDING"
      [] type = "Processed" -> "PROCESSING"
      [] type = "Succeeded" -> "SUCCEEDED"
      [] type = "Failed"    -> "FAILED"
      [] type = "Cancelled" -> "CANCELLED"
      [] type = "Refunded"  -> "REFUNDED"]

\* The INSERT for a Created event fails on what its columns and its CHECK do not
\* admit; the views and the aggregate look at neither.
FitsReadModel(event) == event.type = "Created" => event.amount \notin Unfit

ProjectionAccepts(c) ==
    /\ readModel[c.payment] \in ProjectableFrom[c.event.type]
    /\ FitsReadModel(c.event)
-----------------------------------------------------------------------------
(***************************************************************************)
(* Reading and deciding                                                    *)
(***************************************************************************)

Decide(w, p, expected, event) ==
    /\ command[w] = Idle
    /\ expected < MaxVersion
    /\ command' = [command EXCEPT ![w] =
                     [payment |-> p, expected |-> expected, event |-> event]]
    /\ UNCHANGED <<store, outbox, readModel, debug>>

\* create_deposit, create_withdrawal and create_payment_for_booking: nothing is
\* read.  The id may be the client's, so it may exist already or be in another
\* request at the same time.
CreatePayment(w, p, amount) ==
    /\ amount > 0
    /\ Decide(w, p, 0, CreatedEvent(amount, NoPayment))

\* A plausible slip: the limit is forgotten.
MutRefundFits(amount, original) == amount > 0

RefundFits(amount, original) ==
    /\ amount > 0
    /\ amount <= original.event.amount

\* create_refund: the original's stream is read for its amount, and for nothing
\* else; the refund is a payment of its own.
CreateRefund(w, p, amount, original) ==
    \E first \in RowsOf(store, original) :
        /\ first.version = 1
        /\ first.event.type = "Created"
        /\ RefundFits(amount, first)
        /\ Decide(w, p, 0, CreatedEvent(amount, original))

ProcessPayment(w, p) ==
    \E last \in store :
        /\ IsLast(last, p)
        /\ EnsurePending(StatusAfter[last.event.type])
        /\ Decide(w, p, last.version, TransitionEvent("Processed"))

SucceedPayment(w, p) ==
    \E last \in store :
        /\ IsLast(last, p)
        /\ EnsureProcessable(StatusAfter[last.event.type])
        /\ Decide(w, p, last.version, TransitionEvent("Succeeded"))

FailPayment(w, p) ==
    \E last \in store :
        /\ IsLast(last, p)
        /\ EnsureProcessable(StatusAfter[last.event.type])
        /\ Decide(w, p, last.version, TransitionEvent("Failed"))

CancelPayment(w, p) ==
    \E last \in store :
        /\ IsLast(last, p)
        /\ EnsurePending(StatusAfter[last.event.type])
        /\ Decide(w, p, last.version, TransitionEvent("Cancelled"))

MarkPaymentAsRefunded(w, p) ==
    \E last \in store :
        /\ IsLast(last, p)
        /\ EnsureSucceeded(StatusAfter[last.event.type])
        /\ Decide(w, p, last.version, TransitionEvent("Refunded"))
-----------------------------------------------------------------------------
(***************************************************************************)
(* Saving                                                                  *)
(***************************************************************************)

\* The transaction commits: the event row, the outbox row and, in debug mode,
\* the read model change together.
Append(w) ==
    LET c == command[w]
        RowAt(v) == [payment |-> c.payment, version |-> v, event |-> c.event]
    IN
    /\ c # Idle
    /\ ~Taken(c.payment, AppendVersion(c))
    /\ debug => ProjectionAccepts(c)
    /\ store' = store \cup {RowAt(AppendVersion(c))}
    /\ outbox' = outbox \cup {RowAt(OutboxVersion(c.payment))}
    /\ readModel' = IF debug
                    THEN [readModel EXCEPT ![c.payment] =
                            ProjectedStatus[c.event.type]]
                    ELSE readModel
    /\ command' = [command EXCEPT ![w] = Idle]
    /\ UNCHANGED debug

GiveUp(w) ==
    /\ command' = [command EXCEPT ![w] = Idle]
    /\ UNCHANGED <<store, outbox, readModel, debug>>

\* The row's version is taken: IntegrityError, OptimisticConcurrencyError, and
\* the caller gets an error.  Nothing retries.
AppendConflicts(w) ==
    /\ command[w] # Idle
    /\ Taken(command[w].payment, AppendVersion(command[w]))
    /\ GiveUp(w)

\* Debug mode only: the projector refuses the event and the exception rolls the
\* whole transaction back.
ProjectionRefuses(w) ==
    /\ command[w] # Idle
    /\ ~Taken(command[w].payment, AppendVersion(command[w]))
    /\ debug
    /\ ~ProjectionAccepts(command[w])
    /\ GiveUp(w)

\* The process dies, or the database does not answer, before the commit.
Crash(w) ==
    /\ command[w] # Idle
    /\ GiveUp(w)
-----------------------------------------------------------------------------
Init ==
    /\ store = {}
    /\ outbox = {}
    /\ readModel = [p \in Payments |-> "NONE"]
    /\ command = [w \in Workers |-> Idle]
    /\ debug \in BOOLEAN

Next ==
    \E w \in Workers :
        \/ \E p \in Payments :
            \/ \E a \in Amounts : CreatePayment(w, p, a)
            \/ \E a \in Amounts, o \in Payments : CreateRefund(w, p, a, o)
            \/ ProcessPayment(w, p)
            \/ SucceedPayment(w, p)
            \/ FailPayment(w, p)
            \/ CancelPayment(w, p)
            \/ MarkPaymentAsRefunded(w, p)
        \/ Append(w)
        \/ AppendConflicts(w)
        \/ ProjectionRefuses(w)
        \/ Crash(w)

Spec == Init /\ [][Next]_vars
-----------------------------------------------------------------------------
(***************************************************************************)
(* Properties                                                              *)
(***************************************************************************)

\* Types of the five variables.
TypeOK ==
    /\ store \subseteq Row
    /\ outbox \subseteq Row
    /\ readModel \in ReadModels
    /\ command \in [Workers -> Command \cup {Idle}]
    /\ debug \in BOOLEAN

\* No two events of a payment share a version and none is missing below
\* another: what load reads in version order is the whole history, whatever
\* requests raced to append (EventStoreRepository.append).
VersionsDense ==
    /\ \A r, q \in store :
          r.payment = q.payment /\ r.version = q.version => r = q
    /\ \A r \in store : \A v \in 1..r.version : Taken(r.payment, v)

\* The events that may follow one another in a stream.
LegalPairs ==
         {<<"Created", "Processed">>, <<"Created", "Cancelled">>}
    \cup {"Created", "Processed", "Failed"} \X {"Succeeded", "Failed"}
    \cup {<<"Succeeded", "Refunded">>}

\* A stream is a history the aggregate would have allowed had its commands run
\* one after the other: it begins with its only Created, and every later event
\* was legal in the status the event just before it left, although it was
\* decided on a stream read earlier (PaymentAggregate's guards, append's
\* expected_version).
LegalHistory ==
    /\ \A r \in store : r.version = 1 <=> r.event.type = "Created"
    /\ \A r, q \in store :
          r.payment = q.payment /\ q.version = r.version + 1
            => <<r.event.type, q.event.type>> \in LegalPairs

\* A payment succeeds at most once, and after that nothing but its refund is
\* recorded, once: racing succeed, fail, cancel and refund commands never
\* settle the same money twice (PaymentAggregate.succeed, mark_as_refunded).
SettledOnce ==
    \A r, q \in store :
        /\ r.payment = q.payment
        /\ r.version < q.version
        /\ r.event.type \in {"Succeeded", "Refunded", "Cancelled"}
        => r.event.type = "Succeeded" /\ q.event.type = "Refunded"

\* What the outbox will publish is the event store, event by event and version
\* by version, although the outbox numbers its rows from its own table
\* (DjangoOutBoxORMRepository.save inside append's transaction).
OutboxMirrorsStore == outbox = store

\* A refund names a payment that exists and is not larger than it, although
\* the original was read in another transaction (create_refund).
RefundWithinOriginal ==
    \A r \in store : r.event.original # NoPayment =>
        \E o \in RowsOf(store, r.event.original) :
            o.version = 1 /\ r.event.amount <= o.event.amount

\* A decision on a stream that has grown meanwhile is still justified by the
\* row it was made on: that row is in the store for good, and the version it
\* will be appended at is the next one.  A refund's original likewise.
CommandSound(c) ==
    /\ c.expected = 0 <=> c.event.type = "Created"
    /\ c.expected # 0 => \E r \in store :
          /\ r.payment = c.payment
          /\ r.version = c.expected
          /\ <<r.event.type, c.event.type>> \in LegalPairs
    /\ c.event.original # NoPayment =>
          \E o \in RowsOf(store, c.event.original) :
              o.version = 1 /\ c.event.amount <= o.event.amount

\* Every pending command is sound in that sense (what load read before the
\* await of the save still supports it after the await).
CommandsSound == \A w \in Workers : command[w] # Idle => CommandSound(command[w])

\* The status of p as load would find it now, "NONE" if it finds nothing.
StatusOf(p) ==
    IF \E r \in store : r.payment = p
    THEN StatusAfter[(CHOOSE r \in store : IsLast(r, p)).event.type]
    ELSE "NONE"

\* In debug mode the read model shows the status the aggregate would be
\* rehydrated with, after every commit (PaymentProjectionRunner.apply_from_event).
ReadModelFollowsStore ==
    debug => \A p \in Payments : readModel[p] = StatusOf(p)

AbstractStatus == [p \in Payments |-> StatusOf(p)]

Lifecycle == INSTANCE PaymentLifecycle WITH status <- AbstractStatus

\* The event-sourced payments implement the atomic ones: every commit is one
\* legal move of one payment's status, every other step is invisible.
ImplementsLifecycle == Lifecycle!Spec

(***************************************************************************)
(* What the repository says and the code does not do                       *)
(***************************************************************************)

\* A failed payment is finalized: "trying to succeed a failed or refunded
\* payment" is PaymentAlreadyProcessedError (domain/apps/payment/exceptions.py).
FailedIsFinal ==
    \A r, q \in store :
        r.payment = q.payment /\ r.version < q.version
            => r.event.type # "Failed"

\* "Load original payment to validate it exists and can be refunded": when a
\* refund is decided its original has succeeded (create_refund).
RefundsOnlySucceeded ==
    [][\A w \in Workers :
          command[w] = Idle /\ command'[w] # Idle
              /\ command'[w].event.original # NoPayment
            => StatusOf(command'[w].event.original) = "SUCCEEDED"]_vars
=============================================================================
