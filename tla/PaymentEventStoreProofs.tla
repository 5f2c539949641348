---------------------- MODULE PaymentEventStoreProofs -----------------------
(***************************************************************************)
(* Proofs about PaymentEventStore, for any set of payments, workers and    *)
(* any bounds.                                                             *)
(*                                                                         *)
(* The argument: a pending command keeps a pointer to the row it was       *)
(* decided on (CommandsSound).  Rows are never removed, so the pointer     *)
(* stays good.  Streams are dense (VersionsDense), so when the slot after  *)
(* that row is free the row is still the last one: an append that meets no *)
(* conflict extends the very stream it was decided on.                     *)
(***************************************************************************)
EXTENDS PaymentEventStore, TLAPS

USE DEF ReadModels

\* A payment with any event has a last one.
StreamsEnd ==
    \A p \in Payments : (\E r \in store : r.payment = p)
        => \E r \in store : IsLast(r, p)

\* The inductive invariant of the store.
IInv ==
    /\ TypeOK
    /\ VersionsDense
    /\ LegalHistory
    /\ SettledOnce
    /\ OutboxMirrorsStore
    /\ RefundWithinOriginal
    /\ CommandsSound
    /\ StreamsEnd
-----------------------------------------------------------------------------
(***************************************************************************)
(* Lemmas                                                                  *)
(***************************************************************************)

\* Max picks the upper bound that is in the set.
LEMMA MaxIsUpperBound ==
    ASSUME NEW S \in SUBSET Nat, NEW m \in S, \A y \in S : y <= m
    PROVE  Max(S) = m
<1>1. \A x \in S : (\A y \in S : x >= y) => x = m
    OBVIOUS
<1>2. \A y \in S : m >= y
    OBVIOUS
<1> QED BY <1>1, <1>2 DEF Max

\* An append that finds its slot free extends the stream it was decided on:
\* no row of the payment is beyond the version that was loaded.
LEMMA FreeSlotIsNext ==
    ASSUME IInv, NEW c \in Command, ~Taken(c.payment, c.expected + 1)
    PROVE  \A r \in store : r.payment = c.payment => r.version <= c.expected
<1> SUFFICES ASSUME NEW r \in store, r.payment = c.payment,
                    ~(r.version <= c.expected)
             PROVE  FALSE
    OBVIOUS
<1>1. r \in Row /\ c.expected \in Nat
    BY DEF IInv, TypeOK, Command
<1>2. c.expected + 1 \in 1..r.version
    BY <1>1 DEF Row
<1>3. Taken(r.payment, c.expected + 1)
    BY <1>2 DEF IInv, VersionsDense
<1> QED BY <1>3

\* The outbox then numbers its row as the store does.
LEMMA OutboxAgrees ==
    ASSUME IInv, NEW c \in Command, CommandSound(c),
           ~Taken(c.payment, c.expected + 1)
    PROVE  OutboxVersion(c.payment) = c.expected + 1
<1> DEFINE S == {0} \cup {r.version : r \in RowsOf(outbox, c.payment)}
<1>1. outbox = store /\ store \subseteq Row /\ c.expected \in Nat
    BY DEF IInv, OutboxMirrorsStore, TypeOK, Command
<1>2. S \in SUBSET Nat
    BY <1>1 DEF RowsOf, Row
<1>3. \A y \in S : y <= c.expected
    BY <1>1, FreeSlotIsNext DEF RowsOf
<1>4. c.expected \in S
    BY <1>1 DEF CommandSound, RowsOf
<1>5. Max(S) = c.expected
    BY <1>2, <1>3, <1>4, MaxIsUpperBound
<1> QED BY <1>5 DEF OutboxVersion, LatestVersion
-----------------------------------------------------------------------------
(***************************************************************************)
(* Deciding                                                                *)
(***************************************************************************)

\* A step in which worker w takes up the sound command c.
TakesUp(w, c) ==
    /\ c \in Command
    /\ CommandSound(c)
    /\ command' = [command EXCEPT ![w] = c]
    /\ UNCHANGED <<store, outbox, readModel, debug>>

\* Taking up a sound command, or dropping one, preserves the invariant.
LEMMA TakesUpPreserves ==
    ASSUME IInv, NEW w \in Workers,
           NEW c, TakesUp(w, c) \/ GiveUp(w)
    PROVE  IInv'
<1>1. UNCHANGED <<store, outbox, readModel, debug>>
    BY DEF TakesUp, GiveUp
<1>2. TypeOK'
    BY <1>1 DEF IInv, TypeOK, TakesUp, GiveUp
<1>3. /\ VersionsDense' /\ LegalHistory' /\ SettledOnce'
      /\ OutboxMirrorsStore' /\ RefundWithinOriginal'
    BY <1>1 DEF IInv, VersionsDense, Taken, RowsOf, LegalHistory, SettledOnce,
                OutboxMirrorsStore, RefundWithinOriginal
<1>4. CommandsSound'
    <2> SUFFICES ASSUME NEW v \in Workers, command'[v] # Idle
                 PROVE  CommandSound(command[v])'
        BY DEF CommandsSound
    <2>1. CommandSound(command'[v])
        BY IdleIsNoCommand DEF IInv, TypeOK, CommandsSound, TakesUp, GiveUp
    <2> QED BY <1>1, <2>1 DEF CommandSound, RowsOf
<1>5. StreamsEnd'
    BY <1>1 DEF IInv, StreamsEnd, IsLast
<1> QED BY <1>2, <1>3, <1>4, <1>5 DEF IInv

\* Deciding on a transition of the last row's status is sound when the pair of
\* events is legal.
LEMMA TransitionSound ==
    ASSUME IInv, NEW w \in Workers, NEW p \in Payments, NEW last \in store,
           IsLast(last, p), NEW type \in EventTypes \ {"Created"},
           <<last.event.type, type>> \in LegalPairs,
           Decide(w, p, last.version, TransitionEvent(type))
    PROVE  \E c : TakesUp(w, c)
<1> DEFINE c == [payment |-> p, expected |-> last.version,
                 event |-> TransitionEvent(type)]
<1>1. last \in Row
    BY DEF IInv, TypeOK
<1>2. TransitionEvent(type) \in Event
    BY BoundsAreNaturals DEF TransitionEvent, Event, Amounts
<1>3. c \in Command
    BY <1>1, <1>2 DEF Command, Row
<1>4. CommandSound(c)
    BY <1>1 DEF CommandSound, IsLast, TransitionEvent, Row
<1> QED BY <1>3, <1>4 DEF Decide, TakesUp

\* Every command's read-and-decide step takes up a sound command.
LEMMA DecidingIsSound ==
    ASSUME IInv, NEW w \in Workers, NEW p \in Payments,
           \/ \E a \in Amounts : CreatePayment(w, p, a)
           \/ \E a \in Amounts, o \in Payments : CreateRefund(w, p, a, o)
           \/ ProcessPayment(w, p)
           \/ SucceedPayment(w, p)
           \/ FailPayment(w, p)
           \/ CancelPayment(w, p)
           \/ MarkPaymentAsRefunded(w, p)
    PROVE  \E c : TakesUp(w, c)
<1>0. \A last \in store : last.event.type \in EventTypes
    BY DEF IInv, TypeOK, Row, Event
<1>1. CASE \E a \in Amounts : CreatePayment(w, p, a)
    <2> PICK a \in Amounts : CreatePayment(w, p, a)
        BY <1>1
    <2> DEFINE c == [payment |-> p, expected |-> 0,
                     event |-> CreatedEvent(a, NoPayment)]
    <2>1. c \in Command /\ CommandSound(c)
        BY DEF Command, CommandSound, CreatedEvent, Event, EventTypes
    <2> QED BY <2>1 DEF CreatePayment, Decide, TakesUp
<1>2. CASE \E a \in Amounts, o \in Payments : CreateRefund(w, p, a, o)
    <2> PICK a \in Amounts, o \in Payments : CreateRefund(w, p, a, o)
        BY <1>2
    <2> DEFINE c == [payment |-> p, expected |-> 0,
                     event |-> CreatedEvent(a, o)]
    <2>1. c \in Command
        BY DEF Command, CreatedEvent, Event, EventTypes
    <2>2. CommandSound(c)
        BY DEF CommandSound, CreatedEvent, CreateRefund, RefundFits
    <2> QED BY <2>1, <2>2 DEF CreateRefund, Decide, TakesUp
<1>3. CASE ProcessPayment(w, p)
    <2> PICK last \in store :
             /\ IsLast(last, p)
             /\ EnsurePending(StatusAfter[last.event.type])
             /\ Decide(w, p, last.version, TransitionEvent("Processed"))
        BY <1>3 DEF ProcessPayment
    <2>1. <<last.event.type, "Processed">> \in LegalPairs
        BY <1>0 DEF EnsurePending, StatusAfter, EventTypes, LegalPairs
    <2> QED BY <2>1, TransitionSound DEF EventTypes
<1>4. CASE SucceedPayment(w, p)
    <2> PICK last \in store :
             /\ IsLast(last, p)
             /\ EnsureProcessable(StatusAfter[last.event.type])
             /\ Decide(w, p, last.version, TransitionEvent("Succeeded"))
        BY <1>4 DEF SucceedPayment
    <2>1. <<last.event.type, "Succeeded">> \in LegalPairs
        BY <1>0 DEF EnsureProcessable, StatusAfter, EventTypes, LegalPairs
    <2> QED BY <2>1, TransitionSound DEF EventTypes
<1>5. CASE FailPayment(w, p)
    <2> PICK last \in store :
             /\ IsLast(last, p)
             /\ EnsureProcessable(StatusAfter[last.event.type])
             /\ Decide(w, p, last.version, TransitionEvent("Failed"))
        BY <1>5 DEF FailPayment
    <2>1. <<last.event.type, "Failed">> \in LegalPairs
        BY <1>0 DEF EnsureProcessable, StatusAfter, EventTypes, LegalPairs
    <2> QED BY <2>1, TransitionSound DEF EventTypes
<1>6. CASE CancelPayment(w, p)
    <2> PICK last \in store :
             /\ IsLast(last, p)
             /\ EnsurePending(StatusAfter[last.event.type])
             /\ Decide(w, p, last.version, TransitionEvent("Cancelled"))
        BY <1>6 DEF CancelPayment
    <2>1. <<last.event.type, "Cancelled">> \in LegalPairs
        BY <1>0 DEF EnsurePending, StatusAfter, EventTypes, LegalPairs
    <2> QED BY <2>1, TransitionSound DEF EventTypes
<1>7. CASE MarkPaymentAsRefunded(w, p)
    <2> PICK last \in store :
             /\ IsLast(last, p)
             /\ EnsureSucceeded(StatusAfter[last.event.type])
             /\ Decide(w, p, last.version, TransitionEvent("Refunded"))
        BY <1>7 DEF MarkPaymentAsRefunded
    <2>1. <<last.event.type, "Refunded">> \in LegalPairs
        BY <1>0 DEF EnsureSucceeded, StatusAfter, EventTypes, LegalPairs
    <2> QED BY <2>1, TransitionSound DEF EventTypes
<1> QED BY <1>1, <1>2, <1>3, <1>4, <1>5, <1>6, <1>7
-----------------------------------------------------------------------------
(***************************************************************************)
(* Appending                                                               *)
(***************************************************************************)

\* A committed append preserves the invariant.
LEMMA AppendPreserves ==
    ASSUME IInv, NEW w \in Workers, Append(w)
    PROVE  IInv'
<1>1. PICK c \in Command : c = command[w] /\ CommandSound(c)
    BY DEF IInv, TypeOK, CommandsSound, Append
<1> DEFINE new == [payment |-> c.payment, version |-> c.expected + 1,
                   event |-> c.event]
<1>2. ~Taken(c.payment, c.expected + 1)
    BY <1>1 DEF Append, AppendVersion
<1>3. /\ store' = store \cup {new}
      /\ outbox' = outbox \cup {new}
      /\ command' = [command EXCEPT ![w] = Idle]
      /\ debug' = debug
    BY <1>1, <1>2, OutboxAgrees DEF Append, AppendVersion
<1>4. \A r \in store : r.payment = c.payment => r.version <= c.expected
    BY <1>1, <1>2, FreeSlotIsNext
<1>5. new \in Row /\ store \subseteq Row
    BY <1>1 DEF IInv, TypeOK, Row, Command
<1>6. TypeOK'
    <2>1. readModel' \in [Payments -> Statuses \cup {"NONE"}]
        BY <1>1 DEF IInv, TypeOK, Append, ProjectedStatus, EventTypes, Statuses,
                    Command, Event
    <2> QED BY <1>3, <1>5, <2>1 DEF IInv, TypeOK
<1>7. VersionsDense'
    <2>1. \A r, q \in store' :
             r.payment = q.payment /\ r.version = q.version => r = q
        BY <1>1, <1>3, <1>4, <1>5 DEF IInv, VersionsDense, Row, Command
    <2>2. \A r \in store' : \A v \in 1..r.version : Taken(r.payment, v)'
        <3> SUFFICES ASSUME NEW r \in store', NEW v \in 1..r.version
                     PROVE  \E q \in store' : q.payment = r.payment /\ q.version = v
            BY DEF Taken, RowsOf
        <3>1. CASE r \in store
            BY <1>3, <3>1 DEF IInv, VersionsDense, Taken, RowsOf
        <3>2. CASE r = new /\ v = c.expected + 1
            BY <1>3, <3>2
        <3>3. CASE r = new /\ v # c.expected + 1
            <4>1. v \in 1..c.expected /\ c.expected # 0
                BY <1>1, <3>3 DEF Command
            <4>2. PICK last \in store :
                       last.payment = c.payment /\ last.version = c.expected
                BY <1>1, <4>1 DEF CommandSound
            <4>3. Taken(c.payment, v)
                BY <4>1, <4>2 DEF IInv, VersionsDense
            <4> QED BY <1>3, <3>3, <4>3 DEF Taken, RowsOf
        <3> QED BY <1>3, <3>1, <3>2, <3>3
    <2> QED BY <2>1, <2>2 DEF VersionsDense
<1>8. LegalHistory'
    <2>1. \A r \in store' : r.version = 1 <=> r.event.type = "Created"
        BY <1>1, <1>3 DEF IInv, LegalHistory, CommandSound, Command
    <2>2. \A r, q \in store' :
             r.payment = q.payment /\ q.version = r.version + 1
               => <<r.event.type, q.event.type>> \in LegalPairs
        <3> SUFFICES ASSUME NEW r \in store', NEW q \in store',
                            r.payment = q.payment, q.version = r.version + 1
                     PROVE  <<r.event.type, q.event.type>> \in LegalPairs
            OBVIOUS
        <3>1. CASE r \in store /\ q \in store
            BY <3>1 DEF IInv, LegalHistory
        <3>2. CASE r \in store /\ q = new
            <4>1. r.version = c.expected /\ r.payment = c.payment /\ c.expected # 0
                BY <1>1, <1>5, <3>2 DEF Row, Command
            <4>2. PICK last \in store :
                       /\ last.payment = c.payment /\ last.version = c.expected
                       /\ <<last.event.type, c.event.type>> \in LegalPairs
                BY <1>1, <4>1 DEF CommandSound
            <4>3. last = r
                BY <3>2, <4>1, <4>2 DEF IInv, VersionsDense
            <4> QED BY <3>2, <4>2, <4>3
        <3>3. CASE r = new
            BY <1>1, <1>3, <1>4, <1>5, <3>3 DEF Row, Command
        <3> QED BY <1>3, <3>1, <3>2, <3>3
    <2> QED BY <2>1, <2>2 DEF LegalHistory
<1>9. SettledOnce'
    <2> SUFFICES ASSUME NEW r \in store', NEW q \in store',
                        r.payment = q.payment, r.version < q.version,
                        r.event.type \in {"Succeeded", "Refunded", "Cancelled"}
                 PROVE  r.event.type = "Succeeded" /\ q.event.type = "Refunded"
        BY DEF SettledOnce
    <2>1. CASE r \in store /\ q \in store
        BY <2>1 DEF IInv, SettledOnce
    <2>2. CASE r \in store /\ q = new
        <3>1. c.expected # 0 /\ r.version <= c.expected /\ r.payment = c.payment
            BY <1>1, <1>4, <1>5, <2>2 DEF Row, Command
        <3>2. PICK last \in store :
                   /\ last.payment = c.payment /\ last.version = c.expected
                   /\ <<last.event.type, c.event.type>> \in LegalPairs
            BY <1>1, <3>1 DEF CommandSound
        <3>3. CASE r.version = c.expected
            <4>1. r = last
                BY <2>2, <3>1, <3>2, <3>3 DEF IInv, VersionsDense
            <4> QED BY <2>2, <3>2, <4>1 DEF LegalPairs
        <3>4. CASE r.version < c.expected
            <4>1. last.event.type = "Refunded"
                BY <2>2, <3>1, <3>2, <3>4 DEF IInv, SettledOnce
            <4> QED BY <3>2, <4>1 DEF LegalPairs
        <3> QED BY <1>1, <1>5, <2>2, <3>1, <3>3, <3>4 DEF Row, Command
    <2>3. CASE r = new
        BY <1>1, <1>3, <1>4, <1>5, <2>3 DEF Row, Command
    <2> QED BY <1>3, <2>1, <2>2, <2>3
<1>10. OutboxMirrorsStore'
    BY <1>3 DEF IInv, OutboxMirrorsStore
<1>11. RefundWithinOriginal'
    BY <1>1, <1>3 DEF IInv, RefundWithinOriginal, CommandSound, RowsOf
<1>12. CommandsSound'
    <2> SUFFICES ASSUME NEW v \in Workers, command'[v] # Idle
                 PROVE  CommandSound(command[v])'
        BY DEF CommandsSound
    <2>1. command'[v] = command[v] /\ CommandSound(command[v])
        BY <1>3 DEF IInv, TypeOK, CommandsSound
    <2> QED BY <1>3, <2>1 DEF CommandSound, RowsOf
<1>13. StreamsEnd'
    <2> SUFFICES ASSUME NEW p \in Payments, \E r \in store' : r.payment = p
                 PROVE  \E r \in store' : IsLast(r, p)'
        BY DEF StreamsEnd
    <2>1. CASE p = c.payment
        <3>1. IsLast(new, p)'
            BY <1>1, <1>3, <1>4, <1>5, <2>1 DEF IsLast, Row, Command
        <3> QED BY <1>3, <3>1
    <2>2. CASE p # c.payment
        BY <1>3, <2>2 DEF IInv, StreamsEnd, IsLast
    <2> QED BY <2>1, <2>2
<1> QED
    BY <1>6, <1>7, <1>8, <1>9, <1>10, <1>11, <1>12, <1>13 DEF IInv
-----------------------------------------------------------------------------
(***************************************************************************)
(* Theorems                                                                *)
(***************************************************************************)

\* The initial state, with empty tables and idle workers, satisfies the
\* invariant.
LEMMA InitIInv == Init => IInv
<1> SUFFICES ASSUME Init PROVE IInv
    OBVIOUS
<1>1. TypeOK
    BY DEF Init, TypeOK
<1> QED BY <1>1 DEF Init, IInv, VersionsDense, LegalHistory, SettledOnce,
                  OutboxMirrorsStore, RefundWithinOriginal, CommandsSound, StreamsEnd

\* Every step of every request preserves it.
LEMMA NextIInv == IInv /\ [Next]_vars => IInv'
<1> SUFFICES ASSUME IInv, [Next]_vars PROVE IInv'
    OBVIOUS
<1>1. CASE UNCHANGED vars
    <2>1. /\ TypeOK' /\ VersionsDense' /\ LegalHistory' /\ SettledOnce'
          /\ OutboxMirrorsStore' /\ RefundWithinOriginal'
        BY <1>1 DEF vars, IInv, TypeOK, VersionsDense, Taken, RowsOf,
                    LegalHistory, SettledOnce, OutboxMirrorsStore,
                    RefundWithinOriginal
    <2>2. CommandsSound'
        BY <1>1 DEF vars, IInv, CommandsSound, CommandSound, RowsOf
    <2>3. StreamsEnd'
        BY <1>1 DEF vars, IInv, StreamsEnd, IsLast
    <2> QED BY <2>1, <2>2, <2>3 DEF IInv
<1>2. CASE Next
    <2> PICK w \in Workers :
            \/ \E p \in Payments :
                \/ \E a \in Amounts : CreatePayment(w, p, a)
                \/ \E a \in Amounts, o \in Payments : CreateRefund(w, p, a, o)
                \/ ProcessPayment(w, p)
                \/ SucceedPayment(w, p)
                \/ FailPayment(w, p)
                \/ CancelPayment(w, p)
                \/ MarkPaymentAsRefunded(w, p)
            \/ Append(w)
            \/ AppendConflicts(w)
            \/ ProjectionRefuses(w)
            \/ Crash(w)
        BY <1>2 DEF Next
    <2>1. CASE \E p \in Payments :
                \/ \E a \in Amounts : CreatePayment(w, p, a)
                \/ \E a \in Amounts, o \in Payments : CreateRefund(w, p, a, o)
                \/ ProcessPayment(w, p)
                \/ SucceedPayment(w, p)
                \/ FailPayment(w, p)
                \/ CancelPayment(w, p)
                \/ MarkPaymentAsRefunded(w, p)
        BY <2>1, DecidingIsSound, TakesUpPreserves
    <2>2. CASE Append(w)
        BY <2>2, AppendPreserves
    <2>3. CASE AppendConflicts(w) \/ ProjectionRefuses(w) \/ Crash(w)
        BY <2>3, TakesUpPreserves DEF AppendConflicts, ProjectionRefuses, Crash
    <2> QED BY <2>1, <2>2, <2>3
<1> QED BY <1>1, <1>2

\* The conjunction that carries the others is an invariant.
THEOREM Invariance == Spec => []IInv
BY InitIInv, NextIInv, PTL DEF Spec

\* The variables keep their types, whatever the requests do.
THEOREM TypeCorrectness == Spec => []TypeOK
<1>1. IInv => TypeOK
    BY DEF IInv
<1> QED BY <1>1, Invariance, PTL

\* Streams are dense and without duplicate versions.
THEOREM StreamsAreDense == Spec => []VersionsDense
<1>1. IInv => VersionsDense
    BY DEF IInv
<1> QED BY <1>1, Invariance, PTL

\* Optimistic concurrency control works: every stream is a history that the
\* aggregate would have allowed sequentially.
THEOREM HistoriesAreLegal == Spec => []LegalHistory
<1>1. IInv => LegalHistory
    BY DEF IInv
<1> QED BY <1>1, Invariance, PTL

\* No payment is settled twice, by any number of racing requests.
THEOREM PaymentsSettleOnce == Spec => []SettledOnce
<1>1. IInv => SettledOnce
    BY DEF IInv
<1> QED BY <1>1, Invariance, PTL

\* The outbox holds exactly the committed events.
THEOREM OutboxIsExact == Spec => []OutboxMirrorsStore
<1>1. IInv => OutboxMirrorsStore
    BY DEF IInv
<1> QED BY <1>1, Invariance, PTL

\* No refund exceeds the payment it refunds.
THEOREM RefundsAreBounded == Spec => []RefundWithinOriginal
<1>1. IInv => RefundWithinOriginal
    BY DEF IInv
<1> QED BY <1>1, Invariance, PTL

\* What a request decided on stays true while it waits to be saved.
THEOREM DecisionsStaySound == Spec => []CommandsSound
<1>1. IInv => CommandsSound
    BY DEF IInv
<1> QED BY <1>1, Invariance, PTL
-----------------------------------------------------------------------------
(***************************************************************************)
(* The status a reader sees, and the refinement                            *)
(***************************************************************************)

\* The status of a payment is that of its last event.
LEMMA StatusIsLast ==
    ASSUME IInv, NEW p \in Payments, NEW last \in store, IsLast(last, p)
    PROVE  StatusOf(p) = StatusAfter[last.event.type]
<1>1. \A r \in store : IsLast(r, p) => r = last
    BY DEF IInv, TypeOK, VersionsDense, IsLast, Row
<1>2. (CHOOSE r \in store : IsLast(r, p)) = last
    BY <1>1
<1> QED BY <1>2 DEF StatusOf, IsLast

\* An append moves the status of its own payment to that of the new event.
LEMMA AppendMoves ==
    ASSUME IInv, IInv', NEW w \in Workers, Append(w), NEW c, c = command[w]
    PROVE  /\ c \in Command
           /\ StatusOf(c.payment)' = StatusAfter[c.event.type]
           /\ \A p \in Payments \ {c.payment} : StatusOf(p)' = StatusOf(p)
           /\ \/ /\ StatusOf(c.payment) = "NONE"
                 /\ c.event.type = "Created"
              \/ \E r \in store :
                    /\ <<r.event.type, c.event.type>> \in LegalPairs
                    /\ StatusOf(c.payment) = StatusAfter[r.event.type]
<1> DEFINE new == [payment |-> c.payment, version |-> c.expected + 1,
                   event |-> c.event]
<1>1. c \in Command /\ CommandSound(c)
    BY DEF IInv, TypeOK, CommandsSound, Append
<1>2. ~Taken(c.payment, c.expected + 1)
    BY DEF Append, AppendVersion
<1>3. store' = store \cup {new}
    BY DEF Append, AppendVersion
<1>4. \A r \in store : r.payment = c.payment => r.version <= c.expected
    BY <1>1, <1>2, FreeSlotIsNext
<1>5. store \subseteq Row
    BY DEF IInv, TypeOK
<1>6. StatusOf(c.payment)' = StatusAfter[c.event.type]
    <2>1. IsLast(new, c.payment)'
        BY <1>1, <1>3, <1>4, <1>5 DEF IsLast, Row, Command
    <2>2. new \in store' /\ c.payment \in Payments
        BY <1>1, <1>3 DEF Command
    <2>3. \A r \in store' : IsLast(r, c.payment)' => r = new
        BY <2>1, <2>2 DEF IInv, TypeOK, VersionsDense, IsLast, Row
    <2>4. (CHOOSE r \in store' : IsLast(r, c.payment)') = new
        BY <2>1, <2>2, <2>3
    <2>5. \E r \in store' : r.payment = c.payment
        BY <2>2
    <2>6. StatusOf(c.payment)' = StatusAfter[new.event.type]
        BY <2>4, <2>5 DEF StatusOf, StatusAfter
    <2> QED BY <2>6
<1>7. ASSUME NEW p \in Payments \ {c.payment}
      PROVE  StatusOf(p)' = StatusOf(p)
    <2>1. CASE \E r \in store : r.payment = p
        <3>1. PICK last \in store : IsLast(last, p)
            BY <2>1 DEF IInv, StreamsEnd
        <3>2. last \in store' /\ IsLast(last, p)'
            BY <1>3, <1>7, <3>1 DEF IsLast
        <3>3. StatusOf(p) = StatusAfter[last.event.type]
            BY <3>1, StatusIsLast
        <3>4. \A r \in store' : IsLast(r, p)' => r = last
            BY <3>2 DEF IInv, TypeOK, VersionsDense, IsLast, Row
        <3>5. (CHOOSE r \in store' : IsLast(r, p)') = last
            BY <3>2, <3>4
        <3> QED BY <3>2, <3>3, <3>5 DEF StatusOf, IsLast
    <2>2. CASE ~\E r \in store : r.payment = p
        BY <1>3, <1>7, <2>2 DEF StatusOf
    <2> QED BY <2>1, <2>2
<1>8. CASE c.expected = 0
    <2>1. \A r \in store : r.payment # c.payment
        BY <1>1, <1>4, <1>5, <1>8 DEF Row, Command
    <2>2. StatusOf(c.payment) = "NONE" /\ c.event.type = "Created"
        BY <1>1, <1>8, <2>1 DEF StatusOf, CommandSound
    <2> QED BY <1>1, <1>6, <1>7, <2>2
<1>9. CASE c.expected # 0
    <2>1. PICK last \in store :
               /\ last.payment = c.payment /\ last.version = c.expected
               /\ <<last.event.type, c.event.type>> \in LegalPairs
        BY <1>1, <1>9 DEF CommandSound
    <2>2. IsLast(last, c.payment) /\ c.payment \in Payments
        BY <1>1, <1>4, <2>1 DEF IsLast, Command
    <2>3. StatusOf(c.payment) = StatusAfter[last.event.type]
        BY <2>2, StatusIsLast
    <2> QED BY <1>1, <1>6, <1>7, <2>1, <2>3
<1> QED BY <1>8, <1>9

\* Every step but an append leaves the tables, the read model and so every
\* status alone.
LEMMA OthersAreSilent ==
    ASSUME [Next]_vars, ~\E w \in Workers : Append(w)
    PROVE  UNCHANGED <<store, readModel, debug>>
BY DEF Next, vars, CreatePayment, CreateRefund, ProcessPayment, SucceedPayment,
       FailPayment, CancelPayment, MarkPaymentAsRefunded, Decide,
       AppendConflicts, ProjectionRefuses, Crash, GiveUp

\* A step of the write side keeps the debug read model in step with the store.
LEMMA WritesAreProjected ==
    ASSUME IInv, IInv', ReadModelFollowsStore, [Next]_vars
    PROVE  ReadModelFollowsStore'
<1>1. CASE \E w \in Workers : Append(w)
    <2> PICK w \in Workers : Append(w)
        BY <1>1
    <2> PICK c : c = command[w]
        OBVIOUS
    <2>1. /\ debug' = debug
          /\ debug => readModel' = [readModel EXCEPT ![c.payment] =
                                      ProjectedStatus[c.event.type]]
        BY DEF Append
    <2>2. /\ c \in Command
          /\ StatusOf(c.payment)' = StatusAfter[c.event.type]
          /\ \A p \in Payments \ {c.payment} : StatusOf(p)' = StatusOf(p)
        BY AppendMoves
    <2>3. ProjectedStatus[c.event.type] = StatusAfter[c.event.type]
        BY <2>2 DEF Command, Event, ProjectedStatus, StatusAfter, EventTypes
    <2>4. readModel \in [Payments -> Statuses \cup {"NONE"}]
        BY DEF IInv, TypeOK
    <2>5. ASSUME debug, NEW p \in Payments
          PROVE  readModel'[p] = StatusOf(p)'
        BY <2>1, <2>2, <2>3, <2>4, <2>5 DEF ReadModelFollowsStore
    <2> QED BY <2>1, <2>5 DEF ReadModelFollowsStore
<1>2. CASE ~\E w \in Workers : Append(w)
    <2>1. UNCHANGED <<store, readModel, debug>>
        BY <1>2, OthersAreSilent
    <2>2. ASSUME NEW p PROVE StatusOf(p)' = StatusOf(p)
        BY <2>1 DEF StatusOf, IsLast
    <2> QED BY <2>1, <2>2 DEF ReadModelFollowsStore
<1> QED BY <1>1, <1>2

\* In debug mode the read model never lags behind or disagrees with the store.
THEOREM DebugReadModelIsCurrent == Spec => []ReadModelFollowsStore
<1>1. Init => ReadModelFollowsStore
    BY DEF Init, ReadModelFollowsStore, StatusOf
<1>2. IInv /\ IInv' /\ ReadModelFollowsStore /\ [Next]_vars
        => ReadModelFollowsStore'
    BY WritesAreProjected
<1> QED BY <1>1, <1>2, Invariance, PTL DEF Spec

\* The event-sourced payments implement the atomic ones.
THEOREM Refinement == Spec => ImplementsLifecycle
<1>1. Init => Lifecycle!Init
    BY DEF Init, Lifecycle!Init, AbstractStatus, StatusOf
<1>2. IInv /\ IInv' /\ [Next]_vars => [Lifecycle!Next]_AbstractStatus
    <2> SUFFICES ASSUME IInv, IInv', [Next]_vars
                 PROVE  [Lifecycle!Next]_AbstractStatus
        OBVIOUS
    <2>1. CASE \E w \in Workers : Append(w)
        <3> PICK w \in Workers : Append(w)
            BY <2>1
        <3> PICK c : c = command[w]
            OBVIOUS
        <3> DEFINE p    == c.payment
                   type == c.event.type
        <3>1. p \in Payments /\ type \in EventTypes
            BY AppendMoves DEF Command, Event
        <3>2. AbstractStatus' = [AbstractStatus EXCEPT ![p] = StatusAfter[type]]
            <4>1. /\ StatusOf(p)' = StatusAfter[type]
                  /\ \A q \in Payments \ {p} : StatusOf(q)' = StatusOf(q)
                BY AppendMoves
            <4>2. AbstractStatus' = [q \in Payments |-> StatusOf(q)']
                BY DEF AbstractStatus
            <4>3. AbstractStatus = [q \in Payments |-> StatusOf(q)]
                BY DEF AbstractStatus
            <4> QED BY <3>1, <4>1, <4>2, <4>3
        <3>3. CASE StatusOf(p) = "NONE" /\ type = "Created"
            <4>1. StatusAfter[type] = "PENDING" /\ AbstractStatus[p] = "NONE"
                BY <3>1, <3>3 DEF StatusAfter, EventTypes, AbstractStatus
            <4>2. Lifecycle!Open(p)
                BY <3>2, <4>1 DEF Lifecycle!Open
            <4> QED BY <3>1, <4>2 DEF Lifecycle!Next
        <3>4. CASE \E r \in store : /\ <<r.event.type, type>> \in LegalPairs
                                    /\ StatusOf(p) = StatusAfter[r.event.type]
            <4> PICK r \in store : /\ <<r.event.type, type>> \in LegalPairs
                                   /\ StatusOf(p) = StatusAfter[r.event.type]
                BY <3>4
            <4>1. AbstractStatus[p] = StatusAfter[r.event.type]
                BY <3>1 DEF AbstractStatus
            <4>2. /\ <<StatusAfter[r.event.type], StatusAfter[type]>>
                       \in Lifecycle!Moves
                  /\ StatusAfter[type] \in Lifecycle!Statuses
                BY DEF LegalPairs, StatusAfter, EventTypes, Lifecycle!Moves,
                       Lifecycle!Statuses
            <4>3. Lifecycle!Move(p, StatusAfter[type])
                BY <3>2, <4>1, <4>2 DEF Lifecycle!Move
            <4> QED BY <3>1, <4>2, <4>3 DEF Lifecycle!Next
        <3> QED BY <3>3, <3>4, AppendMoves
    <2>2. CASE ~\E w \in Workers : Append(w)
        <3>1. UNCHANGED store
            BY <2>2, OthersAreSilent
        <3>2. ASSUME NEW p PROVE StatusOf(p)' = StatusOf(p)
            BY <3>1 DEF StatusOf, IsLast
        <3> QED BY <3>2 DEF AbstractStatus
    <2> QED BY <2>1, <2>2
<1> QED BY <1>1, <1>2, Invariance, PTL
        DEF Spec, ImplementsLifecycle, Lifecycle!Spec
=============================================================================
