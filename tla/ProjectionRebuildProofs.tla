---------------------- MODULE ProjectionRebuildProofs -----------------------
(***************************************************************************)
(* Proofs about the rebuild, for any payments, workers and bounds.          *)
(*                                                                         *)
(* The argument: the projector's guards accept an event of a payment only   *)
(* when it is younger than all that were replayed (AcceptedIsLast), because *)
(* the streams are legal histories; so the shadow of a payment always shows *)
(* the youngest of them (ShadowIsLast).  In debug mode the store stands     *)
(* still while the lock is held, so that what is committed is the store's   *)
(* status.                                                                  *)
(***************************************************************************)
EXTENDS ProjectionRebuild, PaymentEventStoreProofs

USE DEF ReadModels

\* The row q is the youngest replayed one of its payment.
IsLastPlayed(q) ==
    \A x \in rebuild.played : x.payment = q.payment => x.version <= q.version

ShadowIsLast ==
    rebuild # NoRebuild => \A p \in Payments :
        \/ RowsOf(rebuild.played, p) = {} /\ rebuild.shadow[p] = "NONE"
        \/ /\ \E q \in RowsOf(rebuild.played, p) :
                 IsLastPlayed(q) /\ rebuild.shadow[p] = ProjectedStatus[q.event.type]
           /\ \E q \in RowsOf(rebuild.played, p) : q.version = 1

StoreStandsStill == Locked => rebuild.rows = store

RInv == /\ IInv
        /\ ReadModelFollowsStore
        /\ RebuildTypeOK
        /\ ShadowIsLast
        /\ StoreStandsStill
-----------------------------------------------------------------------------
\* Rows of the store.
LEMMA StoreRows ==
    ASSUME IInv, NEW r \in store
    PROVE  /\ r \in Row /\ r.payment \in Payments /\ r.version \in Nat \ {0}
           /\ r.event.type \in EventTypes
BY DEF IInv, TypeOK, Row, Event

\* What may follow a row, and what must have gone before it.
LEMMA OrderOfTypes ==
    ASSUME IInv, NEW r \in store, NEW q \in store, r.payment = q.payment,
           r.version < q.version
    PROVE  /\ q.event.type # "Created"
           /\ q.event.type = "Processed" => r.event.type = "Created"
           /\ r.event.type = "Succeeded" => q.event.type = "Refunded"
           /\ r.event.type \notin {"Refunded", "Cancelled"}
<1>1. /\ r.version \in Nat \ {0} /\ q.version \in Nat \ {0}
      /\ r.event.type \in EventTypes /\ q.event.type \in EventTypes
    BY StoreRows
<1>2. q.event.type # "Created"
    BY <1>1 DEF IInv, LegalHistory
<1>3. ASSUME q.event.type = "Processed" PROVE r.event.type = "Created"
    <2>1. q.version - 1 \in 1..q.version
        BY <1>1
    <2>2. PICK x \in store : x.payment = q.payment /\ x.version = q.version - 1
        BY <2>1 DEF IInv, VersionsDense, Taken, RowsOf
    <2>3. <<x.event.type, q.event.type>> \in LegalPairs
        BY <1>1, <2>2 DEF IInv, LegalHistory
    <2>4. x.event.type = "Created"
        BY <1>3, <2>3 DEF LegalPairs
    <2>5. x.version = 1
        BY <2>4 DEF IInv, LegalHistory
    <2>6. r.version = 1
        BY <1>1, <2>2, <2>5
    <2> QED BY <2>6 DEF IInv, LegalHistory
<1>4. /\ r.event.type = "Succeeded" => q.event.type = "Refunded"
      /\ r.event.type \notin {"Refunded", "Cancelled"}
    BY DEF IInv, SettledOnce
<1> QED BY <1>2, <1>3, <1>4

\* The projector's guards let a payment's rows through in the order of their
\* versions only.
LEMMA AcceptedIsLast ==
    ASSUME RInv, NEW r \in store, Replay(r), NEW q \in rebuild.played,
           q.payment = r.payment
    PROVE  q.version < r.version
<1>1. /\ rebuild # NoRebuild /\ r \in rebuild.rows /\ r \notin rebuild.played
      /\ rebuild.shadow[r.payment] \in ProjectableFrom[r.event.type]
    BY DEF Replay, IsNextRow, ReplayAccepts
<1>2. rebuild.played \subseteq store
    BY <1>1 DEF RInv, RebuildTypeOK
<1>3. r.payment \in Payments /\ r.version \in Nat \ {0} /\ r.event.type \in EventTypes
    BY StoreRows DEF RInv
<1>4. q \in RowsOf(rebuild.played, r.payment)
    BY DEF RowsOf
<1>5. PICK last \in RowsOf(rebuild.played, r.payment) :
          /\ IsLastPlayed(last)
          /\ rebuild.shadow[r.payment] = ProjectedStatus[last.event.type]
    BY <1>1, <1>3, <1>4 DEF RInv, ShadowIsLast
<1>6. PICK first \in RowsOf(rebuild.played, r.payment) : first.version = 1
    BY <1>1, <1>3, <1>4 DEF RInv, ShadowIsLast
<1>7. /\ last \in store /\ last.payment = r.payment /\ last \in rebuild.played
      /\ first \in store /\ first.payment = r.payment /\ first \in rebuild.played
      /\ last.version \in Nat \ {0} /\ last.event.type \in EventTypes
      /\ q.version \in Nat /\ q.version <= last.version
    BY <1>2, <1>5, <1>6, StoreRows DEF RowsOf, IsLastPlayed, RInv
<1>8. r.version # last.version /\ r.version # 1
    BY <1>1, <1>6, <1>7 DEF RInv, IInv, VersionsDense
<1>9. ASSUME r.version < last.version PROVE FALSE
    <2>1. /\ last.event.type # "Created"
          /\ last.event.type = "Processed" => r.event.type = "Created"
          /\ r.event.type = "Succeeded" => last.event.type = "Refunded"
          /\ r.event.type \notin {"Refunded", "Cancelled"}
        BY <1>7, <1>9, OrderOfTypes DEF RInv
    <2>2. r.event.type # "Created"
        BY <1>8 DEF RInv, IInv, LegalHistory
    <2>3. r.event.type \in {"Processed", "Succeeded", "Failed"}
        BY <1>3, <2>1, <2>2 DEF EventTypes
    <2>4. ProjectedStatus[last.event.type] \in {"PENDING", "PROCESSING"}
        BY <1>1, <1>5, <2>3 DEF ProjectableFrom, EventTypes
    <2>5. last.event.type \in {"Created", "Processed"}
        BY <1>7, <2>4 DEF ProjectedStatus, EventTypes
    <2> QED BY <2>1, <2>2, <2>5
<1> QED BY <1>3, <1>7, <1>8, <1>9

\* The shadow shows the youngest of the replayed rows.
LEMMA ReplayPreserves ==
    ASSUME RInv, NEW r \in store, Replay(r)
    PROVE  RebuildTypeOK' /\ ShadowIsLast'
<1>1. /\ rebuild # NoRebuild /\ r \in rebuild.rows
      /\ rebuild' = [rebuild EXCEPT !.played = @ \cup {r},
                       !.shadow[r.payment] = ProjectedStatus[r.event.type]]
      /\ UNCHANGED <<store, outbox, readModel, command, debug, clocksAgree>>
      /\ rebuild.shadow[r.payment] \in ProjectableFrom[r.event.type]
    BY DEF Replay, IsNextRow, ReplayedStatus, ReplayAccepts, vars
<1>2. /\ rebuild \in Rebuild /\ rebuild.played \subseteq rebuild.rows
      /\ rebuild.rows \subseteq store
    BY <1>1 DEF RInv, RebuildTypeOK
<1>3. /\ r.payment \in Payments /\ r.version \in Nat \ {0} /\ r.event.type \in EventTypes
      /\ r \in Row
    BY StoreRows DEF RInv
<1>4. ProjectedStatus[r.event.type] \in Statuses
    BY <1>3 DEF ProjectedStatus, EventTypes, Statuses
<1>5. /\ rebuild'.played = rebuild.played \cup {r}
      /\ rebuild'.rows = rebuild.rows
      /\ rebuild'.shadow = [rebuild.shadow EXCEPT ![r.payment] =
                              ProjectedStatus[r.event.type]]
      /\ rebuild' \in Rebuild
    BY <1>1, <1>2, <1>3, <1>4 DEF Rebuild
<1>6. RebuildTypeOK'
    BY <1>1, <1>2, <1>5 DEF RInv, RebuildTypeOK, IInv, TypeOK
<1>7. ShadowIsLast'
    <2> SUFFICES ASSUME NEW p \in Payments
                 PROVE
        \/ RowsOf(rebuild'.played, p) = {} /\ rebuild'.shadow[p] = "NONE"
        \/ /\ \E q \in RowsOf(rebuild'.played, p) :
                 IsLastPlayed(q)' /\ rebuild'.shadow[p] = ProjectedStatus[q.event.type]
           /\ \E q \in RowsOf(rebuild'.played, p) : q.version = 1
        BY DEF ShadowIsLast, ProjectedStatus
    <2>1. CASE p # r.payment
        <3>1. RowsOf(rebuild'.played, p) = RowsOf(rebuild.played, p)
            BY <1>5, <2>1 DEF RowsOf
        <3>2. rebuild'.shadow[p] = rebuild.shadow[p]
            BY <1>2, <1>5, <2>1 DEF Rebuild
        <3>3. \A q \in RowsOf(rebuild.played, p) : IsLastPlayed(q) => IsLastPlayed(q)'
            BY <1>5, <2>1 DEF IsLastPlayed, RowsOf
        <3> QED BY <1>1, <3>1, <3>2, <3>3 DEF RInv, ShadowIsLast
    <2>2. CASE p = r.payment
        <3>1. r \in RowsOf(rebuild'.played, p)
            BY <1>5, <2>2 DEF RowsOf
        <3>2. rebuild'.shadow[p] = ProjectedStatus[r.event.type]
            BY <1>2, <1>5, <2>2 DEF Rebuild
        <3>3. IsLastPlayed(r)'
            <4> SUFFICES ASSUME NEW x \in rebuild'.played, x.payment = r.payment
                         PROVE  x.version <= r.version
                BY DEF IsLastPlayed
            <4>1. CASE x = r
                BY <1>3, <4>1
            <4>2. CASE x \in rebuild.played
                <5>1. x.version < r.version
                    BY <4>2, AcceptedIsLast
                <5>2. x.version \in Nat
                    BY <1>2, <4>2, StoreRows DEF RInv
                <5> QED BY <1>3, <5>1, <5>2
            <4> QED BY <1>5, <4>1, <4>2
        <3>4. \E q \in RowsOf(rebuild'.played, p) : q.version = 1
            <4>1. CASE RowsOf(rebuild.played, p) = {} /\ rebuild.shadow[p] = "NONE"
                <5>1. r.event.type = "Created"
                    BY <1>1, <1>3, <2>2, <4>1 DEF ProjectableFrom, EventTypes, Statuses
                <5> QED BY <3>1, <5>1 DEF RInv, IInv, LegalHistory
            <4>2. CASE \E q \in RowsOf(rebuild.played, p) : q.version = 1
                BY <1>5, <4>2 DEF RowsOf
            <4> QED BY <1>1, <4>1, <4>2 DEF RInv, ShadowIsLast
        <3> QED BY <3>1, <3>2, <3>3, <3>4
    <2> QED BY <2>1, <2>2
<1> QED BY <1>6, <1>7

\* A write of the store: what is replayed stays in it.
LEMMA StoreGrows ==
    ASSUME RInv, WriteSide
    PROVE  store \subseteq store' /\ debug' = debug /\ UNCHANGED <<rebuild, clocksAgree>>
BY DEF WriteSide, Next, Append, CreatePayment, CreateRefund, ProcessPayment,
       SucceedPayment, FailPayment, CancelPayment, MarkPaymentAsRefunded, Decide,
       AppendConflicts, ProjectionRefuses, Crash, GiveUp

LEMMA WriteSidePreserves ==
    ASSUME RInv, WriteSide
    PROVE  RInv'
<1>1. IInv' /\ ReadModelFollowsStore'
    <2>1. [Next]_vars
        BY DEF WriteSide
    <2>2. IInv'
        BY <2>1, NextIInv DEF RInv
    <2> QED BY <2>1, <2>2, WritesAreProjected DEF RInv
<1>2. /\ store \subseteq store' /\ debug' = debug /\ UNCHANGED <<rebuild, clocksAgree>>
      /\ Locked => store' = store
    BY StoreGrows DEF WriteSide
<1>3. RebuildTypeOK'
    BY <1>1, <1>2 DEF RInv, RebuildTypeOK, IInv
<1>4. ShadowIsLast'
    BY <1>2 DEF RInv, ShadowIsLast, IsLastPlayed
<1>5. StoreStandsStill'
    BY <1>2 DEF RInv, StoreStandsStill, Locked
<1> QED BY <1>1, <1>3, <1>4, <1>5 DEF RInv

\* The tables do not change, and neither does the command at hand.
LEMMA TablesStay ==
    ASSUME IInv, ReadModelFollowsStore, UNCHANGED <<vars, clocksAgree>>
    PROVE  IInv' /\ ReadModelFollowsStore'
<1>1. [Next]_vars
    OBVIOUS
<1>2. IInv'
    BY <1>1, NextIInv
<1>3. ReadModelFollowsStore'
    BY <1>1, <1>2, WritesAreProjected
<1> QED BY <1>2, <1>3

\* What a finished rebuild commits in debug mode is what the store says.
LEMMA FinishPreserves ==
    ASSUME RInv, FinishRebuild
    PROVE  RInv'
<1>1. /\ rebuild # NoRebuild /\ rebuild.played = rebuild.rows
      /\ readModel' = rebuild.shadow /\ rebuild' = NoRebuild
      /\ UNCHANGED <<store, outbox, command, debug, clocksAgree>>
      /\ rebuild \in Rebuild
    BY DEF FinishRebuild, RInv, RebuildTypeOK
<1>2. TypeOK'
    BY <1>1 DEF RInv, IInv, TypeOK, Rebuild
<1>3. IInv'
    <2>1. /\ VersionsDense' /\ LegalHistory' /\ SettledOnce' /\ OutboxMirrorsStore'
          /\ RefundWithinOriginal' /\ StreamsEnd'
        BY <1>1 DEF RInv, IInv, VersionsDense, Taken, RowsOf, LegalHistory, SettledOnce,
           OutboxMirrorsStore, RefundWithinOriginal, StreamsEnd, IsLast
    <2>2. CommandsSound'
        BY <1>1 DEF RInv, IInv, CommandsSound, CommandSound, RowsOf
    <2> QED BY <1>2, <2>1, <2>2 DEF IInv
<1>4. ReadModelFollowsStore'
    <2>0. ASSUME NEW p PROVE StatusOf(p)' = StatusOf(p)
        BY <1>1 DEF StatusOf, IsLast
    <2> SUFFICES ASSUME debug, NEW p \in Payments PROVE rebuild.shadow[p] = StatusOf(p)
        BY <1>1, <2>0 DEF ReadModelFollowsStore
    <2>1. rebuild.played = store
        BY <1>1 DEF RInv, StoreStandsStill, Locked
    <2>2. CASE RowsOf(rebuild.played, p) = {} /\ rebuild.shadow[p] = "NONE"
        BY <2>1, <2>2 DEF StatusOf, RowsOf
    <2>3. CASE \E q \in RowsOf(rebuild.played, p) :
                  IsLastPlayed(q) /\ rebuild.shadow[p] = ProjectedStatus[q.event.type]
        <3>1. PICK q \in store : q.payment = p /\ IsLastPlayed(q)
                      /\ rebuild.shadow[p] = ProjectedStatus[q.event.type]
            BY <2>1, <2>3 DEF RowsOf
        <3>2. IsLast(q, p)
            BY <2>1, <3>1 DEF IsLast, IsLastPlayed
        <3>3. StatusOf(p) = StatusAfter[q.event.type]
            BY <3>2, StatusIsLast DEF RInv
        <3>4. q.event.type \in EventTypes
            BY StoreRows DEF RInv
        <3> QED BY <3>1, <3>3, <3>4 DEF ProjectedStatus, StatusAfter, EventTypes
    <2> QED BY <1>1, <2>2, <2>3 DEF RInv, ShadowIsLast
<1>5. RebuildTypeOK' /\ ShadowIsLast' /\ StoreStandsStill'
    BY <1>1, <1>2 DEF RInv, RebuildTypeOK, ShadowIsLast, StoreStandsStill, Locked
<1> QED BY <1>3, <1>4, <1>5 DEF RInv
-----------------------------------------------------------------------------
(***************************************************************************)
(* The invariant                                                           *)
(***************************************************************************)

LEMMA RebuildInitRInv == ASSUME RebuildInit PROVE RInv
<1>1. IInv
    BY InitIInv DEF RebuildInit
<1>2. ReadModelFollowsStore
    BY DEF RebuildInit, Init, ReadModelFollowsStore, StatusOf
<1> QED BY <1>1, <1>2 DEF RInv, IInv, RebuildInit, RebuildTypeOK, ShadowIsLast,
           StoreStandsStill, Locked

LEMMA RebuildNextRInv == ASSUME RInv, [RebuildNext]_rebuildVars PROVE RInv'
<1>1. CASE WriteSide
    BY <1>1, WriteSidePreserves
<1>2. CASE FinishRebuild
    BY <1>2, FinishPreserves
<1>3. ASSUME UNCHANGED <<vars, clocksAgree>> PROVE IInv' /\ ReadModelFollowsStore'
    BY <1>3, TablesStay DEF RInv
<1>4. CASE BeginRebuild
    <2>1. /\ UNCHANGED <<vars, clocksAgree>>
          /\ rebuild' = [rows |-> store, played |-> {},
                         shadow |-> [p \in Payments |-> "NONE"]]
        BY <1>4 DEF BeginRebuild, SelectedRows
    <2>2. rebuild' \in Rebuild /\ UNCHANGED <<store, debug>>
        BY <2>1 DEF RInv, IInv, TypeOK, Rebuild, vars
    <2>3. RebuildTypeOK' /\ ShadowIsLast' /\ StoreStandsStill'
        BY <1>3, <2>1, <2>2 DEF RInv, IInv, RebuildTypeOK, ShadowIsLast,
           StoreStandsStill, Locked, RowsOf
    <2> QED BY <1>3, <2>1, <2>3 DEF RInv
<1>5. ASSUME NEW r \in store, Replay(r) PROVE RInv'
    <2>1. RebuildTypeOK' /\ ShadowIsLast'
        BY <1>5, ReplayPreserves
    <2>2. UNCHANGED <<vars, clocksAgree>> /\ rebuild # NoRebuild
        BY <1>5 DEF Replay
    <2>3. StoreStandsStill'
        <3>1. rebuild'.rows = rebuild.rows
            BY <1>5, <2>2 DEF Replay, RInv, RebuildTypeOK, Rebuild
        <3> QED BY <2>2, <3>1 DEF RInv, StoreStandsStill, Locked, vars
    <2> QED BY <1>3, <2>1, <2>2, <2>3 DEF RInv
<1>6. CASE CrashRebuild \/ \E r \in store : ReplayRefuses(r)
    <2>1. UNCHANGED <<vars, clocksAgree>> /\ rebuild' = NoRebuild
        BY <1>6 DEF CrashRebuild, ReplayRefuses
    <2> QED BY <1>3, <2>1 DEF RInv, IInv, RebuildTypeOK, ShadowIsLast,
               StoreStandsStill, Locked
<1>7. CASE UNCHANGED rebuildVars
    <2>1. UNCHANGED <<vars, clocksAgree, rebuild, store, debug>>
        BY <1>7 DEF rebuildVars, vars
    <2> QED BY <1>3, <2>1 DEF RInv, IInv, RebuildTypeOK, ShadowIsLast, IsLastPlayed,
               StoreStandsStill, Locked
<1> QED BY <1>1, <1>2, <1>4, <1>5, <1>6, <1>7 DEF RebuildNext

\* The inductive invariant holds in every reachable state.
THEOREM RebuildInvariance == RebuildSpec => []RInv
<1>1. RebuildInit => RInv
    BY RebuildInitRInv
<1>2. RInv /\ [RebuildNext]_rebuildVars => RInv'
    BY RebuildNextRInv
<1> QED BY <1>1, <1>2, PTL DEF RebuildSpec

\* What is replayed was committed, and the tables keep their types.
THEOREM RebuildTypeCorrectness == RebuildSpec => []RebuildTypeOK
<1>1. RInv => RebuildTypeOK
    BY DEF RInv
<1> QED BY <1>1, RebuildInvariance, PTL

\* Whatever order the clocks give the events, a replay that is not refused shows
\* the status of every payment's last event.
THEOREM AnyOrderIsFaithful == RebuildSpec => []ReplayIsFaithful
<1>1. RInv => ReplayIsFaithful
    <2> SUFFICES ASSUME RInv, rebuild # NoRebuild, NEW p \in Payments
                 PROVE  rebuild.shadow[p] = StatusIn(rebuild.played, p)
        BY DEF ReplayIsFaithful
    <2>1. CASE RowsOf(rebuild.played, p) = {} /\ rebuild.shadow[p] = "NONE"
        BY <2>1 DEF StatusIn
    <2>2. CASE \E q \in RowsOf(rebuild.played, p) :
                  IsLastPlayed(q) /\ rebuild.shadow[p] = ProjectedStatus[q.event.type]
        <3>1. PICK q \in RowsOf(rebuild.played, p) :
                  IsLastPlayed(q) /\ rebuild.shadow[p] = ProjectedStatus[q.event.type]
            BY <2>2
        <3>2. \A x \in RowsOf(rebuild.played, p) : x \in store /\ x.payment = p
            BY DEF RInv, RebuildTypeOK, RowsOf
        <3>3. \A x \in RowsOf(rebuild.played, p) : x.version \in Nat
            BY <3>2, StoreRows DEF RInv
        <3>4. \A x \in RowsOf(rebuild.played, p) : x.version <= q.version
            BY <3>1, <3>2 DEF IsLastPlayed, RowsOf
        <3>5. \A x \in RowsOf(rebuild.played, p) :
                 (\A y \in RowsOf(rebuild.played, p) : y.version <= x.version) => x = q
            <4> SUFFICES ASSUME NEW x \in RowsOf(rebuild.played, p),
                                \A y \in RowsOf(rebuild.played, p) : y.version <= x.version
                         PROVE  x = q
                OBVIOUS
            <4>1. x.version = q.version
                BY <3>3, <3>4
            <4> QED BY <3>2, <4>1 DEF RInv, IInv, VersionsDense
        <3>6. (CHOOSE x \in RowsOf(rebuild.played, p) :
                  \A y \in RowsOf(rebuild.played, p) : y.version <= x.version) = q
            BY <3>4, <3>5
        <3> QED BY <3>1, <3>6 DEF StatusIn
    <2> QED BY <2>1, <2>2 DEF RInv, ShadowIsLast
<1> QED BY <1>1, RebuildInvariance, PTL

\* With rebuilds going on beside the write side, the debug read model still is
\* what the event store says.
THEOREM RebuiltReadModelIsCurrent == RebuildSpec => []ReadModelFollowsStore
<1>1. RInv => ReadModelFollowsStore
    BY DEF RInv
<1> QED BY <1>1, RebuildInvariance, PTL
=============================================================================
