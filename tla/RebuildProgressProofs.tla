----------------------- MODULE RebuildProgressProofs ------------------------
(***************************************************************************)
(* Proofs about when a rebuild goes on and what its readers see, for any    *)
(* payments, workers and bounds.                                            *)
(*                                                                         *)
(* The argument: what the rebuild selected has every older row of each      *)
(* payment it has a row of (SnapshotIsClosed), and so has what it replayed, *)
(* when the clocks agree (PlayedIsClosed).  The next row then follows its   *)
(* predecessor in the stream, which is legal.  And what readers are shown   *)
(* is a row of the store that the rebuild has selected too (ShownIsStored), *)
(* so that what it commits is that row's status or a later one's.           *)
(***************************************************************************)
EXTENDS ProjectionRebuildProofs

USE DEF ReadModels

\* Older rows of a payment are selected with younger ones.
SnapshotIsClosed ==
    rebuild # NoRebuild => \A r \in rebuild.rows, q \in store :
        q.payment = r.payment /\ q.version < r.version => q \in rebuild.rows

\* And replayed before them.
PlayedIsClosed ==
    rebuild # NoRebuild /\ clocksAgree =>
        \A r \in rebuild.played, q \in rebuild.rows :
            q.payment = r.payment /\ q.version < r.version => q \in rebuild.played

\* The row is in the store, and in what is replayed.
InSight(r) == r \in store /\ (rebuild # NoRebuild => r \in rebuild.rows)

ShownIsStored ==
    \A p \in Payments : readModel[p] # "NONE" =>
        \E r \in store : /\ InSight(r) /\ r.payment = p
                         /\ readModel[p] = ProjectedStatus[r.event.type]

\* In debug mode nothing follows a Failed event.
FailedIsLast ==
    debug => \A r, q \in store :
        r.payment = q.payment /\ r.version < q.version => r.event.type # "Failed"

\* In debug mode the read model holds what is stored.
FitIsStored == debug => \A r \in store : FitsReadModel(r.event)

PInv ==
    /\ RInv
    /\ SnapshotIsClosed
    /\ PlayedIsClosed
    /\ ShownIsStored
    /\ FailedIsLast
    /\ FitIsStored
-----------------------------------------------------------------------------
(***************************************************************************)
(* The write side                                                          *)
(***************************************************************************)

\* The row an append adds.
NewRow(c) == [payment |-> c.payment, version |-> c.expected + 1, event |-> c.event]

\* It is younger than all others of its payment.
LEMMA AppendedIsLast ==
    ASSUME IInv, NEW w \in Workers, Append(w), NEW c, c = command[w]
    PROVE  /\ c \in Command /\ NewRow(c) \in store' /\ store' = store \cup {NewRow(c)}
           /\ \A r \in store : r.payment = c.payment => r.version < c.expected + 1
<1>1. c \in Command
    BY IdleIsNoCommand DEF Append, IInv, TypeOK
<1>2. store' = store \cup {NewRow(c)} /\ ~Taken(c.payment, c.expected + 1)
    BY DEF Append, AppendVersion, NewRow
<1>3. \A r \in store : r.payment = c.payment => r.version <= c.expected
    BY <1>1, <1>2, FreeSlotIsNext
<1>4. c.expected \in Nat /\ \A r \in store : r.version \in Nat
    BY <1>1 DEF Command, IInv, TypeOK, Row
<1> QED BY <1>1, <1>2, <1>3, <1>4

\* A step of the write side appends a row or leaves the tables alone.
LEMMA AppendPreservesClosure ==
    ASSUME PInv, WriteSide, NEW w \in Workers, Append(w)
    PROVE  SnapshotIsClosed' /\ PlayedIsClosed' /\ ShownIsStored' /\ FailedIsLast'
           /\ FitIsStored'
<1> PICK c : c = command[w]
    OBVIOUS
<1>1. /\ c \in Command /\ NewRow(c) \in store' /\ store' = store \cup {NewRow(c)}
      /\ \A r \in store : r.payment = c.payment => r.version < c.expected + 1
    BY AppendedIsLast DEF PInv, RInv
<1>2. /\ UNCHANGED <<rebuild, clocksAgree, debug>>
      /\ Locked => readModel' = readModel
      /\ debug => readModel[c.payment] \in ProjectableFrom[c.event.type]
                  /\ FitsReadModel(c.event)
      /\ readModel' = IF debug THEN [readModel EXCEPT ![c.payment] =
                                       ProjectedStatus[c.event.type]]
                      ELSE readModel
    BY DEF WriteSide, Append, ProjectionAccepts
<1>3. /\ NewRow(c).payment = c.payment /\ NewRow(c).version = c.expected + 1
      /\ NewRow(c).event = c.event
    BY DEF NewRow
<1>4. \A r \in store : r.version \in Nat
    BY DEF PInv, RInv, IInv, TypeOK, Row
<1>5. c.expected \in Nat /\ c.payment \in Payments /\ c.event.type \in EventTypes
    BY <1>1 DEF Command, Event
<1>6. SnapshotIsClosed'
    <2> SUFFICES ASSUME rebuild # NoRebuild, NEW r \in rebuild.rows, NEW q \in store',
                        q.payment = r.payment, q.version < r.version
                 PROVE  q \in rebuild.rows
        BY <1>2 DEF SnapshotIsClosed
    <2>1. r \in store
        BY DEF PInv, RInv, RebuildTypeOK
    <2>2. q # NewRow(c)
        BY <1>1, <1>3, <1>4, <1>5, <2>1
    <2> QED BY <1>1, <2>2 DEF PInv, SnapshotIsClosed
<1>7. PlayedIsClosed'
    BY <1>2 DEF PInv, PlayedIsClosed
<1>8. ShownIsStored'
    <2> SUFFICES ASSUME NEW p \in Payments, readModel'[p] # "NONE"
                 PROVE  \E r \in store' : /\ InSight(r)' /\ r.payment = p
                                 /\ readModel'[p] = ProjectedStatus[r.event.type]
        BY DEF ShownIsStored, ProjectedStatus
    <2>1. CASE readModel'[p] = readModel[p]
        <3>1. PICK r \in store : /\ InSight(r) /\ r.payment = p
                                 /\ readModel[p] = ProjectedStatus[r.event.type]
            BY <2>1 DEF PInv, ShownIsStored
        <3> QED BY <1>1, <1>2, <2>1, <3>1 DEF InSight
    <2>2. CASE readModel'[p] # readModel[p]
        <3>1. debug /\ p = c.payment /\ readModel'[p] = ProjectedStatus[c.event.type]
            BY <1>2, <1>5, <2>2 DEF PInv, RInv, IInv, TypeOK
        <3>2. rebuild = NoRebuild
            BY <1>2, <2>2, <3>1 DEF Locked
        <3>3. InSight(NewRow(c))'
            BY <1>1, <1>2, <3>2 DEF InSight
        <3> QED BY <1>1, <1>3, <3>1, <3>3
    <2> QED BY <2>1, <2>2
<1>9. FailedIsLast'
    <2> SUFFICES ASSUME debug, NEW r \in store', NEW q \in store',
                        r.payment = q.payment, r.version < q.version,
                        r.event.type = "Failed"
                 PROVE  FALSE
        BY <1>2 DEF FailedIsLast
    <2>1. r # NewRow(c)
        BY <1>1, <1>3, <1>4, <1>5
    <2>2. r \in store /\ q = NewRow(c)
        BY <1>1, <2>1 DEF PInv, FailedIsLast
    <2>3. PICK last \in store : IsLast(last, c.payment)
        BY <1>3, <1>5, <2>2 DEF PInv, RInv, IInv, StreamsEnd
    <2>4. last = r
        <3>1. r.version <= last.version /\ last.payment = r.payment
            BY <1>3, <2>2, <2>3 DEF IsLast
        <3>2. ~(r.version < last.version)
            BY <2>2, <3>1 DEF PInv, FailedIsLast
        <3> QED BY <1>4, <2>2, <3>1, <3>2 DEF PInv, RInv, IInv, VersionsDense
    <2>5. readModel[c.payment] = "FAILED"
        <3>1. StatusOf(c.payment) = StatusAfter[last.event.type]
            BY <1>5, <2>3, StatusIsLast DEF PInv, RInv
        <3> QED BY <1>5, <2>4, <3>1 DEF PInv, RInv, ReadModelFollowsStore, StatusAfter,
                   EventTypes
    <2>6. c.event.type = "Created"
        BY <1>2, <1>5, <2>5 DEF ProjectableFrom, EventTypes
    <2>7. c.expected = 0
        BY <2>6 DEF PInv, RInv, IInv, CommandsSound, CommandSound, Append
    <2>8. r.version < 1 /\ r.version \in Nat \ {0}
        BY <1>1, <1>3, <2>2, <2>7, StoreRows DEF PInv, RInv
    <2> QED BY <2>8
<1>10. FitIsStored'
    BY <1>1, <1>2, <1>3 DEF PInv, FitIsStored, FitsReadModel
<1> QED BY <1>6, <1>7, <1>8, <1>9, <1>10

\* The invariant does not look at what else the write side changes.
LEMMA WriteSideKeepsClosure ==
    ASSUME PInv, WriteSide
    PROVE  SnapshotIsClosed' /\ PlayedIsClosed' /\ ShownIsStored' /\ FailedIsLast'
           /\ FitIsStored'
<1>1. CASE \E w \in Workers : Append(w)
    BY <1>1, AppendPreservesClosure
<1>2. CASE ~\E w \in Workers : Append(w)
    <2>1. UNCHANGED <<store, readModel, debug, rebuild, clocksAgree>>
        BY <1>2, OthersAreSilent DEF WriteSide
    <2> QED BY <2>1 DEF PInv, SnapshotIsClosed, PlayedIsClosed, ShownIsStored, InSight,
               FailedIsLast, FitIsStored, FitsReadModel
<1> QED BY <1>1, <1>2
-----------------------------------------------------------------------------
(***************************************************************************)
(* The rebuild                                                             *)
(***************************************************************************)

\* A round of the replay.
LEMMA ReplayKeepsClosure ==
    ASSUME PInv, NEW r \in store, Replay(r)
    PROVE  SnapshotIsClosed' /\ PlayedIsClosed' /\ ShownIsStored' /\ FailedIsLast'
           /\ FitIsStored'
<1>1. /\ rebuild # NoRebuild /\ IsNextRow(r)
      /\ UNCHANGED <<store, readModel, debug, clocksAgree>>
      /\ rebuild' = [rebuild EXCEPT !.played = @ \cup {r},
                                    !.shadow[r.payment] = ReplayedStatus(r)]
    BY DEF Replay, vars
<1>2. rebuild'.rows = rebuild.rows /\ rebuild'.played = rebuild.played \cup {r}
    BY <1>1 DEF PInv, RInv, RebuildTypeOK, Rebuild
<1>3. SnapshotIsClosed'
    BY <1>1, <1>2 DEF PInv, SnapshotIsClosed
<1>4. PlayedIsClosed'
    BY <1>1, <1>2 DEF PInv, PlayedIsClosed, IsNextRow, RowsOf
<1>5. ShownIsStored'
    BY <1>1, <1>2 DEF PInv, ShownIsStored, InSight
<1>6. FailedIsLast' /\ FitIsStored'
    BY <1>1 DEF PInv, FailedIsLast, FitIsStored, FitsReadModel
<1> QED BY <1>3, <1>4, <1>5, <1>6

\* The shadow of a payment that has replayed rows is the status of a row that is
\* not older than r.
LEMMA ShadowIsLater ==
    ASSUME RInv, rebuild # NoRebuild, NEW r \in rebuild.played
    PROVE  \E q \in rebuild.played :
               /\ q.payment = r.payment /\ r.version <= q.version
               /\ \A x \in rebuild.played : x.payment = r.payment => x.version <= q.version
               /\ rebuild.shadow[r.payment] = ProjectedStatus[q.event.type]
<1>1. r \in store
    BY DEF RInv, RebuildTypeOK
<1>2. r.payment \in Payments /\ r \in RowsOf(rebuild.played, r.payment)
    BY <1>1, StoreRows DEF RInv, RowsOf
<1>3. PICK q \in RowsOf(rebuild.played, r.payment) :
          IsLastPlayed(q) /\ rebuild.shadow[r.payment] = ProjectedStatus[q.event.type]
    BY <1>2 DEF RInv, ShadowIsLast
<1> QED BY <1>2, <1>3 DEF RowsOf, IsLastPlayed

\* The rebuild commits.
LEMMA FinishKeepsClosure ==
    ASSUME PInv, FinishRebuild
    PROVE  SnapshotIsClosed' /\ PlayedIsClosed' /\ ShownIsStored' /\ FailedIsLast'
           /\ FitIsStored'
<1>1. /\ rebuild # NoRebuild /\ rebuild.played = rebuild.rows
      /\ readModel' = rebuild.shadow /\ rebuild' = NoRebuild
      /\ UNCHANGED <<store, debug, clocksAgree>>
      /\ rebuild.rows \subseteq store
    BY DEF FinishRebuild, PInv, RInv, RebuildTypeOK
<1>2. ShownIsStored'
    <2> SUFFICES ASSUME NEW p \in Payments, rebuild.shadow[p] # "NONE"
                 PROVE  \E r \in store : /\ r.payment = p
                            /\ rebuild.shadow[p] = ProjectedStatus[r.event.type]
        BY <1>1 DEF ShownIsStored, InSight
    <2>1. PICK q \in RowsOf(rebuild.played, p) :
              rebuild.shadow[p] = ProjectedStatus[q.event.type]
        BY <1>1 DEF PInv, RInv, ShadowIsLast
    <2> QED BY <1>1, <2>1 DEF RowsOf
<1>3. FailedIsLast' /\ FitIsStored'
    BY <1>1 DEF PInv, FailedIsLast, FitIsStored, FitsReadModel
<1> QED BY <1>1, <1>2, <1>3 DEF SnapshotIsClosed, PlayedIsClosed

LEMMA NextPInv == ASSUME PInv, [RebuildNext]_rebuildVars PROVE PInv'
<1>1. RInv'
    BY RebuildNextRInv DEF PInv
<1>2. CASE WriteSide
    BY <1>1, <1>2, WriteSideKeepsClosure DEF PInv
<1>3. CASE BeginRebuild
    <2>1. /\ UNCHANGED <<store, readModel, debug, clocksAgree>>
          /\ rebuild'.rows = store /\ rebuild'.played = {}
        BY <1>3 DEF BeginRebuild, SelectedRows, vars
    <2> QED BY <1>1, <2>1 DEF PInv, SnapshotIsClosed, PlayedIsClosed, ShownIsStored,
               InSight, FailedIsLast, FitIsStored, FitsReadModel
<1>4. ASSUME NEW r \in store, Replay(r) PROVE PInv'
    BY <1>1, <1>4, ReplayKeepsClosure DEF PInv
<1>5. CASE FinishRebuild
    BY <1>1, <1>5, FinishKeepsClosure DEF PInv
<1>6. CASE CrashRebuild \/ \E r \in store : ReplayRefuses(r)
    <2>1. UNCHANGED <<store, readModel, debug, clocksAgree>> /\ rebuild' = NoRebuild
        BY <1>6 DEF CrashRebuild, ReplayRefuses, vars
    <2> QED BY <1>1, <2>1 DEF PInv, SnapshotIsClosed, PlayedIsClosed, ShownIsStored,
               InSight, FailedIsLast, FitIsStored, FitsReadModel
<1>7. CASE UNCHANGED rebuildVars
    <2>1. UNCHANGED <<store, readModel, debug, clocksAgree, rebuild>>
        BY <1>7 DEF rebuildVars, vars
    <2> QED BY <1>1, <2>1 DEF PInv, SnapshotIsClosed, PlayedIsClosed, ShownIsStored,
               InSight, FailedIsLast, FitIsStored, FitsReadModel
<1> QED BY <1>1, <1>2, <1>3, <1>4, <1>5, <1>6, <1>7 DEF RebuildNext

\* The invariant of this module holds in every reachable state.
THEOREM ProgressInvariance == RebuildSpec => []PInv
<1>1. RebuildInit => PInv
    BY RebuildInitRInv DEF RebuildInit, Init, PInv, SnapshotIsClosed, PlayedIsClosed,
       ShownIsStored, FailedIsLast, FitIsStored
<1>2. PInv /\ [RebuildNext]_rebuildVars => PInv'
    BY NextPInv
<1> QED BY <1>1, <1>2, PTL DEF RebuildSpec
-----------------------------------------------------------------------------
(***************************************************************************)
(* When a replay is stopped                                                *)
(***************************************************************************)

\* With agreeing clocks a replay is stopped only by an event after a Failed one
\* and by a payment that the read model cannot hold, and in debug mode by
\* nothing.
THEOREM OnlyReopenedOrUnfitStops == RebuildSpec => []StoppedByReopenedOrUnfit
<1>1. ASSUME PInv, rebuild # NoRebuild, clocksAgree, NEW r \in rebuild.rows, IsNextRow(r)
      PROVE  \/ ReplayAccepts(r)
             \/ /\ ~debug
                /\ \/ ~FitsReadModel(r.event)
                   \/ \E q \in RowsOf(rebuild.rows, r.payment) :
                         q.version < r.version /\ q.event.type = "Failed"
    <2>1. /\ r \in store /\ rebuild.rows \subseteq store
          /\ rebuild.played \subseteq rebuild.rows /\ rebuild \in Rebuild
        BY <1>1 DEF PInv, RInv, RebuildTypeOK
    <2>2. /\ r.payment \in Payments /\ r.version \in Nat \ {0}
          /\ r.event.type \in EventTypes
        BY <1>1, <2>1, StoreRows DEF PInv, RInv
    <2>3. CASE r.version = 1
        <3>1. r.event.type = "Created"
            BY <1>1, <2>1, <2>3 DEF PInv, RInv, IInv, LegalHistory
        <3>2. rebuild.shadow[r.payment] \in Statuses \cup {"NONE"}
            BY <1>1, <2>1, <2>2 DEF Rebuild
        <3>3. ProjectableFrom["Created"] = Statuses \cup {"NONE"}
            BY DEF ProjectableFrom, EventTypes
        <3>4. rebuild.shadow[r.payment] \in ProjectableFrom[r.event.type]
            BY <3>1, <3>2, <3>3
        <3>5. debug => FitsReadModel(r.event)
            BY <1>1, <2>1 DEF PInv, FitIsStored
        <3> QED BY <3>4, <3>5 DEF ReplayAccepts
    <2>4. CASE r.version # 1
        <3>1. r.version - 1 \in 1..r.version /\ r.version - 1 \in Nat
            BY <2>2, <2>4
        <3>2. PICK prev \in store : prev.payment = r.payment /\ prev.version = r.version - 1
            BY <1>1, <2>1, <3>1 DEF PInv, RInv, IInv, VersionsDense, Taken, RowsOf
        <3>3. <<prev.event.type, r.event.type>> \in LegalPairs
            BY <1>1, <2>1, <2>2, <3>2 DEF PInv, RInv, IInv, LegalHistory
        <3>4. prev.version < r.version
            BY <2>2, <3>2
        <3>5. prev \in rebuild.rows /\ prev \in rebuild.played
            BY <1>1, <3>2, <3>4 DEF PInv, SnapshotIsClosed, IsNextRow, RowsOf
        <3>6. PICK last \in rebuild.played :
                 /\ last.payment = r.payment /\ prev.version <= last.version
                 /\ rebuild.shadow[r.payment] = ProjectedStatus[last.event.type]
            BY <1>1, <3>2, <3>5, ShadowIsLater DEF PInv
        <3>7. last = prev
            <4>1. last \in store /\ last.version \in Nat
                BY <1>1, <2>1, StoreRows DEF PInv, RInv
            <4>2. ~(r.version < last.version)
                BY <1>1, <3>6 DEF PInv, PlayedIsClosed, IsNextRow
            <4>3. last # r
                BY <1>1 DEF IsNextRow
            <4>4. last.version # r.version
                BY <1>1, <2>1, <3>6, <4>1, <4>3 DEF PInv, RInv, IInv, VersionsDense
            <4>5. last.version = prev.version
                BY <2>2, <3>2, <3>6, <4>1, <4>2, <4>4
            <4> QED BY <1>1, <3>2, <3>6, <4>1, <4>5 DEF PInv, RInv, IInv, VersionsDense
        <3>8. CASE prev.event.type = "Failed"
            <4>1. ~debug
                BY <1>1, <2>1, <3>2, <3>4, <3>8 DEF PInv, FailedIsLast
            <4> QED BY <3>2, <3>4, <3>5, <3>8, <4>1 DEF RowsOf
        <3>9. CASE prev.event.type # "Failed"
            <4>1. ProjectedStatus[prev.event.type] \in ProjectableFrom[r.event.type]
                BY <2>2, <3>3, <3>9 DEF LegalPairs, ProjectedStatus, ProjectableFrom, EventTypes
            <4>2. FitsReadModel(r.event)
                BY <2>2, <3>3 DEF LegalPairs, FitsReadModel, EventTypes
            <4> QED BY <3>6, <3>7, <4>1, <4>2 DEF ReplayAccepts
        <3> QED BY <3>8, <3>9
    <2> QED BY <2>3, <2>4
<1>2. PInv => StoppedByReopenedOrUnfit
    BY <1>1 DEF StoppedByReopenedOrUnfit
<1> QED BY <1>2, ProgressInvariance, PTL
-----------------------------------------------------------------------------
(***************************************************************************)
(* What readers see                                                        *)
(***************************************************************************)

\* A younger row of a payment has a status that may be shown later.
YoungerIsShownLater ==
    \A r, q \in store :
        r.payment = q.payment /\ r.version <= q.version =>
            ProjectedStatus[q.event.type] \in ShownAfter[ProjectedStatus[r.event.type]]

\* That is so in every state of the invariant.
LEMMA StreamsMoveOn == IInv => YoungerIsShownLater
<1> SUFFICES ASSUME IInv, NEW r \in store, NEW q \in store, r.payment = q.payment,
                    r.version <= q.version
             PROVE  ProjectedStatus[q.event.type]
                        \in ShownAfter[ProjectedStatus[r.event.type]]
    BY DEF YoungerIsShownLater
<1>1. /\ r.version \in Nat \ {0} /\ q.version \in Nat \ {0}
      /\ r.event.type \in EventTypes /\ q.event.type \in EventTypes
    BY StoreRows
<1>2. \A t \in EventTypes : ProjectedStatus[t] \in ShownAfter[ProjectedStatus[t]]
    BY DEF ProjectedStatus, ShownAfter, EventTypes, Statuses
<1>3. CASE r.version = q.version
    <2>1. r = q
        BY <1>3 DEF IInv, VersionsDense
    <2> QED BY <1>1, <1>2, <2>1
<1>4. CASE r.version < q.version
    <2>1. /\ q.event.type # "Created"
          /\ q.event.type = "Processed" => r.event.type = "Created"
          /\ r.event.type = "Succeeded" => q.event.type = "Refunded"
          /\ r.event.type \notin {"Refunded", "Cancelled"}
        BY <1>4, OrderOfTypes
    <2>2. ASSUME q.event.type = "Cancelled" PROVE r.event.type = "Created"
        <3>1. q.version - 1 \in 1..q.version
            BY <1>1, <1>4
        <3>2. PICK x \in store : x.payment = q.payment /\ x.version = q.version - 1
            BY <3>1 DEF IInv, VersionsDense, Taken, RowsOf
        <3>3. <<x.event.type, q.event.type>> \in LegalPairs
            BY <1>1, <3>2 DEF IInv, LegalHistory
        <3>4. x.event.type = "Created"
            BY <2>2, <3>3 DEF LegalPairs
        <3>5. x.version = 1
            BY <3>4 DEF IInv, LegalHistory
        <3>6. r.version = 1
            BY <1>1, <1>4, <3>2, <3>5
        <3> QED BY <3>6 DEF IInv, LegalHistory
    <2> QED BY <1>1, <2>1, <2>2 DEF ProjectedStatus, ShownAfter, EventTypes, Statuses
<1> QED BY <1>1, <1>3, <1>4

\* What a reader sees of a payment never goes back, whatever rebuilds and
\* appends overlap.
THEOREM ReadersMoveOn == RebuildSpec => ReadModelMovesOn
<1>1. ASSUME PInv, PInv', YoungerIsShownLater, YoungerIsShownLater',
             [RebuildNext]_rebuildVars, NEW p \in Payments
      PROVE  readModel'[p] \in ShownAfter[readModel[p]]
    <2>0. readModel[p] \in Statuses \cup {"NONE"} /\ readModel'[p] \in Statuses \cup {"NONE"}
        BY <1>1 DEF PInv, RInv, IInv, TypeOK
    <2>1. CASE readModel'[p] = readModel[p]
        BY <2>0, <2>1 DEF ShownAfter, Statuses
    <2>2. CASE readModel[p] = "NONE"
        BY <2>0, <2>2 DEF ShownAfter
    <2>3. CASE readModel[p] # "NONE" /\ readModel'[p] # readModel[p]
        <3>1. PICK r \in store : /\ InSight(r) /\ r.payment = p
                                 /\ readModel[p] = ProjectedStatus[r.event.type]
            BY <1>1, <2>3 DEF PInv, ShownIsStored
        <3>2. CASE WriteSide
            <4>1. PICK w \in Workers : Append(w)
                BY <2>3, <3>2, OthersAreSilent DEF WriteSide
            <4> PICK c : c = command[w]
                OBVIOUS
            <4>2. /\ c \in Command /\ store' = store \cup {NewRow(c)}
                  /\ \A x \in store : x.payment = c.payment => x.version < c.expected + 1
                BY <1>1, <4>1, AppendedIsLast DEF PInv, RInv
            <4>3. p = c.payment /\ readModel'[p] = ProjectedStatus[c.event.type]
                BY <1>1, <2>3, <4>1 DEF Append, PInv, RInv, IInv, TypeOK
            <4>4. /\ NewRow(c).payment = p /\ NewRow(c).version = c.expected + 1
                  /\ NewRow(c).event = c.event
                BY <4>3 DEF NewRow
            <4>5. r \in store' /\ NewRow(c) \in store' /\ r.version <= NewRow(c).version
                <5>1. r.version < c.expected + 1 /\ r.version \in Nat /\ c.expected \in Nat
                    BY <1>1, <3>1, <4>2, <4>3, StoreRows DEF PInv, RInv, Command
                <5> QED BY <4>2, <4>4, <5>1
            <4>6. ProjectedStatus[NewRow(c).event.type]
                      \in ShownAfter[ProjectedStatus[r.event.type]]
                <5>1. r.payment = NewRow(c).payment
                    BY <3>1, <4>4
                <5>2. \A x, y \in store' :
                         x.payment = y.payment /\ x.version <= y.version =>
                             ProjectedStatus[y.event.type]
                                 \in ShownAfter[ProjectedStatus[x.event.type]]
                    BY <1>1 DEF YoungerIsShownLater, ProjectedStatus, ShownAfter
                <5> QED BY <4>5, <5>1, <5>2
            <4> QED BY <3>1, <4>3, <4>4, <4>6
        <3>3. CASE FinishRebuild
            <4>1. /\ rebuild # NoRebuild /\ r \in rebuild.played
                  /\ readModel' = rebuild.shadow /\ rebuild.played \subseteq store
                BY <1>1, <3>1, <3>3 DEF FinishRebuild, InSight, PInv, RInv, RebuildTypeOK
            <4>2. PICK q \in rebuild.played :
                     /\ q.payment = p /\ r.version <= q.version
                     /\ rebuild.shadow[p] = ProjectedStatus[q.event.type]
                BY <1>1, <3>1, <4>1, ShadowIsLater DEF PInv
            <4> QED BY <1>1, <3>1, <4>1, <4>2 DEF YoungerIsShownLater
        <3>4. CASE ~WriteSide /\ ~FinishRebuild
            BY <1>1, <2>3, <3>4 DEF RebuildNext, BeginRebuild, Replay, ReplayRefuses,
               CrashRebuild, rebuildVars, vars
        <3> QED BY <3>2, <3>3, <3>4
    <2> QED BY <2>1, <2>2, <2>3
<1>2. PInv /\ PInv' /\ YoungerIsShownLater /\ YoungerIsShownLater'
        /\ [RebuildNext]_rebuildVars
        => [\A p \in Payments : readModel'[p] \in ShownAfter[readModel[p]]]_rebuildVars
    BY <1>1
<1>3. PInv => YoungerIsShownLater
    BY StreamsMoveOn DEF PInv, RInv
<1> QED BY <1>2, <1>3, ProgressInvariance, PTL DEF RebuildSpec, ReadModelMovesOn
=============================================================================
