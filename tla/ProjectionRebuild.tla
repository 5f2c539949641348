------------------------- MODULE ProjectionRebuild --------------------------
(***************************************************************************)
(* The rebuild of the payment read model (manage.py                         *)
(* rebuild_payment_projection) while the write side goes on.                *)
(*                                                                         *)
(* The command is one transaction: it takes the row lock of the projection, *)
(* deletes every read model, replays the event store as one SELECT found    *)
(* it, ordered by created_at, and commits.  Readers see the old read model  *)
(* until then.  In debug mode an append projects too, and so waits for the  *)
(* lock; in production it does not, and commits while the replay runs.      *)
(*                                                                         *)
(* created_at is the clock of the host that made the event, and versions of *)
(* a payment may have been made on different hosts: when their clocks do    *)
(* not agree the order is any order.                                        *)
(***************************************************************************)
EXTENDS PaymentEventStore

CONSTANT NoRebuild

VARIABLES
    rebuild,      \* the transaction of the command, or NoRebuild
    clocksAgree   \* created_at orders the events of a payment as its versions do

rebuildVars == <<vars, rebuild, clocksAgree>>

Rebuild == [rows : SUBSET Row, played : SUBSET Row, shadow : ReadModels]

ASSUME NoRebuildIsNoRebuild == NoRebuild \notin Rebuild
-----------------------------------------------------------------------------
\* A plausible slip: the synchronous projection does not lock its state row.
MutLocked == FALSE

\* The row of ProjectionState is locked for whoever projects in debug mode.
Locked == debug /\ rebuild # NoRebuild

\* The write side, whose appends wait while the lock is held.
WriteSide ==
    /\ Locked => UNCHANGED <<store, outbox, readModel>>
    /\ Next
    /\ UNCHANGED <<rebuild, clocksAgree>>

\* A plausible slip: the command reads what has not been committed.
MutSelectedRows ==
    store \cup {[payment |-> command[w].payment, version |-> command[w].expected + 1,
                event |-> command[w].event] : w \in {v \in Workers : command[v] # Idle}}

SelectedRows == store

\* The lock, the DELETE and the SELECT.  What commits between the first and
\* the last of them might as well have committed before.
BeginRebuild ==
    /\ rebuild = NoRebuild
    /\ rebuild' = [rows |-> SelectedRows, played |-> {},
                   shadow |-> [p \in Payments |-> "NONE"]]
    /\ UNCHANGED <<vars, clocksAgree>>

\* A plausible slip: the handlers' WHERE names the payment alone.
MutReplayAccepts(r) == r.event.type = "Created" \/ rebuild.shadow[r.payment] # "NONE"

ReplayAccepts(r) ==
    /\ rebuild.shadow[r.payment] \in ProjectableFrom[r.event.type]
    /\ FitsReadModel(r.event)

\* A plausible slip: the rows are ordered by their ids.
MutIsNextRow(r) == r \in rebuild.rows \ rebuild.played

\* r may be the next row in the order of created_at.
IsNextRow(r) ==
    /\ r \in rebuild.rows \ rebuild.played
    /\ clocksAgree => \A q \in RowsOf(rebuild.rows, r.payment) :
                          q.version < r.version => q \in rebuild.played

\* A plausible slip: Failed and Cancelled write each other's status.
MutReplayedStatus(r) == MutProjectedStatus[r.event.type]

ReplayedStatus(r) == ProjectedStatus[r.event.type]

\* One round of the command's loop.
Replay(r) ==
    /\ rebuild # NoRebuild
    /\ IsNextRow(r)
    /\ ReplayAccepts(r)
    /\ rebuild' = [rebuild EXCEPT !.played = @ \cup {r},
                                  !.shadow[r.payment] = ReplayedStatus(r)]
    /\ UNCHANGED <<vars, clocksAgree>>

\* The projector raises: everything is rolled back and the old read model stays.
ReplayRefuses(r) ==
    /\ rebuild # NoRebuild
    /\ IsNextRow(r)
    /\ ~ReplayAccepts(r)
    /\ rebuild' = NoRebuild
    /\ UNCHANGED <<vars, clocksAgree>>

\* The version is set back to 1 and the transaction commits.
FinishRebuild ==
    /\ rebuild # NoRebuild
    /\ rebuild.played = rebuild.rows
    /\ readModel' = rebuild.shadow
    /\ rebuild' = NoRebuild
    /\ UNCHANGED <<store, outbox, command, debug, clocksAgree>>

CrashRebuild ==
    /\ rebuild # NoRebuild
    /\ rebuild' = NoRebuild
    /\ UNCHANGED <<vars, clocksAgree>>

RebuildInit ==
    /\ Init
    /\ rebuild = NoRebuild
    /\ clocksAgree \in BOOLEAN

RebuildNext ==
    \/ WriteSide
    \/ BeginRebuild
    \/ \E r \in store : Replay(r) \/ ReplayRefuses(r)
    \/ FinishRebuild
    \/ CrashRebuild

RebuildSpec == RebuildInit /\ [][RebuildNext]_rebuildVars
-----------------------------------------------------------------------------
(***************************************************************************)
(* Properties                                                              *)
(***************************************************************************)

\* Types of the variables; what is replayed is in the store.
RebuildTypeOK ==
    /\ TypeOK
    /\ rebuild \in Rebuild \cup {NoRebuild}
    /\ rebuild # NoRebuild => rebuild.played \subseteq rebuild.rows
                              /\ rebuild.rows \subseteq store
    /\ clocksAgree \in BOOLEAN

\* The status that the rows of p leave, "NONE" without rows.
StatusIn(rows, p) ==
    IF RowsOf(rows, p) = {} THEN "NONE"
    ELSE ProjectedStatus[(CHOOSE r \in RowsOf(rows, p) :
             \A q \in RowsOf(rows, p) : q.version <= r.version).event.type]

\* The replay never commits a wrong status, whatever order the clocks gave:
\* the projector's guards stop it, or every payment has the status its last
\* version left (rebuild_payment_projection, PaymentProjector).
ReplayIsFaithful ==
    rebuild # NoRebuild =>
        \A p \in Payments : rebuild.shadow[p] = StatusIn(rebuild.played, p)

\* With agreeing clocks the replay is stopped by two things only, which the
\* aggregate allows and the projector does not: an event that follows a Failed
\* one, and a payment created with an amount or a currency that the read model
\* cannot hold.  In debug mode neither is ever stored, and every replay ends.
StoppedByReopenedOrUnfit ==
    rebuild # NoRebuild /\ clocksAgree =>
        \A r \in rebuild.rows : IsNextRow(r) =>
            \/ ReplayAccepts(r)
            \/ /\ ~debug
               /\ \/ ~FitsReadModel(r.event)
                  \/ \E q \in RowsOf(rebuild.rows, r.payment) :
                        q.version < r.version /\ q.event.type = "Failed"

\* The statuses a payment that shows s may show later.
ShownAfter == [s \in Statuses \cup {"NONE"} |->
    CASE s = "NONE"       -> Statuses \cup {"NONE"}
      [] s = "PENDING"    -> Statuses
      [] s = "PROCESSING" -> {"PROCESSING", "FAILED", "SUCCEEDED", "REFUNDED"}
      [] s = "FAILED"     -> {"FAILED", "SUCCEEDED", "REFUNDED"}
      [] s = "SUCCEEDED"  -> {"SUCCEEDED", "REFUNDED"}
      [] OTHER            -> {s}]

\* What a reader sees of a payment never goes back, although a rebuild commits
\* an older snapshot than the store of its time (apply_from_event and the
\* command's transaction on one row lock).
ReadModelMovesOn ==
    [][\A p \in Payments : readModel'[p] \in ShownAfter[readModel[p]]]_rebuildVars
=============================================================================
