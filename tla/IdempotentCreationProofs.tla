---------------------- MODULE IdempotentCreationProofs ----------------------
(***************************************************************************)
(* Proofs about IdempotentCreation, for any sets of requests, keys, bodies *)
(* and payments and any bounds.                                            *)
(*                                                                         *)
(* The argument: a row that was never seen PENDING and unlocked can only   *)
(* be claimed by the request that inserted it, so that request is alone    *)
(* until it has executed and gone on.  Whoever claims a row, alone or not, *)
(* has compared its body with a fingerprint that does not change as long   *)
(* as the row is PENDING, so all of them have the same body.               *)
(***************************************************************************)
EXTENDS IdempotentCreation, TLAPS

\* Between its claim and the end of its command.
Claims(r) ==
    request[r] # NoRequest /\ request[r].step \in {"steal", "execute"}

\* Nothing refers to a row that is yet to be inserted, and who claims has one.
RowsAreCounted ==
    /\ \A k \in Keys : rows[k] # NoRow => rows[k].id <= inserted[k]
    /\ \A c \in created : c.row <= inserted[c.key]
    /\ \A r \in Requests : request[r] # NoRequest =>
          request[r].row <= inserted[request[r].key]
    /\ \A r \in Requests : Claims(r) => request[r].row # 0

\* What is about to be written back was read from a row.
SeenIsOfARow ==
    \A r \in Requests :
        request[r] # NoRequest
            /\ request[r].step \in {"saveSuccess", "saveFailure", "saveTest"}
        => request[r].seen.expiry # 0

\* A row still under its first lease is locked.
GuardedIsLocked ==
    \A k \in Keys :
        rows[k] # NoRow /\ rows[k].status = "PENDING"
            /\ <<k, rows[k].id>> \notin unguarded
        => rows[k].lock = "live"

\* Only a row no longer under its first lease is there to be stolen.
StealersAreLate ==
    \A r \in Requests :
        request[r] # NoRequest /\ request[r].step = "steal"
        => <<request[r].key, request[r].row>> \in unguarded

\* The holder of a row under its first lease is its only holder, and nobody has
\* created a payment under that row.
HolderIsAlone ==
    \A r \in Requests :
        request[r] # NoRequest /\ request[r].step = "execute"
            /\ <<request[r].key, request[r].row>> \notin unguarded
        => /\ \A s \in Requests \ {r} :
                 request[s] # NoRequest /\ request[s].step = "execute"
                     /\ request[s].key = request[r].key
                 => request[s].row # request[r].row
           /\ \A c \in created :
                 c.key = request[r].key => c.row # request[r].row

\* All who claim a row, or have executed under it, have the same body, and it
\* is the row's while that is PENDING.
ClaimsAgree ==
    /\ \A r, s \in Requests :
          Claims(r) /\ Claims(s) /\ request[r].key = request[s].key
              /\ request[r].row = request[s].row
          => request[r].payload = request[s].payload
    /\ \A r \in Requests, c \in created :
          Claims(r) /\ c.key = request[r].key /\ c.row = request[r].row
          => c.payload = request[r].payload
    /\ \A k \in Keys : rows[k] # NoRow /\ rows[k].status = "PENDING" =>
          /\ \A r \in Requests :
                Claims(r) /\ request[r].key = k /\ request[r].row = rows[k].id
                => request[r].payload = rows[k].fingerprint
          /\ \A c \in created :
                c.key = k /\ c.row = rows[k].id
                => c.payload = rows[k].fingerprint

\* The inductive invariant.
IInv ==
    /\ TypeOK
    /\ RowsAreCounted
    /\ SeenIsOfARow
    /\ GuardedIsLocked
    /\ StealersAreLate
    /\ HolderIsAlone
    /\ ClaimsAgree
    /\ OnceUnderLease
    /\ RetriesAgree
-----------------------------------------------------------------------------
(***************************************************************************)
(* The kinds of steps                                                      *)
(***************************************************************************)

\* Request r goes somewhere it claims nothing.
MovesOff(r, q) ==
    /\ Goto(r, q)
    /\ \/ q = NoRequest
       \/ /\ q \in Request
          /\ q.step \notin {"steal", "execute"}
          /\ q.row <= inserted[q.key]
          /\ q.step \in {"saveSuccess", "saveFailure", "saveTest"}
                => q.seen.expiry # 0

\* The table of keys changes at most in the row of k, which gets an outcome.
Settles(k) ==
    \/ rows' = rows
    \/ /\ rows[k] # NoRow
       /\ \E row \in IdRow :
             /\ Terminal(row)
             /\ row.id = rows[k].id
             /\ rows' = [rows EXCEPT ![k] = row]

\* Such steps preserve the invariant.
LEMMA MovingOffPreserves ==
    ASSUME IInv, NEW r \in Requests, NEW q, MovesOff(r, q),
           NEW k \in Keys, Settles(k), faults' \in Nat,
           UNCHANGED <<inserted, expired, unguarded, created>>
    PROVE  IInv'
<1> USE DEF IInv, MovesOff, Goto
<1>1. /\ request' \in [Requests -> Request \cup {NoRequest}]
      /\ request'[r] = q
      /\ \A s \in Requests \ {r} : request'[s] = request[s]
    BY DEF TypeOK
<1>2. \A j \in Keys : rows'[j] # NoRow =>
         /\ rows[j] # NoRow
         /\ rows'[j].id = rows[j].id
         /\ rows'[j] = rows[j] \/ rows'[j].status # "PENDING"
    BY DEF Settles, Terminal, TypeOK
<1>3. TypeOK'
    BY <1>1 DEF TypeOK, Settles
<1>4. RowsAreCounted'
    BY <1>1, <1>2, NothingIsDistinct DEF RowsAreCounted, Claims
<1>5. SeenIsOfARow'
    BY <1>1, NothingIsDistinct DEF SeenIsOfARow
<1>6. GuardedIsLocked'
    BY <1>2 DEF GuardedIsLocked
<1>7. StealersAreLate'
    BY <1>1, NothingIsDistinct DEF StealersAreLate
<1>8. HolderIsAlone'
    BY <1>1, NothingIsDistinct DEF HolderIsAlone
<1>9. \A s \in Requests : Claims(s)' => s # r /\ Claims(s)
    BY <1>1, NothingIsDistinct DEF Claims
<1>10. ClaimsAgree'
    BY <1>1, <1>2, <1>9 DEF ClaimsAgree
<1>11. OnceUnderLease' /\ RetriesAgree'
    BY DEF OnceUnderLease, RetriesAgree
<1> QED BY <1>3, <1>4, <1>5, <1>6, <1>7, <1>8, <1>10, <1>11
-----------------------------------------------------------------------------
(***************************************************************************)
(* The actions that claim nothing                                          *)
(***************************************************************************)

\* A reply leaves a request nothing to claim.
LEMMA ReplyMovesOff ==
    ASSUME TypeOK, NEW r \in Requests, NEW q \in Request, NEW status,
           NEW answer \in Payments \cup {NoPayment},
           Goto(r, Replied(q, status, answer))
    PROVE  MovesOff(r, Replied(q, status, answer))
<1>1. CASE answer = NoPayment
    BY <1>1 DEF Replied, MovesOff
<1>2. CASE answer # NoPayment
    <2> DEFINE step == IF status = "COMPLETED" THEN "answered" ELSE "answeredFailed"
               a == [q EXCEPT !.step = step, !.payment = answer,
                              !.row = 0, !.seen = NothingSeen(q.payload)]
    <2>1. NothingSeen(q.payload) \in [fingerprint : Payloads, expiry : Nat]
        BY DEF NothingSeen, Request
    <2>2. step \in {"answered", "answeredFailed"}
        OBVIOUS
    <2>3. Replied(q, status, answer) = a
        BY <1>2 DEF Replied
    <2> HIDE DEF step
    <2>4. a \in Request /\ a.step = step /\ a.row = 0
        BY <2>1, <2>2 DEF Request, Steps
    <2>5. inserted[a.key] \in Nat
        BY <2>4 DEF TypeOK, Request
    <2> QED BY <1>2, <2>2, <2>3, <2>4, <2>5 DEF MovesOff
<1> QED BY <1>1, <1>2

\* A request that answers, refuses, fails or is dropped moves off.
LEMMA QuietActions ==
    ASSUME IInv, NEW r \in Requests,
           \/ \E k \in Keys, payload \in Payloads : Begin(r, k, payload)
           \/ \E k \in Keys : RecordTestFailure(r, k)
           \/ ExecuteFails(r) \/ ReadSuccess(r) \/ ReadFailure(r)
           \/ Leave(r) \/ Crash(r) \/ ClaimOnly(r) \/ RecordSuccessFails(r)
    PROVE  IInv'
<1> SUFFICES /\ \E q : MovesOff(r, q)
             /\ UNCHANGED Tables
             /\ faults' \in Nat
             /\ Keys # {}
    BY MovingOffPreserves DEF Tables, Settles
<1>0. /\ request[r] \in Request \cup {NoRequest}
      /\ faults \in Nat /\ rows \in [Keys -> IdRow \cup {NoRow}]
      /\ inserted \in [Keys -> Nat]
    BY DEF IInv, TypeOK
<1>1. CASE \E k \in Keys, payload \in Payloads : Begin(r, k, payload)
    <2> PICK k \in Keys, payload \in Payloads : Begin(r, k, payload)
        BY <1>1
    <2> DEFINE q == [step |-> "claim", key |-> k, payload |-> payload,
                     row |-> 0, seen |-> NothingSeen(payload),
                     payment |-> NoPayment]
    <2>1. q \in Request
        BY DEF Request, Steps, NothingSeen
    <2>2. CASE ~Replayable(k)
        <3>1. MovesOff(r, q)
            BY <1>0, <2>1, <2>2 DEF Begin, MovesOff
        <3> QED BY <1>0, <3>1 DEF Begin
    <2>3. CASE Replayable(k)
        <3>1. rows[k].answer \in Payments \cup {NoPayment}
            BY <1>0, <2>3 DEF Replayable, IdRow
        <3>2. Goto(r, Replied(q, rows[k].status, rows[k].answer)) /\ TypeOK
            BY <2>3 DEF Begin, IInv
        <3> HIDE DEF q
        <3>3. MovesOff(r, Replied(q, rows[k].status, rows[k].answer))
            BY <2>1, <3>1, <3>2, ReplyMovesOff
        <3> QED BY <1>0, <3>3 DEF Begin
    <2> QED BY <2>2, <2>3
<1>2. CASE \E k \in Keys : RecordTestFailure(r, k)
    <2> PICK k \in Keys : RecordTestFailure(r, k)
        BY <1>2
    <2> PICK answer \in TestAnswers :
                Goto(r, [step |-> "saveTest", key |-> k,
                         payload |-> rows[k].fingerprint, row |-> 0,
                         seen |-> SeenOf(k), payment |-> answer])
        BY DEF RecordTestFailure
    <2> DEFINE q == [step |-> "saveTest", key |-> k,
                     payload |-> rows[k].fingerprint, row |-> 0,
                     seen |-> SeenOf(k), payment |-> answer]
    <2>1. rows[k] \in IdRow
        BY <1>0 DEF RecordTestFailure, Recordable
    <2>2. q \in Request /\ q.seen.expiry # 0
        BY <2>1, BodiesAreBodies DEF Request, Steps, SeenOf, IdRow
    <2>3. MovesOff(r, q)
        BY <1>0, <2>2 DEF MovesOff
    <2> QED BY <1>0, <2>3 DEF RecordTestFailure
<1>3. ASSUME request[r] # NoRequest
      PROVE  /\ request[r] \in Request
             /\ request[r].key \in Keys
             /\ request[r].row <= inserted[request[r].key]
    BY <1>0, <1>3 DEF IInv, RowsAreCounted, Request
<1>4. CASE ExecuteFails(r)
    <2>1. MovesOff(r, [request[r] EXCEPT !.step = "readFailure"])
        BY <1>3, <1>4 DEF ExecuteFails, MovesOff, Request, Steps
    <2> QED BY <1>0, <1>3, <1>4, <2>1 DEF ExecuteFails
<1>5. CASE ReadSuccess(r)
    <2>1. CASE Recordable(request[r].key)
        <3>1. rows[request[r].key] \in IdRow
            BY <1>0, <1>3, <1>5, <2>1 DEF ReadSuccess, Recordable
        <3>2. MovesOff(r, [request[r] EXCEPT !.step = "saveSuccess",
                                             !.seen = SeenOf(request[r].key)])
            BY <1>3, <1>5, <2>1, <3>1
            DEF ReadSuccess, MovesOff, Request, Steps, SeenOf, IdRow
        <3> QED BY <1>0, <1>3, <1>5, <3>2 DEF ReadSuccess
    <2>2. CASE ~Recordable(request[r].key)
        <3>1. MovesOff(r, [request[r] EXCEPT !.step = "readFailure"])
            BY <1>3, <1>5, <2>2 DEF ReadSuccess, MovesOff, Request, Steps
        <3> QED BY <1>0, <1>3, <1>5, <3>1 DEF ReadSuccess
    <2> QED BY <2>1, <2>2
<1>6. CASE ReadFailure(r)
    <2>1. CASE Recordable(request[r].key)
        <3>1. rows[request[r].key] \in IdRow
            BY <1>0, <1>3, <1>6, <2>1 DEF ReadFailure, Recordable
        <3>2. MovesOff(r, [request[r] EXCEPT !.step = "saveFailure",
                                             !.seen = SeenOf(request[r].key)])
            BY <1>3, <1>6, <2>1, <3>1
            DEF ReadFailure, MovesOff, Request, Steps, SeenOf, IdRow
        <3> QED BY <1>0, <1>3, <1>6, <3>2 DEF ReadFailure
    <2>2. CASE ~Recordable(request[r].key)
        <3>1. MovesOff(r, NoRequest)
            BY <1>6, <2>2 DEF ReadFailure, MovesOff
        <3> QED BY <1>0, <1>3, <1>6, <3>1 DEF ReadFailure
    <2> QED BY <2>1, <2>2
<1>7. CASE Leave(r) \/ Crash(r) \/ ClaimOnly(r)
    <2>1. MovesOff(r, NoRequest)
        BY <1>7 DEF Leave, Crash, ClaimOnly, MovesOff
    <2> QED BY <1>0, <1>3, <1>7, <2>1 DEF Leave, Crash, ClaimOnly, Told
<1>8. CASE RecordSuccessFails(r)
    <2>1. MovesOff(r, [request[r] EXCEPT !.step = "readFailure"])
        BY <1>3, <1>8 DEF RecordSuccessFails, MovesOff, Request, Steps
    <2> QED BY <1>0, <1>3, <1>8, <2>1 DEF RecordSuccessFails
<1> QED BY <1>1, <1>2, <1>4, <1>5, <1>6, <1>7, <1>8
-----------------------------------------------------------------------------
(***************************************************************************)
(* The other actions                                                       *)
(***************************************************************************)

\* A request that only takes note of the row it will steal, or of the absence
\* of one.
LEMMA ClaimPreserves ==
    ASSUME IInv, NEW r \in Requests, Claim(r)
    PROVE  IInv'
<1> DEFINE k == request[r].key
<1>1. /\ request[r] \in Request /\ k \in Keys
      /\ request[r].row <= inserted[k]
      /\ rows \in [Keys -> IdRow \cup {NoRow}]
      /\ faults \in Nat /\ TypeOK
    BY DEF IInv, TypeOK, Claim, RowsAreCounted, Request
<1>2. UNCHANGED <<rows, inserted, expired, unguarded, created, faults>>
    BY DEF Claim, Tables
<1>3. Settles(k) /\ faults' \in Nat
    BY <1>1, <1>2 DEF Settles
<1>4. ASSUME NEW q, MovesOff(r, q)
      PROVE  IInv'
    BY <1>1, <1>2, <1>3, <1>4, MovingOffPreserves
<1>5. CASE Goto(r, [request[r] EXCEPT !.step = "insert"])
    <2>1. MovesOff(r, [request[r] EXCEPT !.step = "insert"])
        BY <1>1, <1>5 DEF MovesOff, Request, Steps
    <2> QED BY <1>4, <2>1
<1>6. CASE Replayable(k) /\ Goto(r, Replied(request[r], rows[k].status, rows[k].answer))
    <2>1. rows[k].answer \in Payments \cup {NoPayment}
        BY <1>1, <1>6 DEF Replayable, IdRow
    <2>2. MovesOff(r, Replied(request[r], rows[k].status, rows[k].answer))
        BY <1>1, <1>6, <2>1, ReplyMovesOff
    <2> QED BY <1>4, <2>2
<1>7. CASE Goto(r, NoRequest)
    <2>1. MovesOff(r, NoRequest)
        BY <1>7 DEF MovesOff
    <2> QED BY <1>4, <2>1
<1>8. CASE /\ rows[k] # NoRow /\ ~Expired(k) /\ ~Terminal(rows[k])
           /\ Fits(k, request[r].payload) /\ Free(k)
           /\ Goto(r, [request[r] EXCEPT !.step = "steal", !.row = rows[k].id])
    <2>1. /\ rows[k] \in IdRow /\ rows[k].status = "PENDING"
          /\ rows[k].fingerprint = request[r].payload
          /\ rows[k].lock # "live" /\ rows[k].id <= inserted[k]
        BY <1>1, <1>8
        DEF Terminal, Fits, Free, IdRow, Statuses, IInv, RowsAreCounted
    <2>2. <<k, rows[k].id>> \in unguarded
        BY <1>1, <1>8, <2>1 DEF IInv, GuardedIsLocked
    <2>3. /\ request'[r] \in Request /\ request'[r].step = "steal"
          /\ request'[r].key = k /\ request'[r].row = rows[k].id
          /\ request'[r].payload = request[r].payload
          /\ \A s \in Requests \ {r} : request'[s] = request[s]
          /\ request' \in [Requests -> Request \cup {NoRequest}]
        BY <1>1, <1>8, <2>1 DEF Goto, TypeOK, Request, Steps, IdRow
    <2>4. TypeOK'
        BY <1>1, <1>2, <2>3 DEF TypeOK
    <2>5. RowsAreCounted'
        BY <1>1, <1>2, <2>1, <2>3 DEF IInv, RowsAreCounted, Claims, IdRow
    <2>6. SeenIsOfARow' /\ StealersAreLate' /\ HolderIsAlone'
        BY <1>2, <2>2, <2>3
        DEF IInv, SeenIsOfARow, StealersAreLate, HolderIsAlone
    <2>7. GuardedIsLocked' /\ OnceUnderLease' /\ RetriesAgree'
        BY <1>2 DEF IInv, GuardedIsLocked, OnceUnderLease, RetriesAgree
    <2>8. \A s \in Requests \ {r} : Claims(s)' <=> Claims(s)
        BY <2>3 DEF Claims
    <2>9. ClaimsAgree'
        BY <1>1, <1>2, <1>8, <2>1, <2>3, <2>8 DEF IInv, ClaimsAgree
    <2> QED BY <2>4, <2>5, <2>6, <2>7, <2>9 DEF IInv
<1> QED BY <1>5, <1>6, <1>7, <1>8 DEF Claim

\* The new row's number is one nobody has.
LEMMA InsertPreserves ==
    ASSUME IInv, NEW r \in Requests, Insert(r)
    PROVE  IInv'
<1> DEFINE k == request[r].key
           new == NewRow(k, request[r].payload, "live")
<1>1. /\ request[r] \in Request /\ k \in Keys
      /\ rows \in [Keys -> IdRow \cup {NoRow}]
      /\ inserted \in [Keys -> Nat]
      /\ faults \in Nat /\ TypeOK
    BY DEF IInv, TypeOK, Insert, Request
<1>2. CASE rows[k] # NoRow
    <2>1. MovesOff(r, NoRequest) /\ Settles(k) /\ faults' \in Nat
          /\ UNCHANGED <<inserted, expired, unguarded, created>>
        BY <1>1, <1>2 DEF Insert, MovesOff, Settles
    <2> QED BY <1>1, <2>1, MovingOffPreserves
<1>3. CASE rows[k] = NoRow
    <2>1. /\ rows' = [rows EXCEPT ![k] = new]
          /\ inserted' = [inserted EXCEPT ![k] = inserted[k] + 1]
          /\ Goto(r, [request[r] EXCEPT !.step = "execute",
                                        !.row = inserted[k] + 1])
          /\ UNCHANGED <<expired, unguarded, created, faults>>
        BY <1>3 DEF Insert
    <2>2. /\ new \in IdRow /\ new.id = inserted[k] + 1
          /\ new.status = "PENDING" /\ new.lock = "live"
          /\ new.fingerprint = request[r].payload
        BY <1>1 DEF NewRow, IdRow, Statuses, Locks, Request
    <2> HIDE DEF new
    <2>3. /\ request'[r] \in Request /\ request'[r].step = "execute"
          /\ request'[r].key = k /\ request'[r].row = inserted[k] + 1
          /\ request'[r].payload = request[r].payload
          /\ \A s \in Requests \ {r} : request'[s] = request[s]
          /\ request' \in [Requests -> Request \cup {NoRequest}]
        <3> DEFINE n == inserted[k] + 1
                   q == [request[r] EXCEPT !.step = "execute", !.row = n]
        <3>1. n \in Nat
            BY <1>1
        <3> HIDE DEF n
        <3>2. /\ q \in Request /\ q.step = "execute" /\ q.key = k
              /\ q.row = n /\ q.payload = request[r].payload
            BY <1>1, <3>1 DEF Request, Steps
        <3>3. request' = [request EXCEPT ![r] = q]
            BY <2>1 DEF Goto, n
        <3> HIDE DEF q
        <3> QED BY <1>1, <3>2, <3>3 DEF TypeOK, n
    <2>4. /\ \A c \in created : c.key = k => c.row # inserted[k] + 1
          /\ \A s \in Requests :
                request[s] # NoRequest /\ request[s].key = k
                  => request[s].row # inserted[k] + 1
          /\ \A c \in created : c.key \in Keys /\ c.row \in Nat
          /\ \A s \in Requests : request[s] # NoRequest =>
                request[s].key \in Keys /\ request[s].row \in Nat
        BY <1>1
        DEF IInv, RowsAreCounted, TypeOK, Creation, Request
    <2>5. TypeOK'
        BY <1>1, <2>1, <2>2, <2>3 DEF TypeOK
    <2>6. RowsAreCounted'
        BY <1>1, <2>1, <2>2, <2>3, <2>4
        DEF IInv, RowsAreCounted, Claims, TypeOK, IdRow
    <2>7. SeenIsOfARow' /\ StealersAreLate'
        BY <2>1, <2>3 DEF IInv, SeenIsOfARow, StealersAreLate
    <2>8. HolderIsAlone'
        BY <2>1, <2>3, <2>4 DEF IInv, HolderIsAlone
    <2>9. GuardedIsLocked'
        BY <1>1, <2>1, <2>2 DEF IInv, GuardedIsLocked
    <2>10. \A s \in Requests \ {r} : Claims(s)' <=> Claims(s)
        BY <2>3 DEF Claims
    <2>11. ClaimsAgree'
        BY <1>1, <2>1, <2>2, <2>3, <2>4, <2>10 DEF IInv, ClaimsAgree, Claims
    <2>12. OnceUnderLease' /\ RetriesAgree'
        BY <2>1 DEF IInv, OnceUnderLease, RetriesAgree
    <2> QED BY <2>5, <2>6, <2>7, <2>8, <2>9, <2>11, <2>12 DEF IInv
<1> QED BY <1>2, <1>3

\* A stealer writes the lock of the row it has read, and of no other.
LEMMA StealPreserves ==
    ASSUME IInv, NEW r \in Requests, Steal(r)
    PROVE  IInv'
<1> DEFINE k == request[r].key
<1>1. /\ request[r] \in Request /\ k \in Keys
      /\ rows \in [Keys -> IdRow \cup {NoRow}]
      /\ faults \in Nat /\ TypeOK
      /\ request[r] # NoRequest /\ request[r].step = "steal"
    BY DEF IInv, TypeOK, Steal, Request
<1>2. UNCHANGED <<inserted, expired, unguarded, created, faults>>
    BY DEF Steal
<1>3. CASE UNCHANGED rows /\ Goto(r, NoRequest)
    <2>1. MovesOff(r, NoRequest) /\ Settles(k) /\ faults' \in Nat
        BY <1>1, <1>2, <1>3 DEF MovesOff, Settles
    <2> QED BY <1>1, <1>2, <2>1, MovingOffPreserves
<1>4. CASE /\ rows[k] # NoRow /\ rows[k].id = request[r].row
           /\ rows' = [rows EXCEPT ![k] = Stolen(rows[k])]
           /\ Goto(r, [request[r] EXCEPT !.step = "execute"])
    <2>1. /\ rows[k] \in IdRow /\ rows'[k] \in IdRow
          /\ rows'[k].lock = "live" /\ rows'[k].id = rows[k].id
          /\ rows'[k].status = rows[k].status
          /\ rows'[k].fingerprint = rows[k].fingerprint
          /\ \A j \in Keys \ {k} : rows'[j] = rows[j]
          /\ rows' \in [Keys -> IdRow \cup {NoRow}]
        BY <1>1, <1>4 DEF Stolen, IdRow, Locks
    <2>2. /\ request'[r] \in Request /\ request'[r].step = "execute"
          /\ request'[r].key = k /\ request'[r].row = request[r].row
          /\ request'[r].payload = request[r].payload
          /\ \A s \in Requests \ {r} : request'[s] = request[s]
          /\ request' \in [Requests -> Request \cup {NoRequest}]
        BY <1>1, <1>4 DEF Goto, TypeOK, Request, Steps
    <2>3. <<k, request[r].row>> \in unguarded
        BY <1>1 DEF IInv, StealersAreLate
    <2>4. TypeOK'
        BY <1>1, <1>2, <2>1, <2>2 DEF TypeOK
    <2>5. RowsAreCounted'
        BY <1>1, <1>2, <1>4, <2>1, <2>2 DEF IInv, RowsAreCounted, Claims
    <2>6. SeenIsOfARow' /\ StealersAreLate'
        BY <1>2, <2>2 DEF IInv, SeenIsOfARow, StealersAreLate
    <2>7. HolderIsAlone'
        BY <1>2, <2>2, <2>3 DEF IInv, HolderIsAlone
    <2>8. GuardedIsLocked'
        BY <1>2, <2>1 DEF IInv, GuardedIsLocked
    <2>9. \A s \in Requests :
              /\ Claims(s)' <=> Claims(s)
              /\ Claims(s) => /\ request'[s].key = request[s].key
                              /\ request'[s].row = request[s].row
                              /\ request'[s].payload = request[s].payload
        BY <1>1, <2>2, NothingIsDistinct DEF Claims
    <2>10. ClaimsAgree'
        BY <1>2, <1>4, <2>1, <2>9 DEF IInv, ClaimsAgree
    <2>11. OnceUnderLease' /\ RetriesAgree'
        BY <1>2 DEF IInv, OnceUnderLease, RetriesAgree
    <2> QED BY <2>4, <2>5, <2>6, <2>7, <2>8, <2>10, <2>11 DEF IInv
<1> QED BY <1>3, <1>4 DEF Steal

\* The holder that executes is the last to hold a row under its first lease.
LEMMA ExecutePreserves ==
    ASSUME IInv, NEW r \in Requests, NEW p \in Payments, Execute(r, p)
    PROVE  IInv'
<1> DEFINE k == request[r].key
           c0 == [id |-> p, key |-> k, row |-> request[r].row,
                  payload |-> request[r].payload]
           to == IF request[r].payload \in Refunds
                 THEN "readFailure" ELSE "readSuccess"
           q == [request[r] EXCEPT !.payment = p, !.step = to]
<1>1. /\ request[r] \in Request /\ k \in Keys
      /\ faults \in Nat /\ TypeOK
      /\ request[r] # NoRequest /\ request[r].step = "execute"
      /\ request[r].row <= inserted[k]
    BY DEF IInv, TypeOK, Execute, Request, RowsAreCounted
<1>2. /\ created' = created \cup {c0}
      /\ request' = [request EXCEPT ![r] = q]
      /\ UNCHANGED <<rows, inserted, expired, unguarded, faults>>
    BY DEF Execute, Goto
<1>3. /\ c0 \in Creation /\ c0.key = k /\ c0.row = request[r].row
      /\ c0.payload = request[r].payload
    BY <1>1 DEF Creation, Request
<1>4. /\ q \in Request /\ q.step = to /\ q.row = request[r].row /\ q.key = k
    BY <1>1 DEF Request, Steps
<1>5. to \notin {"steal", "execute", "saveSuccess", "saveFailure", "saveTest"}
    OBVIOUS
<1> HIDE DEF c0, q, to
<1>6. /\ request'[r] = q
      /\ \A s \in Requests \ {r} : request'[s] = request[s]
    BY <1>1, <1>2 DEF TypeOK
<1>7. TypeOK'
    BY <1>1, <1>2, <1>3, <1>4 DEF TypeOK
<1>8. RowsAreCounted'
    BY <1>1, <1>2, <1>3, <1>4, <1>5, <1>6 DEF IInv, RowsAreCounted, Claims
<1>9. SeenIsOfARow' /\ StealersAreLate'
    BY <1>2, <1>4, <1>5, <1>6 DEF IInv, SeenIsOfARow, StealersAreLate
<1>10. GuardedIsLocked'
    BY <1>2 DEF IInv, GuardedIsLocked
<1>11. HolderIsAlone'
    BY <1>1, <1>2, <1>3, <1>4, <1>5, <1>6 DEF IInv, HolderIsAlone
<1>12. \A s \in Requests : Claims(s)' => s # r /\ Claims(s)
    BY <1>4, <1>5, <1>6 DEF Claims
<1>13. Claims(r)
    BY <1>1 DEF Claims
<1>14. ClaimsAgree'
    BY <1>1, <1>2, <1>3, <1>6, <1>12, <1>13 DEF IInv, ClaimsAgree
<1>15. OnceUnderLease'
    BY <1>1, <1>2, <1>3 DEF IInv, OnceUnderLease, HolderIsAlone
<1>16. RetriesAgree'
    BY <1>1, <1>2, <1>3, <1>13 DEF IInv, RetriesAgree, ClaimsAgree
<1> QED BY <1>7, <1>8, <1>9, <1>10, <1>11, <1>14, <1>15, <1>16 DEF IInv

\* Recording an outcome settles the row that is there, whichever it is.
LEMMA SavePreserves ==
    ASSUME IInv, NEW r \in Requests,
           SaveSuccess(r) \/ SaveFailure(r) \/ SaveTestFailure(r)
    PROVE  IInv'
<1> DEFINE k == request[r].key
<1>1. /\ request[r] \in Request /\ k \in Keys
      /\ rows \in [Keys -> IdRow \cup {NoRow}]
      /\ faults \in Nat /\ TypeOK
      /\ request[r] # NoRequest
      /\ request[r].step \in {"saveSuccess", "saveFailure", "saveTest"}
      /\ request[r].row <= inserted[k]
      /\ request[r].seen.expiry # 0
    BY DEF IInv, TypeOK, SaveSuccess, SaveFailure, SaveTestFailure, Request,
           RowsAreCounted, SeenIsOfARow
<1>2. UNCHANGED <<inserted, expired, unguarded, created, faults>>
    BY DEF SaveSuccess, SaveFailure, SaveTestFailure
<1>3. ASSUME NEW status \in {"COMPLETED", "FAILED"},
             NEW answer \in Payments \cup {NoPayment},
             rows[k] # NoRow,
             rows' = [rows EXCEPT ![k] =
                        Outcome(rows[k], request[r].seen, status, answer)]
      PROVE  Settles(k)
    <2> DEFINE row == Outcome(rows[k], request[r].seen, status, answer)
    <2>1. rows[k] \in IdRow
        BY <1>1, <1>3
    <2>2. /\ request[r].seen.fingerprint \in Payloads
          /\ request[r].seen.expiry \in Nat \ {0}
        BY <1>1 DEF Request
    <2>3. row \in IdRow /\ row.id = rows[k].id /\ Terminal(row)
        BY <2>1, <2>2 DEF Outcome, IdRow, Statuses, Locks, Terminal
    <2> QED BY <1>3, <2>3 DEF Settles
<1>4. CASE SaveSuccess(r)
    <2>1. CASE rows[k] # NoRow
        <3>1. request[r].payment \in Payments \cup {NoPayment}
            BY <1>1 DEF Request
        <3>2. Settles(k)
            BY <1>3, <1>4, <2>1, <3>1 DEF SaveSuccess
        <3>3. MovesOff(r, Replied(request[r], "COMPLETED", request[r].payment))
            BY <1>1, <1>4, <2>1, <3>1, ReplyMovesOff DEF SaveSuccess
        <3> QED BY <1>1, <1>2, <3>2, <3>3, MovingOffPreserves
    <2>2. CASE rows[k] = NoRow
        <3>1. MovesOff(r, [request[r] EXCEPT !.step = "readFailure"])
            BY <1>1, <1>4, <2>2 DEF SaveSuccess, MovesOff, Request, Steps
        <3>2. Settles(k)
            BY <1>4, <2>2 DEF SaveSuccess, Settles
        <3> QED BY <1>1, <1>2, <3>1, <3>2, MovingOffPreserves
    <2> QED BY <2>1, <2>2
<1>5. CASE SaveFailure(r) \/ SaveTestFailure(r)
    <2>1. Settles(k)
        <3>1. request[r].payment \in Payments \cup {NoPayment}
            BY <1>1 DEF Request
        <3> QED BY <1>3, <1>5, <3>1 DEF SaveFailure, SaveTestFailure, Settles
    <2>2. MovesOff(r, NoRequest)
        BY <1>5 DEF SaveFailure, SaveTestFailure, MovesOff
    <2> QED BY <1>1, <1>2, <2>1, <2>2, MovingOffPreserves
<1> QED BY <1>4, <1>5

\* Time and administration.
LEMMA EnvironmentPreserves ==
    ASSUME IInv, NEW k \in Keys, Environment(k)
    PROVE  IInv'
<1>1. /\ rows \in [Keys -> IdRow \cup {NoRow}]
      /\ inserted \in [Keys -> Nat] /\ TypeOK
    BY DEF IInv, TypeOK
<1>2. \A r \in Requests : request'[r] = request[r]
    BY DEF Environment, CreateTestKey, CreateKey, LeaseLapses, KeyExpires, CleanUp,
           ReleaseStuck
<1>3. /\ UNCHANGED <<created, request, faults>>
      /\ unguarded \subseteq unguarded'
    BY DEF Environment, CreateTestKey, CreateKey, LeaseLapses, KeyExpires, CleanUp,
           ReleaseStuck
<1>4. SeenIsOfARow' /\ StealersAreLate'
    BY <1>3 DEF IInv, SeenIsOfARow, StealersAreLate
<1>5. OnceUnderLease' /\ RetriesAgree'
    BY <1>3 DEF IInv, OnceUnderLease, RetriesAgree
<1>6. HolderIsAlone'
    BY <1>3 DEF IInv, HolderIsAlone
<1>7. \A r \in Requests : Claims(r)' <=> Claims(r)
    BY <1>3 DEF Claims
<1>8. CASE \E payload \in Payloads : CreateKey(k, payload)
    <2> PICK payload \in Payloads : CreateKey(k, payload)
        BY <1>8
    <2> DEFINE new == NewRow(k, payload, "none")
    <2>1. /\ new \in IdRow /\ new.id = inserted[k] + 1
        BY <1>1 DEF NewRow, IdRow, Statuses, Locks
    <2>2. /\ rows' = [rows EXCEPT ![k] = new]
          /\ inserted' = [inserted EXCEPT ![k] = inserted[k] + 1]
          /\ unguarded' = unguarded \cup {<<k, inserted[k] + 1>>}
          /\ UNCHANGED expired
        BY DEF CreateKey
    <2> HIDE DEF new
    <2>3. TypeOK'
        BY <1>1, <1>3, <2>1, <2>2 DEF TypeOK
    <2>4. /\ \A c \in created : c.key \in Keys /\ c.row \in Nat
          /\ \A s \in Requests : request[s] # NoRequest =>
                request[s].key \in Keys /\ request[s].row \in Nat
        BY <1>1 DEF TypeOK, Creation, Request
    <2>5. RowsAreCounted'
        BY <1>1, <1>3, <1>7, <2>1, <2>2, <2>4 DEF IInv, RowsAreCounted, IdRow
    <2>6. GuardedIsLocked'
        BY <1>1, <2>1, <2>2 DEF IInv, GuardedIsLocked
    <2>7. /\ \A c \in created : c.key = k => c.row # inserted[k] + 1
          /\ \A s \in Requests :
                request[s] # NoRequest /\ request[s].key = k
                  => request[s].row # inserted[k] + 1
        BY <1>1, <2>4 DEF IInv, RowsAreCounted
    <2>8. ClaimsAgree'
        BY <1>1, <1>3, <1>7, <2>1, <2>2, <2>7 DEF IInv, ClaimsAgree, Claims
    <2> QED BY <1>4, <1>5, <1>6, <2>3, <2>5, <2>6, <2>8 DEF IInv
<1>9. CASE LeaseLapses(k) \/ ReleaseStuck(k) \/ KeyExpires(k) \/ CleanUp(k)
    <2>1. /\ \A j \in Keys : rows'[j] # NoRow =>
                /\ rows[j] # NoRow
                /\ rows'[j].id = rows[j].id
                /\ rows'[j].status = rows[j].status
                /\ rows'[j].fingerprint = rows[j].fingerprint
          /\ rows' \in [Keys -> IdRow \cup {NoRow}]
        BY <1>1, <1>9
        DEF LeaseLapses, ReleaseStuck, KeyExpires, CleanUp, IdRow, Locks
    <2>2. TypeOK'
        BY <1>1, <1>3, <1>9, <2>1
        DEF TypeOK, LeaseLapses, ReleaseStuck, KeyExpires, CleanUp, IdRow
    <2>3. RowsAreCounted'
        BY <1>3, <1>7, <1>9, <2>1
        DEF IInv, RowsAreCounted, LeaseLapses, ReleaseStuck, KeyExpires,
            CleanUp
    <2>4. GuardedIsLocked'
        BY <1>1, <1>9
        DEF IInv, GuardedIsLocked, LeaseLapses, ReleaseStuck, KeyExpires,
            CleanUp, IdRow
    <2>5. ClaimsAgree'
        BY <1>3, <1>7, <2>1 DEF IInv, ClaimsAgree
    <2> QED BY <1>4, <1>5, <1>6, <2>2, <2>3, <2>4, <2>5 DEF IInv
<1> QED BY <1>8, <1>9 DEF Environment, CreateTestKey
-----------------------------------------------------------------------------
(***************************************************************************)
(* The theorems                                                            *)
(***************************************************************************)

\* The invariant is inductive.
THEOREM Invariance == Spec => []IInv
<1>1. Init => IInv
    BY DEF Init, IInv, TypeOK, RowsAreCounted, SeenIsOfARow, GuardedIsLocked,
           StealersAreLate, HolderIsAlone, ClaimsAgree, Claims,
           OnceUnderLease, RetriesAgree
<1>2. IInv /\ [Next]_vars => IInv'
    <2> SUFFICES ASSUME IInv, [Next]_vars PROVE IInv'
        OBVIOUS
    <2>1. CASE UNCHANGED vars
        BY <2>1
        DEF vars, IInv, TypeOK, RowsAreCounted, SeenIsOfARow, GuardedIsLocked,
            StealersAreLate, HolderIsAlone, ClaimsAgree, Claims,
            OnceUnderLease, RetriesAgree
    <2>2. ASSUME NEW r \in Requests, Proceed(r) PROVE IInv'
        BY <2>2, ClaimPreserves, InsertPreserves, StealPreserves,
           ExecutePreserves, SavePreserves, QuietActions DEF Proceed
    <2>3. ASSUME NEW r \in Requests,
                 \/ \E k \in Keys, payload \in Payloads : Begin(r, k, payload)
                 \/ \E k \in Keys : RecordTestFailure(r, k)
                 \/ Crash(r) \/ ClaimOnly(r) \/ RecordSuccessFails(r)
          PROVE  IInv'
        BY <2>3, QuietActions
    <2> QED BY <2>1, <2>2, <2>3, EnvironmentPreserves DEF Next
<1> QED BY <1>1, <1>2, PTL DEF Spec

\* The variables keep their types.
THEOREM TypeCorrectness == Spec => []TypeOK
<1>1. IInv => TypeOK
    BY DEF IInv
<1> QED BY <1>1, Invariance, PTL

\* One payment at most per row whose lease never ran out: the exactly-once of
\* execute_payment_creation, under the condition it depends on.
THEOREM OnceWhileLeased == Spec => []OnceUnderLease
<1>1. IInv => OnceUnderLease
    BY DEF IInv
<1> QED BY <1>1, Invariance, PTL

\* Requests that create payments under one row have the same body, lapsed
\* leases included.
THEOREM RetriesHaveOneBody == Spec => []RetriesAgree
<1>1. IInv => RetriesAgree
    BY DEF IInv
<1> QED BY <1>1, Invariance, PTL
=============================================================================
