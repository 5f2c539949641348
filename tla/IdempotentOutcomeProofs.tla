---------------------- MODULE IdempotentOutcomeProofs -----------------------
(***************************************************************************)
(* Proofs about what the rows of IdempotentCreation say once they have an   *)
(* outcome: it stays, it is locked by nobody, and a success names a payment *)
(* that was created under the key.                                         *)
(*                                                                         *)
(* The argument for the last: a key's row is always the one inserted last.  *)
(* So a request that records under the row it claimed has read that very    *)
(* row, while it was PENDING, and the fingerprint it writes back is the one *)
(* its body was compared with.  If the row was replaced in between, the     *)
(* payment is one of an earlier row of the key.                            *)
(*                                                                         *)
(* So whoever is answered from a success, stored or just recorded, is told  *)
(* a payment of the key; and what is written, and what is created, is what  *)
(* IdempotencyKey allows of an entry: the table implements it.              *)
(***************************************************************************)
EXTENDS IdempotentCreationProofs

\* A key's row is the last one inserted for it.
RowsAreLatest == \A k \in Keys : rows[k] # NoRow => rows[k].id = inserted[k]

Recording(r) ==
    request[r] # NoRequest /\ request[r].step \in {"readSuccess", "saveSuccess"}

\* Who records a success has created the payment.
RecordersCreated ==
    \A r \in Requests : Recording(r) =>
        \E c \in created :
            /\ c.id = request[r].payment /\ c.key = request[r].key
            /\ c.row = request[r].row /\ c.payload = request[r].payload

\* Who is about to write a success into the row it claimed has read there the
\* fingerprint of its own body.
SeenIsOwn ==
    \A r \in Requests :
        Recording(r) /\ request[r].step = "saveSuccess"
            /\ request[r].row = inserted[request[r].key]
        => request[r].seen.fingerprint = request[r].payload

OInv ==
    /\ IInv
    /\ RowsAreLatest
    /\ RecordersCreated
    /\ SeenIsOwn
    /\ CompletedNamesPayment
-----------------------------------------------------------------------------
(***************************************************************************)
(* The parts of a step                                                     *)
(***************************************************************************)

\* Nobody begins to record.
NobodyRecords ==
    \A r \in Requests : Recording(r)' => Recording(r) /\ request'[r] = request[r]

\* The row of k is gone, or what it says is as before, or it is new.
SaysTheSame(k) ==
    \/ rows'[k] = NoRow
    \/ /\ rows[k] # NoRow
       /\ rows'[k].id = rows[k].id /\ inserted'[k] = inserted[k]
       /\ rows'[k].status = rows[k].status
       /\ rows'[k].answer = rows[k].answer
       /\ rows'[k].fingerprint = rows[k].fingerprint
    \/ /\ rows'[k].status = "PENDING" /\ rows'[k].answer = NoPayment
       /\ rows'[k].id = inserted'[k]

\* At most one more row was inserted.
InsertedGrows ==
    \A k \in Keys : inserted'[k] \in {inserted[k], inserted[k] + 1}

\* A reply records nothing.
LEMMA RepliesDoNotRecord ==
    ASSUME NEW q \in Request, NEW status, NEW answer
    PROVE  Replied(q, status, answer) # NoRequest =>
              Replied(q, status, answer).step \in {"answered", "answeredFailed"}
<1> DEFINE step == IF status = "COMPLETED" THEN "answered" ELSE "answeredFailed"
<1>1. step \in {"answered", "answeredFailed"}
    OBVIOUS
<1>2. Replied(q, status, answer) # NoRequest =>
         Replied(q, status, answer) =
            [q EXCEPT !.step = step, !.payment = answer, !.row = 0,
                      !.seen = NothingSeen(q.payload)]
    BY DEF Replied
<1> HIDE DEF step
<1> QED BY <1>1, <1>2 DEF Request

\* Then recorders stay what they are.
LEMMA RecordersStay ==
    ASSUME OInv, NobodyRecords, InsertedGrows, created \subseteq created'
    PROVE  RecordersCreated' /\ SeenIsOwn'
<1>1. RecordersCreated'
    BY DEF OInv, RecordersCreated, NobodyRecords, Recording
<1>2. ASSUME NEW r \in Requests, Recording(r)', request'[r].step = "saveSuccess",
             request'[r].row = inserted'[request'[r].key]
      PROVE  request'[r].seen.fingerprint = request'[r].payload
    <2>1. request'[r] = request[r] /\ Recording(r)
        BY <1>2 DEF NobodyRecords
    <2>2. /\ request[r] \in Request /\ request[r].key \in Keys
          /\ request[r].row \in Nat
          /\ inserted[request[r].key] \in Nat
          /\ request[r].row <= inserted[request[r].key]
        BY <2>1 DEF Recording, OInv, IInv, TypeOK, RowsAreCounted, Request
    <2>3. request[r].row = inserted[request[r].key]
        BY <1>2, <2>1, <2>2 DEF InsertedGrows
    <2> QED BY <1>2, <2>1, <2>3 DEF OInv, SeenIsOwn
<1>3. SeenIsOwn'
    BY <1>2 DEF SeenIsOwn
<1> QED BY <1>1, <1>3

\* And if every row says the same, so do the rows.
LEMMA RowsStay ==
    ASSUME OInv, created' = created, \A k \in Keys : SaysTheSame(k)
    PROVE  RowsAreLatest' /\ CompletedNamesPayment'
<1>1. RowsAreLatest'
    BY DEF OInv, RowsAreLatest, SaysTheSame
<1>2. CompletedNamesPayment'
    BY DEF OInv, CompletedNamesPayment, SaysTheSame
<1> QED BY <1>1, <1>2
-----------------------------------------------------------------------------
(***************************************************************************)
(* The steps                                                               *)
(***************************************************************************)

\* Requests that claim, give up, answer or fail, and what the environment does.
LEMMA OtherStepsPreserve ==
    ASSUME OInv, IInv',
           \/ \E r \in Requests :
                \/ \E k \in Keys, payload \in Payloads : Begin(r, k, payload)
                \/ \E k \in Keys : RecordTestFailure(r, k)
                \/ Claim(r) \/ Insert(r) \/ Steal(r) \/ ExecuteFails(r)
                \/ ReadFailure(r) \/ Leave(r) \/ Crash(r) \/ ClaimOnly(r)
                \/ RecordSuccessFails(r)
           \/ \E k \in Keys : Environment(k)
    PROVE  OInv'
<1>1. /\ rows \in [Keys -> IdRow \cup {NoRow}] /\ inserted \in [Keys -> Nat]
      /\ request \in [Requests -> Request \cup {NoRequest}]
    BY DEF OInv, IInv, TypeOK
<1>2. CASE \E r \in Requests :
              \/ \E k \in Keys, payload \in Payloads : Begin(r, k, payload)
              \/ \E k \in Keys : RecordTestFailure(r, k)
              \/ Claim(r) \/ ExecuteFails(r) \/ ReadFailure(r)
              \/ Leave(r) \/ Crash(r) \/ ClaimOnly(r) \/ RecordSuccessFails(r)
    <2>1. PICK r \in Requests :
              \/ \E k \in Keys, payload \in Payloads : Begin(r, k, payload)
              \/ \E k \in Keys : RecordTestFailure(r, k)
              \/ Claim(r) \/ ExecuteFails(r) \/ ReadFailure(r)
              \/ Leave(r) \/ Crash(r) \/ ClaimOnly(r) \/ RecordSuccessFails(r)
        BY <1>2
    <2>2. UNCHANGED Tables
        BY <2>1 DEF Begin, RecordTestFailure, Claim, ExecuteFails, ReadFailure,
                    Leave, Crash, ClaimOnly, RecordSuccessFails
    <2>3. /\ \A s \in Requests \ {r} : request'[s] = request[s]
          /\ request'[r] # NoRequest =>
                request'[r].step \notin {"readSuccess", "saveSuccess"}
        <3>1. CASE \E k \in Keys, payload \in Payloads : Begin(r, k, payload)
            <4>1. PICK k \in Keys, payload \in Payloads : Begin(r, k, payload)
                BY <3>1
            <4> DEFINE q == [step |-> "claim", key |-> k, payload |-> payload,
                             row |-> 0, seen |-> NothingSeen(payload),
                             payment |-> NoPayment]
            <4>2. q \in Request /\ q.step = "claim"
                BY DEF Request, Steps, NothingSeen
            <4>3. \E v \in {Replied(q, rows[k].status, rows[k].answer), q} : Goto(r, v)
                BY <4>1 DEF Begin
            <4> HIDE DEF q
            <4> QED BY <1>1, <4>2, <4>3, RepliesDoNotRecord DEF Goto
        <3>2. CASE \E k \in Keys : RecordTestFailure(r, k)
            BY <1>1, <3>2 DEF RecordTestFailure, Goto
        <3>3. CASE Claim(r)
            <4> DEFINE row == rows[request[r].key]
                       reply == Replied(request[r], row.status, row.answer)
            <4>1. request[r] \in Request /\ request[r] # NoRequest
                BY <1>1, <3>3 DEF Claim
            <4>2. \E v \in {[request[r] EXCEPT !.step = "insert"],
                           reply, NoRequest,
                           [request[r] EXCEPT !.step = "steal",
                                              !.row = rows[request[r].key].id]} :
                      Goto(r, v)
                BY <3>3 DEF Claim
            <4>3. /\ [request[r] EXCEPT !.step = "insert"].step = "insert"
                  /\ [request[r] EXCEPT !.step = "steal",
                          !.row = rows[request[r].key].id].step = "steal"
                BY <4>1 DEF Request
            <4>4. reply # NoRequest => reply.step \in {"answered", "answeredFailed"}
                BY <4>1, RepliesDoNotRecord
            <4> HIDE DEF reply, row
            <4>5. PICK v : /\ Goto(r, v)
                           /\ v # NoRequest => v.step \in
                                 {"insert", "answered", "answeredFailed", "steal"}
                BY <4>2, <4>3, <4>4 DEF row
            <4> QED BY <1>1, <4>5 DEF Goto
        <3>4. CASE ExecuteFails(r) \/ ReadFailure(r) \/ RecordSuccessFails(r)
            <4>1. request[r] \in Request
                BY <1>1, <3>4 DEF ExecuteFails, ReadFailure, RecordSuccessFails
            <4>2. \E v \in {[request[r] EXCEPT !.step = "readFailure"], NoRequest,
                           [request[r] EXCEPT !.step = "saveFailure",
                                              !.seen = SeenOf(request[r].key)]} :
                      Goto(r, v)
                BY <3>4 DEF ExecuteFails, ReadFailure, RecordSuccessFails
            <4>3. /\ [request[r] EXCEPT !.step = "readFailure"].step = "readFailure"
                  /\ [request[r] EXCEPT !.step = "saveFailure",
                          !.seen = SeenOf(request[r].key)].step = "saveFailure"
                BY <4>1 DEF Request
            <4>4. PICK v : /\ Goto(r, v)
                           /\ v # NoRequest =>
                                 v.step \in {"readFailure", "saveFailure"}
                BY <4>2, <4>3
            <4> QED BY <1>1, <4>4 DEF Goto
        <3>5. CASE Leave(r) \/ Crash(r) \/ ClaimOnly(r)
            BY <1>1, <3>5 DEF Leave, Crash, ClaimOnly, Goto
        <3> QED BY <2>1, <3>1, <3>2, <3>3, <3>4, <3>5
    <2>4. NobodyRecords
        BY <2>3 DEF NobodyRecords, Recording
    <2>5. InsertedGrows /\ \A k \in Keys : SaysTheSame(k)
        BY <2>2 DEF InsertedGrows, SaysTheSame, Tables
    <2>6. created' = created
        BY <2>2 DEF Tables
    <2> QED BY <2>4, <2>5, <2>6, RecordersStay, RowsStay DEF OInv
<1>3. CASE \E r \in Requests : Insert(r) \/ Steal(r)
    <2>1. PICK r \in Requests : Insert(r) \/ Steal(r)
        BY <1>3
    <2>2. request[r] \in Request /\ request[r].key \in Keys
        BY <1>1, <2>1 DEF Insert, Steal, Request
    <2>3. NobodyRecords
        <3>1. \E v \in {[request[r] EXCEPT !.step = "execute",
                                          !.row = inserted[request[r].key] + 1],
                       [request[r] EXCEPT !.step = "execute"], NoRequest} :
                  Goto(r, v)
            BY <2>1 DEF Insert, Steal
        <3>2. /\ [request[r] EXCEPT !.step = "execute",
                     !.row = inserted[request[r].key] + 1].step = "execute"
              /\ [request[r] EXCEPT !.step = "execute"].step = "execute"
            BY <2>2 DEF Request
        <3>3. /\ \A s \in Requests \ {r} : request'[s] = request[s]
              /\ request'[r] = NoRequest \/ request'[r].step = "execute"
            BY <1>1, <3>1, <3>2 DEF Goto
        <3> QED BY <3>3 DEF NobodyRecords, Recording
    <2>4. InsertedGrows /\ \A k \in Keys : SaysTheSame(k)
        <3>1. CASE Insert(r)
            <4>1. CASE rows[request[r].key] = NoRow
                <5> DEFINE k == request[r].key
                <5>1. /\ rows' = [rows EXCEPT ![k] = NewRow(k, request[r].payload, "live")]
                      /\ inserted' = [inserted EXCEPT ![k] = @ + 1]
                    BY <3>1, <4>1 DEF Insert
                <5>2. SaysTheSame(k)
                    BY <1>1, <2>2, <5>1 DEF SaysTheSame, NewRow
                <5>3. \A j \in Keys \ {k} : SaysTheSame(j)
                    BY <1>1, <2>2, <5>1 DEF SaysTheSame
                <5>4. InsertedGrows
                    BY <1>1, <2>2, <5>1 DEF InsertedGrows
                <5> QED BY <5>2, <5>3, <5>4
            <4>2. CASE rows[request[r].key] # NoRow
                BY <3>1, <4>2 DEF Insert, InsertedGrows, SaysTheSame
            <4> QED BY <4>1, <4>2
        <3>2. CASE Steal(r)
            BY <1>1, <2>2, <3>2
            DEF Steal, InsertedGrows, SaysTheSame, Stolen, IdRow
        <3> QED BY <2>1, <3>1, <3>2
    <2>5. created' = created
        BY <2>1 DEF Insert, Steal
    <2> QED BY <2>3, <2>4, <2>5, RecordersStay, RowsStay DEF OInv
<1>4. CASE \E k \in Keys : Environment(k)
    <2>1. PICK k \in Keys : Environment(k)
        BY <1>4
    <2>2. UNCHANGED <<created, request>>
        BY <2>1 DEF Environment, CreateTestKey, CreateKey, LeaseLapses,
                    KeyExpires, CleanUp, ReleaseStuck
    <2>3. NobodyRecords
        BY <2>2 DEF NobodyRecords, Recording
    <2>4. InsertedGrows /\ \A j \in Keys : SaysTheSame(j)
        <3>1. CASE CreateTestKey(k)
            BY <1>1, <3>1 DEF CreateTestKey, CreateKey, InsertedGrows,
                              SaysTheSame, NewRow
        <3>2. CASE LeaseLapses(k) \/ ReleaseStuck(k)
            BY <1>1, <3>2 DEF LeaseLapses, ReleaseStuck, InsertedGrows,
                              SaysTheSame, IdRow
        <3>3. CASE KeyExpires(k) \/ CleanUp(k)
            BY <1>1, <3>3 DEF KeyExpires, CleanUp, InsertedGrows, SaysTheSame
        <3> QED BY <2>1, <3>1, <3>2, <3>3 DEF Environment
    <2> QED BY <2>2, <2>3, <2>4, RecordersStay, RowsStay DEF OInv
<1> QED BY <1>2, <1>3, <1>4

\* A payment is created, which takes nothing from those that are there.
LEMMA ExecuteKeepsOutcomes ==
    ASSUME OInv, IInv', NEW r \in Requests, NEW p \in Payments, Execute(r, p)
    PROVE  OInv'
<1> DEFINE q == request[r]
           new == [id |-> p, key |-> q.key, row |-> q.row, payload |-> q.payload]
<1>1. /\ q \in Request /\ q.key \in Keys /\ q.step = "execute" /\ q # NoRequest
      /\ request \in [Requests -> Request \cup {NoRequest}]
      /\ created' = created \cup {new}
      /\ \A c \in created : c.id # p
      /\ p # NoPayment
      /\ UNCHANGED <<rows, inserted>>
    BY NothingIsDistinct DEF OInv, IInv, TypeOK, Execute, IdFor, Request
<1>2. RowsAreLatest'
    BY <1>1 DEF OInv, RowsAreLatest
<1>3. CompletedNamesPayment'
    BY <1>1 DEF OInv, CompletedNamesPayment
<1>6. /\ \A s \in Requests \ {r} : request'[s] = request[s]
      /\ Recording(r)' => /\ request'[r].payment = p /\ request'[r].key = q.key
                          /\ request'[r].row = q.row
                          /\ request'[r].payload = q.payload
                          /\ request'[r].step # "saveSuccess"
    BY <1>1 DEF Execute, Goto, Recording, Request
<1>7. RecordersCreated'
    <2> SUFFICES ASSUME NEW s \in Requests, Recording(s)'
                 PROVE  \E c \in created' :
                           /\ c.id = request'[s].payment /\ c.key = request'[s].key
                           /\ c.row = request'[s].row
                           /\ c.payload = request'[s].payload
        BY DEF RecordersCreated
    <2>1. CASE s = r
        <3>1. new \in created' /\ new.id = p /\ new.key = q.key
              /\ new.row = q.row /\ new.payload = q.payload
            BY <1>1
        <3>2. /\ request'[r].payment = p /\ request'[r].key = q.key
              /\ request'[r].row = q.row /\ request'[r].payload = q.payload
            BY <1>6, <2>1
        <3> QED BY <2>1, <3>1, <3>2
    <2>2. CASE s # r
        <3>1. Recording(s)
            BY <1>6, <2>2 DEF Recording
        <3> QED BY <1>1, <1>6, <2>2, <3>1 DEF OInv, RecordersCreated
    <2> QED BY <2>1, <2>2
<1>8. SeenIsOwn'
    <2> SUFFICES ASSUME NEW s \in Requests, Recording(s)',
                        request'[s].step = "saveSuccess",
                        request'[s].row = inserted'[request'[s].key]
                 PROVE  request'[s].seen.fingerprint = request'[s].payload
        BY DEF SeenIsOwn
    <2>1. s # r /\ request'[s] = request[s]
        BY <1>6
    <2>2. Recording(s)
        BY <2>1 DEF Recording
    <2> QED BY <1>1, <2>1, <2>2 DEF OInv, SeenIsOwn
<1> QED BY <1>2, <1>3, <1>7, <1>8 DEF OInv

\* record_success reads the row: if it is the one that was claimed, it is the
\* one the body was compared with.
LEMMA ReadSuccessKeepsOutcomes ==
    ASSUME OInv, IInv', NEW r \in Requests, ReadSuccess(r)
    PROVE  OInv'
<1> DEFINE q == request[r]
           k == q.key
<1>1. /\ q \in Request /\ k \in Keys /\ q # NoRequest /\ q.step = "readSuccess"
      /\ request \in [Requests -> Request \cup {NoRequest}]
      /\ UNCHANGED Tables
    BY DEF OInv, IInv, TypeOK, ReadSuccess, Request
<1>2. RowsAreLatest' /\ CompletedNamesPayment'
    BY <1>1 DEF OInv, RowsAreLatest, CompletedNamesPayment, Tables
<1>3. /\ \A s \in Requests \ {r} : request'[s] = request[s]
      /\ request'[r] = IF Recordable(k)
                       THEN [q EXCEPT !.step = "saveSuccess", !.seen = SeenOf(k)]
                       ELSE [q EXCEPT !.step = "readFailure"]
    BY <1>1 DEF ReadSuccess, Goto
<1>4. /\ request'[r].payment = q.payment /\ request'[r].key = k
      /\ request'[r].row = q.row /\ request'[r].payload = q.payload
    BY <1>1, <1>3 DEF Request
<1>5. Recording(r)
    BY <1>1 DEF Recording
<1>6. RecordersCreated'
    <2>1. \A s \in Requests : Recording(s)' => Recording(s)
        BY <1>3, <1>5 DEF Recording
    <2>2. \A s \in Requests :
              /\ request'[s].payment = request[s].payment
              /\ request'[s].key = request[s].key
              /\ request'[s].row = request[s].row
              /\ request'[s].payload = request[s].payload
        BY <1>3, <1>4
    <2>3. created' = created
        BY <1>1 DEF Tables
    <2> QED BY <2>1, <2>2, <2>3 DEF OInv, RecordersCreated
<1>7. ASSUME Recordable(k), q.row = inserted[k]
      PROVE  rows[k].fingerprint = q.payload
    <2>1. rows[k] # NoRow /\ rows[k].status = "PENDING" /\ rows[k].id = q.row
        BY <1>1, <1>7 DEF Recordable, OInv, RowsAreLatest
    <2>2. PICK c \in created : c.key = k /\ c.row = q.row /\ c.payload = q.payload
        BY <1>5 DEF OInv, RecordersCreated
    <2> QED BY <1>1, <2>1, <2>2 DEF OInv, IInv, ClaimsAgree
<1>8. SeenIsOwn'
    <2> SUFFICES ASSUME NEW s \in Requests, Recording(s)',
                        request'[s].step = "saveSuccess",
                        request'[s].row = inserted'[request'[s].key]
                 PROVE  request'[s].seen.fingerprint = request'[s].payload
        BY DEF SeenIsOwn
    <2>1. CASE s = r
        <3>1. Recordable(k)
            BY <1>1, <1>3, <2>1 DEF Request
        <3>2. request'[r].seen = SeenOf(k) /\ q.row = inserted[k]
            BY <1>1, <1>3, <1>4, <2>1, <3>1 DEF Request, Tables
        <3> QED BY <1>4, <1>7, <2>1, <3>1, <3>2 DEF SeenOf
    <2>2. CASE s # r
        BY <1>1, <1>3, <2>2 DEF OInv, SeenIsOwn, Recording, Tables
    <2> QED BY <2>1, <2>2
<1> QED BY <1>2, <1>6, <1>8 DEF OInv

Saving(r) == SaveSuccess(r) \/ SaveFailure(r) \/ SaveTestFailure(r)

\* An outcome is written.
LEMMA SaveKeepsOutcomes ==
    ASSUME OInv, IInv', NEW r \in Requests, Saving(r)
    PROVE  OInv'
<1> DEFINE q == request[r]
           k == q.key
<1>1. /\ q \in Request /\ k \in Keys /\ q # NoRequest
      /\ q.step \in {"saveSuccess", "saveFailure", "saveTest"}
      /\ rows \in [Keys -> IdRow \cup {NoRow}]
      /\ request \in [Requests -> Request \cup {NoRequest}]
      /\ UNCHANGED <<inserted, created>>
    BY DEF OInv, IInv, TypeOK, Saving, SaveSuccess, SaveFailure, SaveTestFailure,
           Request
<1>2. RecordersCreated' /\ SeenIsOwn'
    <2>1. NobodyRecords
        <3> DEFINE reply == Replied(q, "COMPLETED", q.payment)
        <3>1. \E v \in {reply, NoRequest, [q EXCEPT !.step = "readFailure"]} :
                  Goto(r, v)
            BY DEF Saving, SaveSuccess, SaveFailure, SaveTestFailure
        <3>2. [q EXCEPT !.step = "readFailure"].step = "readFailure"
            BY <1>1 DEF Request
        <3>3. reply # NoRequest => reply.step \in {"answered", "answeredFailed"}
            BY <1>1, RepliesDoNotRecord
        <3> HIDE DEF reply
        <3>4. PICK v : /\ Goto(r, v)
                       /\ v # NoRequest => v.step \in
                             {"answered", "answeredFailed", "readFailure"}
            BY <3>1, <3>2, <3>3
        <3>5. /\ \A s \in Requests \ {r} : request'[s] = request[s]
              /\ request'[r] # NoRequest => request'[r].step \in
                    {"answered", "answeredFailed", "readFailure"}
            BY <1>1, <3>4 DEF Goto
        <3> QED BY <3>5 DEF NobodyRecords, Recording
    <2>2. InsertedGrows
        BY <1>1 DEF InsertedGrows
    <2> QED BY <1>1, <2>1, <2>2, RecordersStay
<1>3. CASE rows' = rows
    <2>1. \A j \in Keys : SaysTheSame(j)
        BY <1>1, <1>3 DEF SaysTheSame
    <2> QED BY <1>1, <1>2, <2>1, RowsStay DEF OInv
<1>4. CASE (SaveFailure(r) \/ SaveTestFailure(r)) /\ rows[k] # NoRow
    <2>1. /\ \E answer \in {NoPayment, q.payment} :
                rows' = [rows EXCEPT ![k] =
                           Outcome(rows[k], q.seen, "FAILED", answer)]
          /\ rows[k] \in IdRow
        BY <1>1, <1>4 DEF SaveFailure, SaveTestFailure
    <2>2. /\ rows'[k].status = "FAILED" /\ rows'[k].id = rows[k].id
          /\ \A j \in Keys \ {k} : rows'[j] = rows[j]
        BY <1>1, <2>1 DEF Outcome, IdRow
    <2>3. RowsAreLatest'
        BY <1>1, <1>4, <2>2 DEF OInv, RowsAreLatest
    <2>4. CompletedNamesPayment'
        BY <1>1, <2>2 DEF OInv, CompletedNamesPayment
    <2> QED BY <1>2, <2>3, <2>4 DEF OInv
<1>5. CASE SaveSuccess(r) /\ rows[k] # NoRow
    <2>1. /\ rows' = [rows EXCEPT ![k] =
                        Outcome(rows[k], q.seen, "COMPLETED", q.payment)]
          /\ rows[k] \in IdRow /\ q.step = "saveSuccess"
        BY <1>1, <1>5 DEF SaveSuccess
    <2>2. /\ rows'[k].status = "COMPLETED" /\ rows'[k].answer = q.payment
          /\ rows'[k].id = rows[k].id
          /\ rows'[k].fingerprint = q.seen.fingerprint
          /\ \A j \in Keys \ {k} : rows'[j] = rows[j]
        BY <1>1, <2>1 DEF Outcome, IdRow
    <2>3. RowsAreLatest'
        BY <1>1, <1>5, <2>2 DEF OInv, RowsAreLatest
    <2>4. Recording(r)
        BY <1>1, <2>1 DEF Recording
    <2>5. PICK d \in created : /\ d.id = q.payment /\ d.key = k
                               /\ d.row = q.row /\ d.payload = q.payload
        BY <2>4 DEF OInv, RecordersCreated
    <2>6. d.row = rows[k].id => d.payload = q.seen.fingerprint
        <3>1. rows[k].id = inserted[k]
            BY <1>1, <1>5 DEF OInv, RowsAreLatest
        <3> QED BY <2>1, <2>4, <2>5, <3>1 DEF OInv, SeenIsOwn
    <2>7. CompletedNamesPayment'
        BY <1>1, <2>2, <2>5, <2>6 DEF OInv, CompletedNamesPayment
    <2> QED BY <1>2, <2>3, <2>7 DEF OInv
<1>6. rows' = rows \/ rows[k] # NoRow
    BY DEF Saving, SaveSuccess, SaveFailure, SaveTestFailure
<1> QED BY <1>3, <1>4, <1>5, <1>6 DEF Saving
-----------------------------------------------------------------------------
(***************************************************************************)
(* The theorems                                                            *)
(***************************************************************************)

\* What is recorded and who records it, in every reachable state.
THEOREM OutcomeInvariance == Spec => []OInv
<1>1. Init => OInv
    <2> SUFFICES ASSUME Init PROVE OInv
        OBVIOUS
    <2>1. IInv
        BY DEF Init, IInv, TypeOK, RowsAreCounted, SeenIsOfARow, GuardedIsLocked,
               StealersAreLate, HolderIsAlone, ClaimsAgree, Claims,
               OnceUnderLease, RetriesAgree
    <2> QED BY <2>1 DEF Init, OInv, RowsAreLatest, RecordersCreated, SeenIsOwn,
                        Recording, CompletedNamesPayment
<1>2. OInv /\ IInv' /\ [Next]_vars => OInv'
    <2> SUFFICES ASSUME OInv, IInv', [Next]_vars PROVE OInv'
        OBVIOUS
    <2>1. CASE UNCHANGED vars
        BY <2>1 DEF vars, OInv, RowsAreLatest, RecordersCreated, SeenIsOwn,
                    Recording, CompletedNamesPayment
    <2>2. CASE Next
        BY <2>2, OtherStepsPreserve, ExecuteKeepsOutcomes,
           ReadSuccessKeepsOutcomes, SaveKeepsOutcomes DEF Next, Proceed, Saving
    <2> QED BY <2>1, <2>2
<1> QED BY <1>1, <1>2, Invariance, PTL DEF Spec

\* A COMPLETED key names a payment of that key, and one that was created under
\* this row was created from the row's body, for any number of requests, lapsed
\* leases, replaced rows and crashes.
THEOREM AnswersAreOwn == Spec => []CompletedNamesPayment
<1>1. OInv => CompletedNamesPayment
    BY DEF OInv
<1> QED BY <1>1, OutcomeInvariance, PTL

\* How the table changes in a step.
LEMMA RowChanges ==
    ASSUME TypeOK, [Next]_vars, NEW k \in Keys, rows[k] # NoRow,
           rows'[k] # NoRow
    PROVE  /\ Terminal(rows[k]) => Terminal(rows'[k])
           /\ \/ rows'[k] = rows[k]
              \/ rows'[k].lock = "none"
              \/ rows'[k].status = "PENDING"
              \/ rows[k].lock = "live" /\ rows'[k].status = rows[k].status
<1>1. rows \in [Keys -> IdRow \cup {NoRow}]
    BY DEF TypeOK
<1>2. CASE rows' = rows
    BY <1>2
<1>3. ASSUME NEW r \in Requests, Insert(r), rows' # rows
      PROVE  rows'[k] = rows[k]
    BY <1>1, <1>3 DEF Insert
<1>4. ASSUME NEW r \in Requests, Steal(r), rows' # rows
      PROVE  /\ rows'[k].status = rows[k].status
             /\ rows'[k] = rows[k] \/ ConstraintHolds(rows'[k])
    BY <1>1, <1>4 DEF Steal, Stolen, IdRow
<1>5. ASSUME NEW r \in Requests, Saving(r), rows' # rows
      PROVE  rows'[k] = rows[k] \/ (Terminal(rows'[k]) /\ rows'[k].lock = "none")
    <2>1. \E status \in {"COMPLETED", "FAILED"},
             answer \in {NoPayment, request[r].payment} :
              rows' = [rows EXCEPT ![request[r].key] =
                         Outcome(rows[request[r].key], request[r].seen, status, answer)]
        BY <1>5 DEF Saving, SaveSuccess, SaveFailure, SaveTestFailure
    <2>2. CASE request[r].key # k
        BY <1>1, <2>1, <2>2
    <2>3. CASE request[r].key = k
        <3>1. /\ \E status \in {"COMPLETED", "FAILED"},
                    answer \in {NoPayment, request[r].payment} :
                     rows'[k] = Outcome(rows[k], request[r].seen, status, answer)
              /\ rows[k] \in IdRow
            BY <1>1, <2>1, <2>3
        <3> QED BY <3>1 DEF Outcome, Terminal, IdRow
    <2> QED BY <2>2, <2>3
<1>6. ASSUME NEW j \in Keys, Environment(j), rows' # rows
      PROVE  /\ rows'[k].status = rows[k].status
             /\ rows'[k] = rows[k] \/ rows'[k].lock = "none" \/ rows[k].lock = "live"
    BY <1>1, <1>6 DEF Environment, CreateTestKey, CreateKey, LeaseLapses,
                      KeyExpires, CleanUp, ReleaseStuck, NewRow, IdRow
<1>7. CASE rows' # rows
    <2>1. \/ \E r \in Requests : Insert(r) \/ Steal(r) \/ Saving(r)
          \/ \E j \in Keys : Environment(j)
        BY <1>7 DEF vars, Tables, Next, Proceed, Begin, RecordTestFailure, Claim,
                    Execute, ExecuteFails, ReadSuccess, ReadFailure, Leave, Crash,
                    ClaimOnly, RecordSuccessFails, Saving
    <2> QED BY <1>3, <1>4, <1>5, <1>6, <1>7, <2>1 DEF Terminal, ConstraintHolds
<1> QED BY <1>2, <1>7

\* A row that was not there is PENDING.
LEMMA NewRowsArePending ==
    ASSUME TypeOK, [Next]_vars, NEW k \in Keys, rows[k] = NoRow,
           rows'[k] # NoRow
    PROVE  rows'[k].status = "PENDING"
<1>1. rows \in [Keys -> IdRow \cup {NoRow}]
    BY DEF TypeOK
<1>2. \/ \E r \in Requests : Insert(r) \/ Steal(r) \/ Saving(r)
      \/ \E j \in Keys : Environment(j)
    BY DEF vars, Tables, Next, Proceed, Begin, RecordTestFailure, Claim,
           Execute, ExecuteFails, ReadSuccess, ReadFailure, Leave, Crash,
           ClaimOnly, RecordSuccessFails, Saving
<1>3. ASSUME NEW r \in Requests, Insert(r) PROVE rows'[k].status = "PENDING"
    BY <1>1, <1>3 DEF Insert, NewRow
<1>4. ASSUME NEW r \in Requests, Steal(r) \/ Saving(r)
      PROVE  FALSE
    BY <1>1, <1>4 DEF Steal, Saving, SaveSuccess, SaveFailure, SaveTestFailure
<1>5. ASSUME NEW j \in Keys, Environment(j) PROVE rows'[k].status = "PENDING"
    BY <1>1, <1>5 DEF Environment, CreateTestKey, CreateKey, LeaseLapses,
                      KeyExpires, CleanUp, ReleaseStuck, NewRow
<1> QED BY <1>2, <1>3, <1>4, <1>5

\* A key with an outcome is locked by nobody.
THEOREM OutcomesAreUnlocked == Spec => []TerminalUnlocked
<1>1. Init => TerminalUnlocked
    BY DEF Init, TerminalUnlocked
<1>2. TypeOK /\ TypeOK' /\ TerminalUnlocked /\ [Next]_vars => TerminalUnlocked'
    <2> SUFFICES ASSUME TypeOK, TypeOK', TerminalUnlocked, [Next]_vars,
                        NEW k \in Keys, rows'[k] # NoRow, Terminal(rows'[k])
                 PROVE  rows'[k].lock = "none"
        BY DEF TerminalUnlocked
    <2>1. CASE rows[k] = NoRow
        BY <2>1, NewRowsArePending DEF Terminal
    <2>2. CASE rows[k] # NoRow
        <3>1. \/ rows'[k] = rows[k] \/ rows'[k].lock = "none"
              \/ rows'[k].status = "PENDING"
              \/ rows[k].lock = "live" /\ rows'[k].status = rows[k].status
            BY <2>2, RowChanges
        <3> QED BY <2>2, <3>1 DEF Terminal, TerminalUnlocked
    <2> QED BY <2>1, <2>2
<1> QED BY <1>1, <1>2, TypeCorrectness, PTL DEF Spec

\* An outcome stays, as long as its row does.
THEOREM OutcomesAreFinal == Spec => OutcomesStay
<1>1. TypeOK /\ [Next]_vars =>
        [\A k \in Keys :
            rows[k] # NoRow /\ Terminal(rows[k]) /\ rows'[k] # NoRow
                /\ rows'[k].id = rows[k].id
            => Terminal(rows'[k])]_vars
    BY RowChanges
<1> QED BY <1>1, TypeCorrectness, PTL DEF Spec, OutcomesStay
-----------------------------------------------------------------------------
(***************************************************************************)
(* What the clients are told                                               *)
(***************************************************************************)

\* What a client is answered from a success is the payment of a command that has
\* committed, sent under the client's own key, whether it is replayed from the
\* fast path, from the claim or told by the request that made it.  (What is
\* replayed from a FAILED row is whatever record_test_failure was given.)
AnsweredFromOwnKey ==
    \A r \in Requests : Answered(r) =>
        \E c \in created : c.id = request[r].payment /\ c.key = request[r].key

\* Payments are created under rows, which are numbered from one.
CreatedUnderRows == \A c \in created : c.row # 0

AInv == AnsweredFromOwnKey /\ CreatedUnderRows

\* A reply names what it is given, under its own key.
LEMMA RepliesName ==
    ASSUME NEW q \in Request, NEW status, NEW answer,
           Replied(q, status, answer) # NoRequest
    PROVE  /\ Replied(q, status, answer).payment = answer
           /\ Replied(q, status, answer).key = q.key
           /\ Replied(q, status, answer).step = "answered" => status = "COMPLETED"
<1> DEFINE step == IF status = "COMPLETED" THEN "answered" ELSE "answeredFailed"
           a == [q EXCEPT !.step = step, !.payment = answer,
                          !.row = 0, !.seen = NothingSeen(q.payload)]
<1>1. Replied(q, status, answer) = a
    BY DEF Replied
<1>2. step = "answered" => status = "COMPLETED"
    OBVIOUS
<1> HIDE DEF step
<1>3. a.payment = answer /\ a.key = q.key /\ a.step = step
    BY DEF Request
<1> QED BY <1>1, <1>2, <1>3

\* The answer of a success is a payment of its key.
LEMMA RowsAnswer ==
    ASSUME OInv, NEW k \in Keys, rows[k] # NoRow, rows[k].status = "COMPLETED"
    PROVE  \E c \in created : c.id = rows[k].answer /\ c.key = k
BY DEF OInv, CompletedNamesPayment

\* A request that moves is told nothing, or the truth.
Truthful(q) ==
    q # NoRequest /\ q.step = "answered" =>
        \E c \in created : c.id = q.payment /\ c.key = q.key

LEMMA MovingIsTruthful ==
    ASSUME TypeOK, AInv, NEW r \in Requests, NEW q, Goto(r, q), Truthful(q),
           created' = created
    PROVE  AInv'
<1>1. CreatedUnderRows'
    BY DEF AInv, CreatedUnderRows
<1>2. ASSUME NEW s \in Requests, Answered(s)'
      PROVE  \E c \in created : c.id = request'[s].payment /\ c.key = request'[s].key
    <2>1. CASE s = r
        BY <1>2, <2>1 DEF TypeOK, Goto, Truthful, Answered
    <2>2. CASE s # r
        BY <1>2, <2>2 DEF TypeOK, Goto, AInv, AnsweredFromOwnKey, Answered
    <2> QED BY <2>1, <2>2
<1> QED BY <1>1, <1>2 DEF AInv, AnsweredFromOwnKey

LEMMA FastPathIsTruthful ==
    ASSUME OInv, AInv, NEW r \in Requests, NEW k \in Keys, NEW payload \in Payloads,
           Begin(r, k, payload)
    PROVE  AInv'
<1> DEFINE q == [step |-> "claim", key |-> k, payload |-> payload, row |-> 0,
                 seen |-> NothingSeen(payload), payment |-> NoPayment]
<1>1. q \in Request /\ q.step = "claim" /\ q.key = k
    BY DEF Request, Steps, NothingSeen
<1> DEFINE reply == Replied(q, rows[k].status, rows[k].answer)
<1>2. /\ Goto(r, IF Replayable(k) THEN reply ELSE q)
      /\ created' = created /\ TypeOK
    BY DEF Begin, Tables, OInv, IInv
<1> HIDE DEF q
<1>3. CASE Replayable(k)
    <2>1. Truthful(reply)
        BY <1>1, <1>3, RepliesName, RowsAnswer DEF Truthful, Replayable
    <2> QED BY <1>2, <1>3, <2>1, MovingIsTruthful
<1>4. CASE ~Replayable(k)
    <2>1. Truthful(q)
        BY <1>1 DEF Truthful
    <2> QED BY <1>2, <1>4, <2>1, MovingIsTruthful
<1> QED BY <1>3, <1>4

LEMMA ClaimIsTruthful ==
    ASSUME OInv, AInv, NEW r \in Requests, Claim(r)
    PROVE  AInv'
<1> DEFINE q == request[r]
           k == q.key
           reply == Replied(q, rows[k].status, rows[k].answer)
<1>1. q \in Request /\ k \in Keys /\ created' = created /\ TypeOK
    BY DEF Claim, Tables, OInv, IInv, TypeOK, Request
<1>2. /\ Truthful(NoRequest)
      /\ Truthful([q EXCEPT !.step = "insert"])
      /\ Truthful([q EXCEPT !.step = "steal", !.row = rows[k].id])
    BY <1>1 DEF Truthful, Request
<1>3. Replayable(k) => Truthful(reply)
    BY <1>1, RepliesName, RowsAnswer DEF Truthful, Replayable
<1>4. \/ Goto(r, [q EXCEPT !.step = "insert"])
      \/ Goto(r, NoRequest)
      \/ Goto(r, [q EXCEPT !.step = "steal", !.row = rows[k].id])
      \/ Replayable(k) /\ Goto(r, reply)
    BY DEF Claim
<1> HIDE DEF q, k, reply
<1> QED BY <1>1, <1>2, <1>3, <1>4, MovingIsTruthful

LEMMA SavingIsTruthful ==
    ASSUME OInv, AInv, NEW r \in Requests, SaveSuccess(r)
    PROVE  AInv'
<1> DEFINE q == request[r]
           reply == Replied(q, "COMPLETED", q.payment)
<1>1. /\ q \in Request /\ q # NoRequest /\ q.step = "saveSuccess"
      /\ created' = created /\ TypeOK
    BY DEF SaveSuccess, OInv, IInv, TypeOK
<1>2. \E c \in created : c.id = q.payment /\ c.key = q.key
    BY <1>1 DEF OInv, RecordersCreated, Recording
<1>3. Truthful(reply)
    BY <1>1, <1>2, RepliesName DEF Truthful
<1>4. Truthful([q EXCEPT !.step = "readFailure"])
    BY <1>1 DEF Truthful, Request
<1>5. Goto(r, reply) \/ Goto(r, [q EXCEPT !.step = "readFailure"])
    BY DEF SaveSuccess
<1> HIDE DEF q, reply
<1> QED BY <1>1, <1>3, <1>4, <1>5, MovingIsTruthful

\* The others tell nobody anything.
LEMMA OthersTellNothing ==
    ASSUME OInv, AInv, NEW r \in Requests,
           \/ \E k \in Keys : RecordTestFailure(r, k)
           \/ Insert(r) \/ Steal(r) \/ ExecuteFails(r) \/ ReadSuccess(r)
           \/ ReadFailure(r) \/ SaveFailure(r) \/ SaveTestFailure(r) \/ Leave(r)
           \/ Crash(r) \/ ClaimOnly(r) \/ RecordSuccessFails(r)
    PROVE  AInv'
<1> DEFINE q == request[r]
           k == q.key
<1>1. created' = created /\ TypeOK
    BY DEF RecordTestFailure, Insert, Steal, ExecuteFails, ReadSuccess, ReadFailure,
           SaveFailure, SaveTestFailure, Leave, Crash, ClaimOnly,
           RecordSuccessFails, Tables, OInv, IInv
<1>2. CASE \E j \in Keys : RecordTestFailure(r, j)
    <2>1. PICK j \in Keys, answer \in TestAnswers :
              Goto(r, [step |-> "saveTest", key |-> j,
                       payload |-> rows[j].fingerprint, row |-> 0,
                       seen |-> SeenOf(j), payment |-> answer])
        BY <1>2 DEF RecordTestFailure
    <2>2. Truthful([step |-> "saveTest", key |-> j,
                    payload |-> rows[j].fingerprint, row |-> 0,
                    seen |-> SeenOf(j), payment |-> answer])
        BY DEF Truthful
    <2> QED BY <1>1, <2>1, <2>2, MovingIsTruthful
<1>3. CASE q = NoRequest
    BY <1>2, <1>3 DEF Insert, Steal, ExecuteFails, ReadSuccess, ReadFailure,
           SaveFailure, SaveTestFailure, Leave, Crash, ClaimOnly,
           RecordSuccessFails, Told
<1>4. CASE q # NoRequest /\ ~\E j \in Keys : RecordTestFailure(r, j)
    <2>1. q \in Request
        BY <1>1, <1>4 DEF TypeOK
    <2>2. /\ Truthful(NoRequest)
          /\ Truthful([q EXCEPT !.step = "readFailure"])
          /\ Truthful([q EXCEPT !.step = "execute"])
          /\ Truthful([q EXCEPT !.step = "execute", !.row = inserted[k] + 1])
          /\ Truthful([q EXCEPT !.step = "saveSuccess", !.seen = SeenOf(k)])
          /\ Truthful([q EXCEPT !.step = "saveFailure", !.seen = SeenOf(k)])
        BY <2>1 DEF Truthful, Request
    <2>3. \/ Goto(r, NoRequest)
          \/ Goto(r, [q EXCEPT !.step = "readFailure"])
          \/ Goto(r, [q EXCEPT !.step = "execute"])
          \/ Goto(r, [q EXCEPT !.step = "execute", !.row = inserted[k] + 1])
          \/ Goto(r, [q EXCEPT !.step = "saveSuccess", !.seen = SeenOf(k)])
          \/ Goto(r, [q EXCEPT !.step = "saveFailure", !.seen = SeenOf(k)])
        BY <1>4 DEF Insert, Steal, ExecuteFails, ReadSuccess, ReadFailure,
                    SaveFailure, SaveTestFailure, Leave, Crash, ClaimOnly,
                    RecordSuccessFails
    <2> HIDE DEF q, k
    <2> QED BY <1>1, <2>2, <2>3, MovingIsTruthful
<1> QED BY <1>2, <1>3, <1>4

LEMMA ExecutingTellsNothing ==
    ASSUME OInv, AInv, NEW r \in Requests, NEW p \in Payments, Execute(r, p)
    PROVE  AInv'
<1> DEFINE q == request[r]
           new == [id |-> p, key |-> q.key, row |-> q.row, payload |-> q.payload]
<1>1. /\ q \in Request /\ q # NoRequest /\ q.step = "execute"
      /\ created' = created \cup {new}
      /\ request \in [Requests -> Request \cup {NoRequest}]
    BY DEF Execute, OInv, IInv, TypeOK
<1>2. q.row # 0
    BY <1>1 DEF OInv, IInv, RowsAreCounted, Claims
<1>3. CreatedUnderRows'
    BY <1>1, <1>2 DEF AInv, CreatedUnderRows
<1>4. ASSUME NEW s \in Requests, Answered(s)'
      PROVE  s # r /\ request'[s] = request[s]
    <2>1. \E step \in {"readFailure", "readSuccess"} :
              request' = [request EXCEPT ![r] = [q EXCEPT !.payment = p,
                                                          !.step = step]]
        BY DEF Execute, Goto
    <2>2. request'[r].step # "answered" /\ (s # r => request'[s] = request[s])
        BY <1>1, <2>1 DEF Request
    <2> QED BY <1>4, <2>2 DEF Answered
<1>5. AnsweredFromOwnKey'
    BY <1>1, <1>4 DEF AInv, AnsweredFromOwnKey, Answered
<1> QED BY <1>3, <1>5 DEF AInv

\* What clients are answered from a success exists, and was made under their key,
\* for any number of requests, and through crashes, lapsed leases and rows that
\* are replaced.
THEOREM AnswerInvariance == Spec => []AInv
<1>1. Init => AInv
    BY DEF Init, AInv, AnsweredFromOwnKey, Answered, CreatedUnderRows
<1>2. OInv /\ AInv /\ [Next]_vars => AInv'
    <2> SUFFICES ASSUME OInv, AInv, [Next]_vars PROVE AInv'
        OBVIOUS
    <2>1. CASE UNCHANGED <<created, request>>
        BY <2>1 DEF AInv, AnsweredFromOwnKey, Answered, CreatedUnderRows
    <2>2. ASSUME NEW k \in Keys, Environment(k)
          PROVE  UNCHANGED <<created, request>>
        BY <2>2 DEF Environment, CreateTestKey, CreateKey, LeaseLapses,
                    KeyExpires, CleanUp, ReleaseStuck
    <2>3. CASE \E r \in Requests :
                  \/ \E k \in Keys, payload \in Payloads : Begin(r, k, payload)
                  \/ Claim(r) \/ SaveSuccess(r)
                  \/ \E p \in Payments : Execute(r, p)
        BY <2>3, FastPathIsTruthful, ClaimIsTruthful, SavingIsTruthful,
           ExecutingTellsNothing
    <2>4. CASE \E r \in Requests :
                  \/ \E k \in Keys : RecordTestFailure(r, k)
                  \/ Insert(r) \/ Steal(r) \/ ExecuteFails(r) \/ ReadSuccess(r)
                  \/ ReadFailure(r) \/ SaveFailure(r) \/ SaveTestFailure(r)
                  \/ Leave(r)
                  \/ Crash(r) \/ ClaimOnly(r) \/ RecordSuccessFails(r)
        BY <2>4, OthersTellNothing
    <2> QED BY <2>1, <2>2, <2>3, <2>4 DEF Next, Proceed, vars
<1> QED BY <1>1, <1>2, OutcomeInvariance, PTL DEF Spec

\* So it is in every reachable state, for any set of keys.
THEOREM AnswersAreOfTheKey == Spec => []AnsweredFromOwnKey
<1>1. AInv => AnsweredFromOwnKey
    BY DEF AInv
<1> QED BY <1>1, AnswerInvariance, PTL

\* All clients of a key who are answered from a success get the same payment while
\* its first lease lasts.  A key with one row has all its payments under that row,
\* and there is one at most.
THEOREM AnswersAgree == Spec => []OneAnswer
<1>1. OInv /\ AInv => OneAnswer
    <2> SUFFICES ASSUME OInv, AInv, NEW r \in Requests, NEW s \in Requests,
                        Answered(r), Answered(s), request[r].key = request[s].key,
                        inserted[request[r].key] = 1,
                        <<request[r].key, 1>> \notin unguarded
                 PROVE  request[r].payment = request[s].payment
        BY DEF OneAnswer
    <2> DEFINE k == request[r].key
    <2>1. PICK c \in created : c.id = request[r].payment /\ c.key = k
        BY DEF AInv, AnsweredFromOwnKey
    <2>2. PICK d \in created : d.id = request[s].payment /\ d.key = k
        BY DEF AInv, AnsweredFromOwnKey
    <2>3. \A x \in created : x.key = k => x.row = 1
        <3>1. \A x \in created : x.row \in Nat /\ x.row # 0 /\ x.row <= inserted[x.key]
            BY DEF OInv, IInv, TypeOK, Creation, AInv, CreatedUnderRows, RowsAreCounted
        <3>2. ASSUME NEW x \in created, x.key = k
              PROVE  x.row = 1
            <4>1. x.row \in Nat /\ x.row # 0 /\ x.row <= 1
                BY <3>1, <3>2
            <4> QED BY <4>1
        <3> QED BY <3>2
    <2>4. c = d
        BY <2>1, <2>2, <2>3 DEF OInv, IInv, OnceUnderLease
    <2> QED BY <2>1, <2>2, <2>4
<1> QED BY <1>1, OutcomeInvariance, AnswerInvariance, PTL
-----------------------------------------------------------------------------
(***************************************************************************)
(* The refinement                                                          *)
(***************************************************************************)

\* What a row says: nothing, if it is not there, and otherwise something.
SaysWhatItIs ==
    \A k \in Keys :
        /\ rows[k] = NoRow => Entries[k] = NoRow
        /\ rows[k] # NoRow =>
              /\ Entries[k] # NoRow /\ Entries[k] \in Entry
              /\ Entries[k] = [number |-> rows[k].id,
                               body |-> rows[k].fingerprint,
                               status |-> rows[k].status,
                               answer |-> rows[k].answer]

LEMMA RowsSay == ASSUME TypeOK PROVE SaysWhatItIs
<1> SUFFICES ASSUME NEW k \in Keys
             PROVE  /\ rows[k] = NoRow => Entries[k] = NoRow
                    /\ rows[k] # NoRow =>
                          /\ Entries[k] # NoRow /\ Entries[k] \in Entry
                          /\ Entries[k] = [number |-> rows[k].id,
                                           body |-> rows[k].fingerprint,
                                           status |-> rows[k].status,
                                           answer |-> rows[k].answer]
    BY DEF SaysWhatItIs
<1>1. Entries[k] = EntryOf(k)
    BY DEF Entries
<1>2. CASE rows[k] = NoRow
    BY <1>1, <1>2 DEF EntryOf
<1>3. CASE rows[k] # NoRow
    <2>1. rows[k] \in IdRow
        BY <1>3 DEF TypeOK
    <2>2. Entries[k] = [number |-> rows[k].id, body |-> rows[k].fingerprint,
                        status |-> rows[k].status, answer |-> rows[k].answer]
        BY <1>1, <1>3 DEF EntryOf
    <2>3. Entries[k] \in Entry
        BY <2>1, <2>2 DEF Entry, IdRow
    <2> QED BY <1>3, <2>2, <2>3, NothingIsDistinct
<1> QED BY <1>2, <1>3

\* What is there in the next state, with the type its rows have.
Entered == TypeOK /\ SaysWhatItIs

\* A step is invisible if it creates nothing and changes no more of the rows than
\* their locks and the times they expire.
LEMMA QuietForKey ==
    ASSUME UNCHANGED <<inserted, unguarded, created>>,
           \A k \in Keys : Entries'[k] = Entries[k]
    PROVE  UNCHANGED Key!vars
<1>1. Entries' = Entries
    BY DEF Entries
<1> QED BY <1>1 DEF Key!vars

\* If one row changes, one entry does.
LEMMA OneEntryChanges ==
    ASSUME NEW k \in Keys, \A j \in Keys \ {k} : rows'[j] = rows[j]
    PROVE  Entries' = [Entries EXCEPT ![k] = Entries'[k]]
<1>1. \A j \in Keys \ {k} : EntryOf(j)' = EntryOf(j)
    BY DEF EntryOf
<1> QED BY <1>1 DEF Entries

\* A row is inserted, by a request that claims it or by nobody who does.
LEMMA InsertingInserts ==
    ASSUME Entered, Entered', NEW k \in Keys, NEW payload \in Payloads, NEW lock,
           rows[k] = NoRow,
           rows' = [rows EXCEPT ![k] = NewRow(k, payload, lock)],
           NewRow(k, payload, lock) # NoRow,
           inserted' = [inserted EXCEPT ![k] = @ + 1],
           unguarded' \in {unguarded, unguarded \cup {<<k, inserted[k] + 1>>}},
           created' = created
    PROVE  Key!Next
<1> DEFINE e == [number |-> inserted[k] + 1, body |-> payload,
                 status |-> "PENDING", answer |-> NoPayment]
<1>1. /\ rows'[k] = NewRow(k, payload, lock) /\ rows'[k] # NoRow
      /\ \A j \in Keys \ {k} : rows'[j] = rows[j]
    BY DEF Entered, TypeOK
<1>2. Entries'[k] = e
    <2>1. Entries'[k] = [number |-> rows'[k].id, body |-> rows'[k].fingerprint,
                         status |-> rows'[k].status, answer |-> rows'[k].answer]
        BY <1>1 DEF Entered, SaysWhatItIs
    <2> QED BY <1>1, <2>1 DEF NewRow
<1>3. Entries' = [Entries EXCEPT ![k] = e]
    BY <1>1, <1>2, OneEntryChanges
<1>4. Entries[k] = NoRow
    BY DEF Entered, SaysWhatItIs
<1>5. Key!Insert(k, payload)
    BY <1>3, <1>4 DEF Key!Insert
<1> QED BY <1>5 DEF Key!Next

\* A payment is made under the row that its request claims.
LEMMA ExecutingMakes ==
    ASSUME OInv, Entered, NEW r \in Requests, NEW p \in Payments, Execute(r, p)
    PROVE  Key!Next
<1> DEFINE q == request[r]
           k == q.key
           i == q.row
           new == [id |-> p, key |-> k, row |-> i, payload |-> q.payload]
<1>1. /\ q # NoRequest /\ q.step = "execute" /\ q \in Request
      /\ created' = created \cup {new} /\ \A c \in created : c.id # p
      /\ UNCHANGED <<rows, inserted, unguarded>>
    BY DEF OInv, IInv, TypeOK, Execute, IdFor
<1>2. k \in Keys /\ q.payload \in Payloads /\ i \in Nat /\ inserted[k] \in Nat
    BY <1>1 DEF OInv, IInv, TypeOK, Request
<1>3. Claims(r)
    BY <1>1 DEF Claims
<1>4. i \in 1..inserted[k]
    BY <1>1, <1>2, <1>3 DEF OInv, IInv, RowsAreCounted
<1>5. \A c \in created : c.key = k /\ c.row = i => c.payload = q.payload
    BY <1>3 DEF OInv, IInv, ClaimsAgree
<1>6. <<k, i>> \notin unguarded => \A c \in created : c.key = k => c.row # i
    BY <1>1 DEF OInv, IInv, HolderIsAlone
<1>7. ASSUME Entries[k] # NoRow, Entries[k].number = i,
             Entries[k].status = "PENDING"
      PROVE  Entries[k].body = q.payload
    <2>1. rows[k] # NoRow
        BY <1>2, <1>7 DEF Entered, SaysWhatItIs
    <2>2. Entries[k] = [number |-> rows[k].id, body |-> rows[k].fingerprint,
                        status |-> rows[k].status, answer |-> rows[k].answer]
        BY <1>2, <2>1 DEF Entered, SaysWhatItIs
    <2>3. /\ rows[k].id = i /\ rows[k].status = "PENDING"
          /\ Entries[k].body = rows[k].fingerprint
        BY <1>7, <2>2
    <2> QED BY <1>2, <1>3, <2>1, <2>3 DEF OInv, IInv, ClaimsAgree
<1>8. Entries' = Entries
    BY <1>1 DEF Entries, EntryOf
<1>9. Key!Make(k, i, q.payload, p)
    BY <1>1, <1>5, <1>6, <1>7, <1>8 DEF Key!Make, Key!MadeUnder
<1> QED BY <1>2, <1>4, <1>9 DEF Key!Next

\* How an entry is settled, field by field and as a whole.
LEMMA SettledEntry ==
    ASSUME NEW e \in Entry, NEW body \in Payloads, NEW status \in Statuses,
           NEW answer \in Payments \cup {NoPayment}
    PROVE  [e EXCEPT !.body = body, !.status = status, !.answer = answer]
           = [number |-> e.number, body |-> body, status |-> status,
              answer |-> answer]
<1> DEFINE x == [e EXCEPT !.body = body, !.status = status, !.answer = answer]
           y == [number |-> e.number, body |-> body, status |-> status,
                 answer |-> answer]
<1>1. x \in Entry /\ y \in Entry
    BY DEF Entry
<1>2. /\ x.number = y.number /\ x.body = y.body
      /\ x.status = y.status /\ x.answer = y.answer
    BY DEF Entry
<1> HIDE DEF x, y
<1>3. x = y
    BY <1>1, <1>2 DEF Entry
<1> QED BY <1>3 DEF x, y

\* A row gets an outcome.
LEMMA OutcomeSettles ==
    ASSUME Entered, Entered', CompletedNamesPayment', NEW k \in Keys,
           NEW seen \in [fingerprint : Payloads, expiry : Nat],
           NEW answer \in Payments \cup {NoPayment},
           NEW status \in {"COMPLETED", "FAILED"},
           rows[k] # NoRow,
           rows' = [rows EXCEPT ![k] = Outcome(rows[k], seen, status, answer)],
           rows'[k] # NoRow,
           UNCHANGED <<inserted, unguarded, created>>
    PROVE  Key!Next
<1> DEFINE body == seen.fingerprint
<1>1. rows[k] \in IdRow /\ body \in Payloads /\ status \in Statuses
    BY DEF Entered, TypeOK, Statuses
<1>2. /\ rows'[k].id = rows[k].id /\ rows'[k].fingerprint = body
      /\ rows'[k].status = status /\ rows'[k].answer = answer
      /\ \A j \in Keys \ {k} : rows'[j] = rows[j]
    BY <1>1 DEF Entered, TypeOK, Outcome, IdRow
<1>3. /\ Entries[k] # NoRow
      /\ Entries[k] = [number |-> rows[k].id, body |-> rows[k].fingerprint,
                       status |-> rows[k].status, answer |-> rows[k].answer]
    BY DEF Entered, SaysWhatItIs
<1>4. Entries'[k] = [number |-> rows[k].id, body |-> body,
                     status |-> status, answer |-> answer]
    <2>1. Entries'[k] = [number |-> rows'[k].id, body |-> rows'[k].fingerprint,
                         status |-> rows'[k].status, answer |-> rows'[k].answer]
        BY DEF Entered, SaysWhatItIs
    <2> QED BY <1>2, <2>1
<1>5. Entries' = [Entries EXCEPT ![k] = Entries'[k]]
    BY <1>2, OneEntryChanges
<1>6. Key!Settled(k, body, status, answer)
    <2>1. Entries'[k] = [Entries[k] EXCEPT !.body = body, !.status = status,
                                           !.answer = answer]
        <3>1. Entries[k] \in Entry /\ Entries[k].number = rows[k].id
            BY <1>3 DEF Entered, SaysWhatItIs
        <3>2. [Entries[k] EXCEPT !.body = body, !.status = status, !.answer = answer]
              = [number |-> Entries[k].number, body |-> body, status |-> status,
                 answer |-> answer]
            BY <1>1, <3>1, SettledEntry
        <3> HIDE DEF body
        <3> QED BY <1>4, <3>1, <3>2
    <2>2. Entries = [j \in Keys |-> Entries[j]]
        BY DEF Entries
    <2> QED BY <1>5, <2>1, <2>2 DEF Key!Settled
<1> HIDE DEF body
<1>7. CASE status = "COMPLETED"
    <2>1. \E c \in created : /\ c.id = answer /\ c.key = k
                             /\ c.row = Entries[k].number => c.payload = body
        BY <1>2, <1>3, <1>7 DEF CompletedNamesPayment
    <2>2. answer \in Payments
        BY <2>1 DEF Entered, TypeOK, Creation
    <2>3. Key!Complete(k, body, answer)
        BY <1>3, <1>6, <1>7, <2>1 DEF Key!Complete
    <2> QED BY <1>1, <2>2, <2>3 DEF Key!Next
<1>8. CASE status = "FAILED"
    <2>1. Key!Fail(k, body, answer)
        BY <1>3, <1>6, <1>8 DEF Key!Fail
    <2> QED BY <1>1, <2>1 DEF Key!Next
<1> QED BY <1>7, <1>8

LEMMA SavingSettles ==
    ASSUME OInv, Entered, Entered', CompletedNamesPayment', NEW r \in Requests,
           Saving(r)
    PROVE  Key!Next \/ UNCHANGED Key!vars
<1> DEFINE q == request[r]
           k == q.key
<1>1. /\ q \in Request /\ k \in Keys
      /\ q.seen \in [fingerprint : Payloads, expiry : Nat]
      /\ q.payment \in Payments \cup {NoPayment}
      /\ rows \in [Keys -> IdRow \cup {NoRow}]
      /\ UNCHANGED <<inserted, unguarded, created>>
    BY DEF OInv, IInv, TypeOK, Saving, SaveSuccess, SaveFailure, SaveTestFailure,
           Request
<1>2. CASE rows' = rows
    <2>1. \A j \in Keys : Entries'[j] = Entries[j]
        BY <1>2 DEF Entries, EntryOf
    <2> QED BY <1>1, <2>1, QuietForKey
<1>3. CASE rows[k] # NoRow
    <2>1. PICK status \in {"COMPLETED", "FAILED"},
               answer \in Payments \cup {NoPayment} :
              rows' = [rows EXCEPT ![k] = Outcome(rows[k], q.seen, status, answer)]
        BY <1>1, <1>3 DEF Saving, SaveSuccess, SaveFailure, SaveTestFailure
    <2>2. rows'[k] # NoRow
        <3>1. q.seen.expiry \in Nat \ {0} /\ q.seen.fingerprint \in Payloads
            BY <1>1 DEF OInv, IInv, SeenIsOfARow, Saving, SaveSuccess, SaveFailure,
                        SaveTestFailure
        <3>2. Outcome(rows[k], q.seen, status, answer) \in IdRow
            <4>1. rows[k] \in IdRow /\ status \in Statuses
                BY <1>1, <1>3, <2>1 DEF Statuses
            <4> QED BY <2>1, <3>1, <4>1 DEF Outcome, IdRow, Locks
        <3>3. rows'[k] = Outcome(rows[k], q.seen, status, answer)
            BY <1>1, <2>1
        <3> QED BY <3>2, <3>3, NothingIsDistinct
    <2> QED BY <1>1, <1>3, <2>1, <2>2, OutcomeSettles
<1>4. rows[k] = NoRow => rows' = rows
    BY DEF Saving, SaveSuccess, SaveFailure, SaveTestFailure
<1> QED BY <1>2, <1>3, <1>4

\* Time and administration: leases lapse, rows go.
LEMMA EnvironmentRefines ==
    ASSUME Entered, Entered', NEW k \in Keys, Environment(k)
    PROVE  Key!Next \/ UNCHANGED Key!vars
<1>1. rows \in [Keys -> IdRow \cup {NoRow}] /\ inserted \in [Keys -> Nat]
      /\ rows' \in [Keys -> IdRow \cup {NoRow}]
    BY DEF Entered, TypeOK
<1>2. CASE CreateTestKey(k)
    <2>1. PICK payload \in Payloads : CreateKey(k, payload)
        BY <1>2 DEF CreateTestKey
    <2>2. NewRow(k, payload, "none") \in IdRow
        BY <1>1 DEF NewRow, IdRow, Statuses, Locks
    <2> QED BY <2>1, <2>2, NothingIsDistinct, InsertingInserts DEF CreateKey
<1>3. CASE LeaseLapses(k) \/ ReleaseStuck(k)
    <2>1. /\ rows[k] # NoRow /\ rows[k] \in IdRow
          /\ \E lock \in Locks : rows' = [rows EXCEPT ![k] = [@ EXCEPT !.lock = lock]]
          /\ UNCHANGED <<inserted, created>>
        BY <1>1, <1>3 DEF LeaseLapses, ReleaseStuck, Locks
    <2>2. PICK lock \in Locks : rows' = [rows EXCEPT ![k] = [rows[k] EXCEPT !.lock = lock]]
        BY <2>1
    <2>3. /\ rows'[k] = [rows[k] EXCEPT !.lock = lock]
          /\ \A j \in Keys \ {k} : rows'[j] = rows[j]
        BY <1>1, <2>2
    <2>4. [rows[k] EXCEPT !.lock = lock] \in IdRow
        BY <2>1 DEF IdRow
    <2>5. /\ rows'[k] # NoRow
          /\ rows'[k].id = rows[k].id /\ rows'[k].status = rows[k].status
          /\ rows'[k].fingerprint = rows[k].fingerprint
          /\ rows'[k].answer = rows[k].answer
        BY <2>1, <2>3, <2>4, NothingIsDistinct DEF IdRow
    <2>6. Entries'[k] = Entries[k] /\ Entries[k] # NoRow
          /\ Entries[k].number = rows[k].id
        <3>1. /\ Entries[k] # NoRow
              /\ Entries[k] = [number |-> rows[k].id, body |-> rows[k].fingerprint,
                               status |-> rows[k].status, answer |-> rows[k].answer]
            BY <2>1 DEF Entered, SaysWhatItIs
        <3>2. Entries'[k] = [number |-> rows'[k].id, body |-> rows'[k].fingerprint,
                             status |-> rows'[k].status, answer |-> rows'[k].answer]
            BY <2>5 DEF Entered, SaysWhatItIs
        <3> QED BY <2>5, <3>1, <3>2
    <2>7. Entries' = Entries
        BY <2>3, <2>6, OneEntryChanges DEF Entries
    <2>8. CASE LeaseLapses(k)
        <3>1. Key!Lapse(k)
            BY <2>1, <2>6, <2>7, <2>8 DEF LeaseLapses, Key!Lapse
        <3> QED BY <3>1 DEF Key!Next
    <2>9. CASE ReleaseStuck(k)
        BY <2>1, <2>7, <2>9 DEF ReleaseStuck, Key!vars
    <2> QED BY <1>3, <2>8, <2>9
<1>4. CASE KeyExpires(k)
    <2>1. \A j \in Keys : Entries'[j] = Entries[j]
        BY <1>4 DEF KeyExpires, Entries, EntryOf
    <2> QED BY <1>4, <2>1, QuietForKey DEF KeyExpires
<1>5. CASE CleanUp(k)
    <2>1. /\ rows[k] # NoRow /\ rows'[k] = NoRow
          /\ \A j \in Keys \ {k} : rows'[j] = rows[j]
          /\ UNCHANGED <<inserted, unguarded, created>>
        BY <1>1, <1>5 DEF CleanUp
    <2>2. Entries[k] # NoRow /\ Entries'[k] = NoRow
        BY <2>1 DEF Entered, SaysWhatItIs
    <2>3. Entries' = [Entries EXCEPT ![k] = NoRow]
        BY <2>1, <2>2, OneEntryChanges
    <2>4. Key!Remove(k)
        BY <2>1, <2>2, <2>3 DEF Key!Remove
    <2> QED BY <2>4 DEF Key!Next
<1> QED BY <1>2, <1>3, <1>4, <1>5 DEF Environment

\* A request takes over the lock: the key says the same.
LEMMA StealingIsQuiet ==
    ASSUME Entered, Entered', NEW r \in Requests, Steal(r),
           request[r] \in Request
    PROVE  UNCHANGED Key!vars
<1> DEFINE k == request[r].key
<1>1. k \in Keys /\ rows \in [Keys -> IdRow \cup {NoRow}]
    BY DEF Entered, TypeOK, Request
<1>2. CASE rows' = rows
    BY <1>2, QuietForKey DEF Steal, Entries, EntryOf
<1>3. CASE rows[k] # NoRow /\ rows' = [rows EXCEPT ![k] = Stolen(rows[k])]
    <2>1. /\ rows'[k] = Stolen(rows[k]) /\ rows[k] \in IdRow
          /\ \A j \in Keys \ {k} : rows'[j] = rows[j]
        BY <1>1, <1>3
    <2>2. Stolen(rows[k]) \in IdRow
        BY <2>1 DEF Stolen, IdRow, Locks
    <2>3. /\ rows'[k] # NoRow
          /\ rows'[k].id = rows[k].id /\ rows'[k].status = rows[k].status
          /\ rows'[k].fingerprint = rows[k].fingerprint
          /\ rows'[k].answer = rows[k].answer
        BY <2>1, <2>2, NothingIsDistinct DEF Stolen, IdRow
    <2>4. \A j \in Keys : EntryOf(j)' = EntryOf(j)
        BY <1>3, <2>1, <2>3 DEF EntryOf
    <2>5. \A j \in Keys : Entries'[j] = Entries[j]
        BY <2>4 DEF Entries
    <2> QED BY <2>5, QuietForKey DEF Steal
<1> QED BY <1>2, <1>3 DEF Steal

LEMMA NextRefines ==
    ASSUME OInv, Entered, Entered', CompletedNamesPayment', [Next]_vars
    PROVE  [Key!Next]_(Key!vars)
<1>1. CASE UNCHANGED Tables
    <2>1. \A k \in Keys : Entries'[k] = Entries[k]
        BY <1>1 DEF Tables, Entries, EntryOf
    <2> QED BY <1>1, <2>1, QuietForKey DEF Tables
<1>2. ASSUME NEW r \in Requests, Insert(r), rows' # rows
      PROVE  Key!Next
    <2> DEFINE q == request[r]
    <2>1. q \in Request /\ q.key \in Keys /\ q.payload \in Payloads
        BY <1>2 DEF Insert, Entered, TypeOK, Request
    <2>2. NewRow(q.key, q.payload, "live") # NoRow
        <3>1. inserted[q.key] \in Nat
            BY <2>1 DEF Entered, TypeOK
        <3>2. NewRow(q.key, q.payload, "live") \in IdRow
            BY <2>1, <3>1 DEF NewRow, IdRow, Statuses, Locks
        <3> QED BY <3>2, NothingIsDistinct
    <2> QED BY <1>2, <2>1, <2>2, InsertingInserts DEF Insert
<1>3. ASSUME NEW r \in Requests, Steal(r)
      PROVE  UNCHANGED Key!vars
    <2>1. request[r] \in Request
        BY <1>3 DEF Steal, Entered, TypeOK
    <2> QED BY <1>3, <2>1, StealingIsQuiet
<1>4. ASSUME NEW r \in Requests, NEW p \in Payments, Execute(r, p)
      PROVE  Key!Next
    BY <1>4, ExecutingMakes
<1>5. ASSUME NEW r \in Requests, Saving(r)
      PROVE  Key!Next \/ UNCHANGED Key!vars
    BY <1>5, SavingSettles
<1>6. ASSUME NEW k \in Keys, Environment(k)
      PROVE  Key!Next \/ UNCHANGED Key!vars
    BY <1>6, EnvironmentRefines
<1>7. ASSUME NEW r \in Requests, Insert(r), rows' = rows
      PROVE  UNCHANGED Tables
    <2>1. CASE rows[request[r].key] = NoRow
        <3>1. NewRow(request[r].key, request[r].payload, "live") = NoRow
            BY <1>7, <2>1 DEF Insert, Entered, TypeOK, Request
        <3>2. NewRow(request[r].key, request[r].payload, "live") \in IdRow
            BY <1>7 DEF Insert, Entered, TypeOK, Request, NewRow, IdRow, Statuses, Locks
        <3> QED BY <3>1, <3>2, NothingIsDistinct
    <2>2. CASE rows[request[r].key] # NoRow
        BY <1>7, <2>2 DEF Insert, Tables
    <2> QED BY <2>1, <2>2
<1>8. \/ UNCHANGED Tables
      \/ \E r \in Requests :
            \/ Insert(r) \/ Steal(r) \/ (\E p \in Payments : Execute(r, p))
            \/ Saving(r)
      \/ \E k \in Keys : Environment(k)
    BY DEF Next, vars, Tables, Proceed, Begin, RecordTestFailure, Claim, ExecuteFails,
           ReadSuccess, ReadFailure, Leave, Crash, ClaimOnly, RecordSuccessFails, Saving
<1> QED BY <1>1, <1>2, <1>3, <1>4, <1>5, <1>6, <1>7, <1>8

\* The table of keys, with all that happens around it, does what IdempotencyKey
\* says: a key has one entry at most, which keeps having an outcome once it has
\* one and is completed with a payment of the key only, and under an entry that
\* has not lapsed one payment is made (claim_or_replay, record_success,
\* record_failure and the executor).
THEOREM Refinement == Spec => ImplementsKey
<1>1. Init => Key!Init
    BY DEF Init, Key!Init, Entries, EntryOf
<1>2. OInv /\ Entered /\ Entered' /\ CompletedNamesPayment' /\ [Next]_vars
        => [Key!Next]_(Key!vars)
    BY NextRefines
<1>3. TypeOK => Entered
    BY RowsSay DEF Entered
<1>4. OInv => TypeOK /\ CompletedNamesPayment
    BY DEF OInv, IInv
<1> QED BY <1>1, <1>2, <1>3, <1>4, OutcomeInvariance, PTL
           DEF Spec, ImplementsKey, Key!Spec
=============================================================================
