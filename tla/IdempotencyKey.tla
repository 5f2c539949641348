--------------------------- MODULE IdempotencyKey ---------------------------
(***************************************************************************)
(* The abstract specification of an idempotency key: what the table of keys *)
(* promises, with its requests, locks, leases and recording left out.  A    *)
(* key has one entry at most; a new one has a new number.  Until the entry  *)
(* lapses, one payment at most is made under it; afterwards more may be,    *)
(* all of the same body.  An entry is completed with a payment that was     *)
(* made under its key.  It may also fail, and a failure may carry any       *)
(* answer: whoever records one chooses it.  An entry with an outcome may    *)
(* get another, but is never pending again, and may be removed in the end.  *)
(***************************************************************************)
EXTENDS Naturals

CONSTANTS Keys, Payloads, Payments,
          NoPayment,  \* the answer of an entry that names no payment
          NoEntry     \* a key without an entry

VARIABLES entry,   \* entry[k]: its number, body, status and answer
          count,   \* count[k]: the entries k ever had
          lapsed,  \* the entries <<k, i>> that more than one may hold
          made     \* the payments made, each with its key, entry and body

vars == <<entry, count, lapsed, made>>

MadeUnder(k, i) == {c \in made : c.key = k /\ c.row = i}

\* An entry is inserted, with a lease or without.
Insert(k, body) ==
    /\ entry[k] = NoEntry
    /\ entry' = [entry EXCEPT ![k] = [number |-> count[k] + 1, body |-> body,
                                      status |-> "PENDING", answer |-> NoPayment]]
    /\ count' = [count EXCEPT ![k] = @ + 1]
    /\ lapsed' \in {lapsed, lapsed \cup {<<k, count[k] + 1>>}}
    /\ UNCHANGED made

Lapse(k) ==
    /\ entry[k] # NoEntry
    /\ lapsed' = lapsed \cup {<<k, entry[k].number>>}
    /\ UNCHANGED <<entry, count, made>>

\* A payment with a new id is made under the i-th entry of k, perhaps long after
\* that entry was removed.
Make(k, i, body, p) ==
    /\ \A c \in made : c.id # p
    /\ <<k, i>> \notin lapsed => MadeUnder(k, i) = {}
    /\ \A c \in MadeUnder(k, i) : c.payload = body
    /\ entry[k] # NoEntry /\ entry[k].number = i /\ entry[k].status = "PENDING"
          => entry[k].body = body
    /\ made' = made \cup {[id |-> p, key |-> k, row |-> i, payload |-> body]}
    /\ UNCHANGED <<entry, count, lapsed>>

Settled(k, body, status, answer) ==
    entry' = [entry EXCEPT ![k].body = body, ![k].status = status,
                           ![k].answer = answer]

\* The body is written as well: it may be that of an entry now removed, but not
\* if the payment was made under this one.
Complete(k, body, answer) ==
    /\ entry[k] # NoEntry
    /\ \E c \in made : /\ c.id = answer /\ c.key = k
                       /\ c.row = entry[k].number => c.payload = body
    /\ Settled(k, body, "COMPLETED", answer)
    /\ UNCHANGED <<count, lapsed, made>>

Fail(k, body, answer) ==
    /\ entry[k] # NoEntry
    /\ Settled(k, body, "FAILED", answer)
    /\ UNCHANGED <<count, lapsed, made>>

Remove(k) ==
    /\ entry[k] # NoEntry
    /\ entry' = [entry EXCEPT ![k] = NoEntry]
    /\ UNCHANGED <<count, lapsed, made>>

Init ==
    /\ entry = [k \in Keys |-> NoEntry]
    /\ count = [k \in Keys |-> 0]
    /\ lapsed = {}
    /\ made = {}

Next == \E k \in Keys :
    \/ \E body \in Payloads :
        \/ Insert(k, body)
        \/ \E i \in 1..count[k], p \in Payments : Make(k, i, body, p)
        \/ \E answer \in Payments : Complete(k, body, answer)
        \/ \E answer \in Payments \cup {NoPayment} : Fail(k, body, answer)
    \/ Lapse(k)
    \/ Remove(k)

Spec == Init /\ [][Next]_vars
=============================================================================
