------------------------ MODULE RabbitConsumerProofs ------------------------
(***************************************************************************)
(* Proofs about the RabbitMQ consumers, for any messages, consumers and     *)
(* faults.                                                                  *)
(*                                                                         *)
(* The argument: a mark in a cache is believed only between two callbacks   *)
(* of its own process, and by then the message it names was processed       *)
(* (MarkedIsProcessed); so what a callback is about to settle is settled    *)
(* already (AfterHandling).  The broker takes only what it still has with   *)
(* the consumer that settles it, so that no copy comes back: the consumers  *)
(* implement AtLeastOnce.                                                   *)
(***************************************************************************)
EXTENDS RabbitConsumer, TLAPS

MarkedIsProcessed ==
    \A c \in Consumers : \A m \in cache[c] :
        Settled(m) \/ (stage[c] = "handling" /\ atHand[c].message = m)

AfterHandling ==
    \A c \in Consumers : stage[c] \in {"acking", "rejecting", "skipping"} =>
        Settled(atHand[c].message)

IInv == /\ TypeOK
        /\ TakenIsProcessed
        /\ MarkedIsProcessed
        /\ AfterHandling

USE DEF Stages, Callback
-----------------------------------------------------------------------------
\* The copy a callback is at has a message.
LEMMA AtHandIsCopy ==
    ASSUME TypeOK, NEW c \in Consumers, stage[c] \in Callback
    PROVE  atHand[c] \in Copies /\ atHand[c].message \in Messages
<1>1. atHand[c] \in Copies
    BY DEF TypeOK
<1> QED BY <1>1 DEF Copies

\* A message is delivered and looked up.
LEMMA DeliverPreserves ==
    ASSUME IInv, NEW c \in Consumers, NEW k \in Copies, Deliver(c, k)
    PROVE  IInv'
<1>1. PICK kept \in SUBSET cache[c] :
        \/ /\ k.message \in kept /\ stage' = [stage EXCEPT ![c] = "skipping"]
           /\ cache' = [cache EXCEPT ![c] = kept]
        \/ /\ stage' = [stage EXCEPT ![c] = "handling"]
           /\ cache' = [cache EXCEPT ![c] = kept \cup ({k.message} \ Anonymous)]
    BY DEF Deliver
<1>2. /\ stage[c] = "waiting" /\ place[k] = "ready"
      /\ place' = [place EXCEPT ![k] = c]
      /\ atHand' = [atHand EXCEPT ![c] = k]
      /\ UNCHANGED <<processed, faults>>
    BY DEF Deliver
<1>3. k.message \in Messages /\ k # NoCopy
    BY PlacesAreDistinct DEF Copies
<1>4. /\ stage' \in [Consumers -> Stages \cup Callback]
      /\ stage'[c] \in {"skipping", "handling"}
      /\ \A d \in Consumers : d # c => /\ stage'[d] = stage[d]
                                       /\ atHand'[d] = atHand[d]
                                       /\ cache'[d] = cache[d]
      /\ atHand'[c] = k
    BY <1>1, <1>2 DEF IInv, TypeOK
<1>5. cache' \in [Consumers -> SUBSET Messages]
    BY <1>1, <1>3 DEF IInv, TypeOK
<1>6. /\ place' \in [Copies -> {"unsent", "ready", "gone"} \cup Consumers]
      /\ place'[k] = c
      /\ \A j \in Copies : j # k => place'[j] = place[j]
    BY <1>2 DEF IInv, TypeOK
<1>7. \A j \in Copies : place[j] # c
    BY <1>2, PlacesAreDistinct DEF IInv, TypeOK
<1>8. TypeOK'
    <2>1. \A d \in Consumers : stage'[d] \in Callback <=> atHand'[d] # NoCopy
        BY <1>3, <1>4 DEF IInv, TypeOK
    <2>2. \A j \in Copies, d \in Consumers : place'[j] = d => atHand'[d] = j
        BY <1>4, <1>6, <1>7 DEF IInv, TypeOK
    <2>3. atHand' \in [Consumers -> Copies \cup {NoCopy}]
        BY <1>2 DEF IInv, TypeOK
    <2> QED BY <1>2, <1>4, <1>5, <1>6, <2>1, <2>2, <2>3 DEF IInv, TypeOK
<1>9. TakenIsProcessed'
    BY <1>2, <1>6, PlacesAreDistinct DEF IInv, TakenIsProcessed, Settled
<1>10. \A x \in cache[c] : Settled(x)
    BY <1>2 DEF IInv, MarkedIsProcessed
<1>11. \A x : Settled(x)' <=> Settled(x)
    BY <1>2 DEF Settled
<1>12. cache'[c] \subseteq cache[c] \cup {k.message}
    BY <1>1 DEF IInv, TypeOK
<1>13. stage'[c] = "skipping" => k.message \in cache[c]
    BY <1>1 DEF IInv, TypeOK
<1>14. stage'[c] = "skipping" => cache'[c] \subseteq cache[c]
    BY <1>1, <1>13 DEF IInv, TypeOK
<1>15. MarkedIsProcessed'
    BY <1>4, <1>10, <1>11, <1>12, <1>14 DEF IInv, MarkedIsProcessed
<1>16. AfterHandling'
    BY <1>4, <1>10, <1>11, <1>13 DEF IInv, AfterHandling
<1> QED BY <1>8, <1>9, <1>15, <1>16 DEF IInv

\* The message at hand is processed, or cannot be.
LEMMA HandlingPreserves ==
    ASSUME IInv, NEW c \in Consumers, Process(c) \/ ProcessFails(c)
    PROVE  IInv'
<1>0. PICK m \in Messages : m = atHand[c].message
    BY AtHandIsCopy DEF IInv, Process, ProcessFails
<1> DEFINE Done == processed' \cup Malformed
<1>1. /\ UNCHANGED <<place, atHand, cache, faults>>
      /\ stage[c] = "handling"
      /\ \E s \in {"acking", "rejecting"} : stage' = [stage EXCEPT ![c] = s]
      /\ m \in Done /\ processed \subseteq processed'
      /\ processed' \subseteq Messages \ Malformed
    BY <1>0 DEF Process, ProcessFails, Parses, IInv, TypeOK
<1>2. \A x : /\ Settled(x) => x \in Done
             /\ Settled(x)' <=> x \in Done
    BY <1>1 DEF Settled
<1>3. /\ stage' \in [Consumers -> Stages \cup Callback]
      /\ stage'[c] \in {"acking", "rejecting"}
      /\ \A d \in Consumers : d # c => stage'[d] = stage[d]
    BY <1>1 DEF IInv, TypeOK
<1>4. TypeOK'
    BY <1>1, <1>3 DEF IInv, TypeOK
<1>5. TakenIsProcessed'
    BY <1>1, <1>2 DEF IInv, TakenIsProcessed
<1>6. MarkedIsProcessed'
    BY <1>0, <1>1, <1>2, <1>3 DEF IInv, MarkedIsProcessed
<1>7. AfterHandling'
    BY <1>0, <1>1, <1>2, <1>3 DEF IInv, AfterHandling
<1> QED BY <1>4, <1>5, <1>6, <1>7 DEF IInv

\* The message at hand leaves the queue.
LEMMA SettlePreserves ==
    ASSUME IInv, NEW c \in Consumers, Settle(c)
    PROVE  IInv'
<1>1. PICK k \in Copies : k = atHand[c]
    BY AtHandIsCopy DEF IInv, Settle
<1>2. /\ stage[c] \in {"acking", "rejecting", "skipping"} /\ place[k] = c
      /\ place' = [place EXCEPT ![k] = "gone"]
      /\ stage' = [stage EXCEPT ![c] = "waiting"]
      /\ atHand' = [atHand EXCEPT ![c] = NoCopy]
      /\ UNCHANGED <<cache, processed, faults>>
    BY <1>1 DEF Settle, AfterReject
<1>3. \A x : Settled(x)' <=> Settled(x)
    BY <1>2 DEF Settled
<1>4. Settled(k.message)
    BY <1>1, <1>2 DEF IInv, AfterHandling
<1>5. /\ \A d \in Consumers : d # c => stage'[d] = stage[d] /\ atHand'[d] = atHand[d]
      /\ stage'[c] = "waiting" /\ atHand'[c] = NoCopy
      /\ \A j \in Copies : j # k => place'[j] = place[j]
      /\ place'[k] = "gone"
    BY <1>2 DEF IInv, TypeOK
<1>6. TypeOK'
    <2>1. \A j \in Copies, d \in Consumers : place'[j] = d => atHand'[d] = j
        BY <1>1, <1>5, PlacesAreDistinct DEF IInv, TypeOK
    <2> QED BY <1>2, <1>5, <2>1 DEF IInv, TypeOK
<1>7. TakenIsProcessed'
    BY <1>3, <1>4, <1>5 DEF IInv, TakenIsProcessed
<1>8. MarkedIsProcessed' /\ AfterHandling'
    BY <1>2, <1>3, <1>5 DEF IInv, MarkedIsProcessed, AfterHandling
<1> QED BY <1>6, <1>7, <1>8 DEF IInv

\* The process ends.
LEMMA StopPreserves ==
    ASSUME IInv, NEW c \in Consumers, Stop(c), faults' \in 0..MaxFaults
    PROVE  IInv'
<1>1. /\ place' = [k \in Copies |-> IF place[k] = c THEN "ready" ELSE place[k]]
      /\ stage' = [stage EXCEPT ![c] = "stopped"]
      /\ atHand' = [atHand EXCEPT ![c] = NoCopy]
      /\ cache' = [cache EXCEPT ![c] = {}]
      /\ processed' = processed
    BY DEF Stop, FreshCache
<1>2. /\ \A d \in Consumers : d # c => /\ stage'[d] = stage[d]
                                       /\ atHand'[d] = atHand[d]
                                       /\ cache'[d] = cache[d]
      /\ stage'[c] = "stopped" /\ atHand'[c] = NoCopy /\ cache'[c] = {}
    BY <1>1 DEF IInv, TypeOK
<1>3. /\ \A k \in Copies : /\ place'[k] # c
                           /\ place'[k] = place[k] \/ place'[k] = "ready"
    BY <1>1, PlacesAreDistinct
<1>4. TypeOK'
    <2>1. place' \in [Copies -> {"unsent", "ready", "gone"} \cup Consumers]
        BY <1>1 DEF IInv, TypeOK
    <2>2. \A k \in Copies, d \in Consumers : place'[k] = d => atHand'[d] = k
        BY <1>2, <1>3, PlacesAreDistinct DEF IInv, TypeOK
    <2>3. /\ stage' \in [Consumers -> Stages \cup Callback]
          /\ atHand' \in [Consumers -> Copies \cup {NoCopy}]
          /\ cache' \in [Consumers -> SUBSET Messages]
        BY <1>1 DEF IInv, TypeOK
    <2>4. \A d \in Consumers : stage'[d] \in Callback <=> atHand'[d] # NoCopy
        BY <1>2 DEF IInv, TypeOK
    <2> QED BY <1>1, <2>1, <2>2, <2>3, <2>4 DEF IInv, TypeOK
<1>5. \A x : Settled(x)' <=> Settled(x)
    BY <1>1 DEF Settled
<1>6. TakenIsProcessed'
    BY <1>3, <1>5 DEF IInv, TakenIsProcessed
<1>7. MarkedIsProcessed' /\ AfterHandling'
    BY <1>2, <1>5 DEF IInv, MarkedIsProcessed, AfterHandling
<1> QED BY <1>4, <1>6, <1>7 DEF IInv

\* The callback's acknowledgement failed, and the process reconnects.
LEMMA ReconnectPreserves ==
    ASSUME IInv, NEW c \in Consumers, SettleFails(c), Reconnects(c)
    PROVE  IInv'
<1>1. /\ stage[c] \in {"acking", "rejecting", "skipping"} /\ place[atHand[c]] # c
      /\ stage' = [stage EXCEPT ![c] = "connecting"]
      /\ atHand' = [atHand EXCEPT ![c] = NoCopy]
      /\ UNCHANGED <<place, cache, processed, faults>>
    BY DEF SettleFails, Reconnects
<1>2. /\ \A d \in Consumers : d # c => stage'[d] = stage[d] /\ atHand'[d] = atHand[d]
      /\ stage'[c] = "connecting" /\ atHand'[c] = NoCopy
    BY <1>1 DEF IInv, TypeOK
<1>3. \A k \in Copies : place[k] # c
    BY <1>1 DEF IInv, TypeOK
<1>4. TypeOK'
    BY <1>1, <1>2, <1>3 DEF IInv, TypeOK
<1>5. \A x : Settled(x)' <=> Settled(x)
    BY <1>1 DEF Settled
<1> QED BY <1>1, <1>2, <1>4, <1>5 DEF IInv, TakenIsProcessed, MarkedIsProcessed,
           AfterHandling

\* The connection is lost.
LEMMA LosePreserves ==
    ASSUME IInv, NEW c \in Consumers, LoseConnection(c)
    PROVE  IInv'
<1>1. /\ place' = [k \in Copies |-> IF place[k] = c THEN "ready" ELSE place[k]]
      /\ stage' = [stage EXCEPT ![c] = IF @ = "waiting" THEN "connecting" ELSE @]
      /\ UNCHANGED <<atHand, cache, processed>>
      /\ faults' \in 0..MaxFaults
    BY BoundsAreNaturals DEF LoseConnection, UseFault, IInv, TypeOK
<1>2. /\ \A d \in Consumers :
          \/ stage'[d] = stage[d]
          \/ stage[d] = "waiting" /\ stage'[d] = "connecting"
      /\ stage' \in [Consumers -> Stages \cup Callback]
    BY <1>1 DEF IInv, TypeOK
<1>3. \A k \in Copies : place'[k] = place[k] \/ place'[k] = "ready"
    BY <1>1
<1>4. TypeOK'
    <2>1. place' \in [Copies -> {"unsent", "ready", "gone"} \cup Consumers]
        BY <1>1 DEF IInv, TypeOK
    <2>2. \A k \in Copies, d \in Consumers : place'[k] = d => atHand'[d] = k
        BY <1>1, <1>3, PlacesAreDistinct DEF IInv, TypeOK
    <2> QED BY <1>1, <1>2, <2>1, <2>2 DEF IInv, TypeOK
<1>5. \A x : Settled(x)' <=> Settled(x)
    BY <1>1 DEF Settled
<1> QED BY <1>1, <1>2, <1>3, <1>4, <1>5 DEF IInv, TakenIsProcessed, MarkedIsProcessed,
           AfterHandling

\* A process starts or connects, or a message is published.
LEMMA ArrivalsPreserve ==
    ASSUME IInv,
           \/ \E c \in Consumers : Start(c) \/ Connect(c)
           \/ \E k \in Copies : Publish(k)
    PROVE  IInv'
<1>1. UNCHANGED <<atHand, cache, processed, faults>>
    BY DEF Start, Connect, Publish
<1>2. \A x : Settled(x)' <=> Settled(x)
    BY <1>1 DEF Settled
<1>3. ASSUME NEW c \in Consumers, Start(c) \/ Connect(c) PROVE IInv'
    <2>1. /\ place' = place /\ stage[c] \notin Callback
          /\ \E s \in {"connecting", "waiting"} : stage' = [stage EXCEPT ![c] = s]
        BY <1>3 DEF Start, Connect
    <2>2. /\ stage' \in [Consumers -> Stages \cup Callback]
          /\ stage'[c] \in {"connecting", "waiting"}
          /\ \A d \in Consumers : d # c => stage'[d] = stage[d]
        BY <2>1 DEF IInv, TypeOK
    <2>3. TypeOK'
        BY <1>1, <2>1, <2>2 DEF IInv, TypeOK
    <2> QED BY <1>1, <1>2, <2>1, <2>2, <2>3 DEF IInv, TakenIsProcessed,
               MarkedIsProcessed, AfterHandling
<1>4. ASSUME NEW k \in Copies, Publish(k) PROVE IInv'
    <2>1. place' = [place EXCEPT ![k] = "ready"] /\ stage' = stage
        BY <1>4 DEF Publish
    <2>2. \A j \in Copies : place'[j] = place[j] \/ place'[j] = "ready"
        BY <2>1 DEF IInv, TypeOK
    <2>3. TypeOK'
        <3>1. \A j \in Copies, d \in Consumers : place'[j] = d => atHand[d] = j
            BY <2>2, PlacesAreDistinct DEF IInv, TypeOK
        <3> QED BY <1>1, <2>1, <3>1 DEF IInv, TypeOK
    <2> QED BY <1>1, <1>2, <2>1, <2>2, <2>3 DEF IInv, TakenIsProcessed,
               MarkedIsProcessed, AfterHandling
<1> QED BY <1>3, <1>4
-----------------------------------------------------------------------------
(***************************************************************************)
(* The invariant                                                           *)
(***************************************************************************)

LEMMA InitIInv == ASSUME Init PROVE IInv
BY PlacesAreDistinct, BoundsAreNaturals
DEF Init, IInv, TypeOK, TakenIsProcessed, MarkedIsProcessed, AfterHandling

LEMMA NextIInv == ASSUME IInv, [Next]_vars PROVE IInv'
<1>1. CASE UNCHANGED vars
    BY <1>1 DEF vars, IInv, TypeOK, TakenIsProcessed, MarkedIsProcessed, AfterHandling,
       Settled
<1>2. ASSUME NEW c \in Consumers, Run(c) PROVE IInv'
    <2>1. CASE SettleFails(c)
        <3>1. CASE Reconnects(c)
            BY <2>1, <3>1, ReconnectPreserves
        <3>2. CASE Stop(c)
            <4>1. faults' \in 0..MaxFaults
                BY <2>1 DEF SettleFails, IInv, TypeOK
            <4> QED BY <3>2, <4>1, StopPreserves
        <3> QED BY <2>1, <3>1, <3>2 DEF SettleFails
    <2> QED BY <1>2, <2>1, HandlingPreserves, SettlePreserves, ArrivalsPreserve DEF Run
<1>3. ASSUME NEW c \in Consumers, Crash(c) PROVE IInv'
    <2>1. Stop(c) /\ faults' \in 0..MaxFaults
        BY <1>3, BoundsAreNaturals DEF Crash, UseFault, IInv, TypeOK
    <2> QED BY <2>1, StopPreserves
<1> QED BY <1>1, <1>2, <1>3, DeliverPreserves, LosePreserves, ArrivalsPreserve DEF Next

\* The inductive invariant holds in every reachable state.
THEOREM Invariance == Spec => []IInv
<1>1. Init => IInv
    BY InitIInv
<1>2. IInv /\ [Next]_vars => IInv'
    BY NextIInv
<1> QED BY <1>1, <1>2, PTL DEF Spec

\* What the broker has with a consumer is what the consumer's callback is at.
THEOREM TypeCorrectness == Spec => []TypeOK
<1>1. IInv => TypeOK
    BY DEF IInv
<1> QED BY <1>1, Invariance, PTL

\* No copy leaves the queue before its message was processed, unless it cannot
\* be read.
THEOREM NothingIsTakenTooEarly == Spec => []TakenIsProcessed
<1>1. IInv => TakenIsProcessed
    BY DEF IInv
<1> QED BY <1>1, Invariance, PTL
-----------------------------------------------------------------------------
(***************************************************************************)
(* The refinement                                                          *)
(***************************************************************************)

\* A callback is at a copy that was published, whoever has it by now.
AtHandWasSent ==
    \A c \in Consumers : atHand[c] # NoCopy => place[atHand[c]] # "unsent"

\* What was published stays so, and what comes to hand was ready.
LEMMA SentStaysSent ==
    ASSUME TypeOK, [Next]_vars
    PROVE  /\ \A k \in Copies : place[k] # "unsent" => place'[k] # "unsent"
           /\ \A c \in Consumers :
                 \/ atHand'[c] \in {NoCopy, atHand[c]}
                 \/ atHand'[c] \in Copies /\ place[atHand'[c]] = "ready"
<1>1. CASE UNCHANGED vars
    BY <1>1 DEF vars
<1>2. ASSUME NEW c \in Consumers, NEW k \in Copies, Deliver(c, k)
      PROVE  /\ place' = [place EXCEPT ![k] = c] /\ place[k] = "ready"
             /\ atHand' = [atHand EXCEPT ![c] = k]
    BY <1>2 DEF Deliver
<1>3. ASSUME NEW c \in Consumers, Settle(c)
      PROVE  /\ place' = [place EXCEPT ![atHand[c]] = "gone"]
             /\ atHand' = [atHand EXCEPT ![c] = NoCopy]
    BY <1>3 DEF Settle, AfterReject
<1>4. ASSUME NEW c \in Consumers, Stop(c) \/ LoseConnection(c)
      PROVE  /\ place' = [k \in Copies |-> IF place[k] = c THEN "ready" ELSE place[k]]
             /\ atHand' \in {atHand, [atHand EXCEPT ![c] = NoCopy]}
    BY <1>4 DEF Stop, LoseConnection
<1>5. ASSUME NEW c \in Consumers, Reconnects(c)
      PROVE  place' = place /\ atHand' = [atHand EXCEPT ![c] = NoCopy]
    BY <1>5 DEF Reconnects
<1>6. ASSUME NEW k \in Copies, Publish(k)
      PROVE  place' = [place EXCEPT ![k] = "ready"] /\ atHand' = atHand
    BY <1>6 DEF Publish
<1>7. ASSUME NEW c \in Consumers,
             Process(c) \/ ProcessFails(c) \/ Start(c) \/ Connect(c)
      PROVE  place' = place /\ atHand' = atHand
    BY <1>7 DEF Process, ProcessFails, Start, Connect
<1>8. \A c \in Consumers, k \in Copies : Deliver(c, k) =>
          /\ \A j \in Copies : place[j] # "unsent" => place'[j] # "unsent"
          /\ \A d \in Consumers :
                \/ atHand'[d] \in {NoCopy, atHand[d]}
                \/ atHand'[d] \in Copies /\ place[atHand'[d]] = "ready"
    BY <1>2, PlacesAreDistinct DEF TypeOK
<1> QED BY <1>1, <1>3, <1>4, <1>5, <1>6, <1>7, <1>8, PlacesAreDistinct
        DEF Next, Run, SettleFails, Crash, TypeOK

THEOREM AtHandInvariance == Spec => []AtHandWasSent
<1>1. Init => AtHandWasSent
    BY DEF Init, AtHandWasSent
<1>2. TypeOK /\ AtHandWasSent /\ [Next]_vars => AtHandWasSent'
    <2> SUFFICES ASSUME TypeOK, AtHandWasSent, [Next]_vars,
                        NEW c \in Consumers, atHand'[c] # NoCopy
                 PROVE  place'[atHand'[c]] # "unsent"
        BY DEF AtHandWasSent
    <2>1. CASE atHand'[c] = atHand[c]
        BY <2>1, SentStaysSent DEF TypeOK, AtHandWasSent
    <2>2. CASE atHand'[c] \in Copies /\ place[atHand'[c]] = "ready"
        BY <2>2, SentStaysSent
    <2> QED BY <2>1, <2>2, SentStaysSent
<1> QED BY <1>1, <1>2, TypeCorrectness, PTL DEF Spec

\* A step that neither publishes nor settles nor processes is invisible.
LEMMA QuietSteps ==
    ASSUME processed' = processed,
           \A k \in Copies : /\ place'[k] = "unsent" <=> place[k] = "unsent"
                             /\ place'[k] = "gone" <=> place[k] = "gone"
    PROVE  UNCHANGED Delivery!vars
<1>1. Offered' = Offered /\ Taken' = Taken
    BY DEF Offered, Taken, Carried
<1> QED BY <1>1 DEF Delivery!vars

LEMMA PublishingOffers ==
    ASSUME TypeOK, NEW k \in Copies, Publish(k)
    PROVE  Delivery!Next
<1>1. /\ place[k] = "unsent" /\ place'[k] = "ready" /\ processed' = processed
      /\ \A j \in Copies : j # k => place'[j] = place[j]
    BY DEF TypeOK, Publish
<1>2. Offered' = Offered \cup {Carried(k)} /\ Taken' = Taken
    BY <1>1 DEF Offered, Taken
<1>3. \A d \in Offered : d[1] # k
    BY <1>1 DEF Offered, Carried
<1>4. k.message \in Messages
    BY DEF Copies
<1>5. Delivery!Offer(k, k.message)
    BY <1>1, <1>2, <1>3 DEF Delivery!Offer, Carried
<1> QED BY <1>4, <1>5 DEF Delivery!Next

LEMMA ProcessingProcesses ==
    ASSUME TypeOK, AtHandWasSent, NEW c \in Consumers, Process(c)
    PROVE  Delivery!Next
<1>1. atHand[c] \in Copies /\ atHand[c].message \in Messages /\ atHand[c] # NoCopy
    BY AtHandIsCopy, PlacesAreDistinct DEF Process
<1>2. /\ place' = place /\ atHand[c].message \notin Malformed
      /\ processed' = processed \cup {atHand[c].message}
    BY DEF Process, Parses
<1>3. Offered' = Offered /\ Taken' = Taken
    BY <1>2 DEF Offered, Taken
<1>4. Carried(atHand[c]) \in Offered
    BY <1>1 DEF AtHandWasSent, Offered
<1>5. \E d \in Offered : d[2] = atHand[c].message
    BY <1>4 DEF Carried
<1>6. Delivery!Process(atHand[c].message)
    BY <1>2, <1>3, <1>5 DEF Delivery!Process
<1> QED BY <1>1, <1>6 DEF Delivery!Next

LEMMA SettlingTakes ==
    ASSUME IInv, NEW c \in Consumers, Settle(c)
    PROVE  Delivery!Next
<1>1. PICK k \in Copies : k = atHand[c]
    BY AtHandIsCopy DEF IInv, Settle
<1>2. /\ place[k] = c /\ place'[k] = "gone" /\ processed' = processed
      /\ \A j \in Copies : j # k => place'[j] = place[j]
    BY <1>1 DEF IInv, TypeOK, Settle, AfterReject
<1>3. place[k] # "unsent"
    BY <1>2, PlacesAreDistinct
<1>4. Offered' = Offered
    BY <1>2, <1>3 DEF Offered
<1>5. Taken' = Taken \cup {Carried(k)}
    BY <1>2 DEF Taken
<1>6. Carried(k) \in Offered
    BY <1>3 DEF Offered
<1>7. k.message \in processed \cup Malformed
    BY <1>1 DEF IInv, AfterHandling, Settle, Settled
<1>8. Delivery!Take({Carried(k)})
    BY <1>2, <1>4, <1>5, <1>7 DEF Delivery!Take, Carried
<1> QED BY <1>6, <1>8 DEF Delivery!Next

LEMMA NextRefines ==
    ASSUME IInv, AtHandWasSent, [Next]_vars
    PROVE  [Delivery!Next]_(Delivery!vars)
<1>1. CASE UNCHANGED <<place, processed>>
    BY <1>1, QuietSteps
<1>2. ASSUME NEW c \in Consumers, Stop(c) \/ LoseConnection(c)
      PROVE  [Delivery!Next]_(Delivery!vars)
    <2>1. /\ place' = [k \in Copies |-> IF place[k] = c THEN "ready" ELSE place[k]]
          /\ processed' = processed
        BY <1>2 DEF Stop, LoseConnection
    <2> QED BY <2>1, QuietSteps, PlacesAreDistinct
<1>3. ASSUME NEW c \in Consumers, NEW k \in Copies, Deliver(c, k)
      PROVE  [Delivery!Next]_(Delivery!vars)
    <2>1. /\ place[k] = "ready" /\ place' = [place EXCEPT ![k] = c]
          /\ processed' = processed
        BY <1>3 DEF Deliver
    <2> QED BY <2>1, QuietSteps, PlacesAreDistinct DEF IInv, TypeOK
<1>4. ASSUME NEW c \in Consumers, Run(c) PROVE [Delivery!Next]_(Delivery!vars)
    <2>1. CASE ProcessFails(c) \/ Start(c) \/ Connect(c)
        BY <1>1, <2>1 DEF ProcessFails, Start, Connect
    <2>2. CASE SettleFails(c)
        BY <1>1, <1>2, <2>2 DEF SettleFails, Reconnects
    <2> QED BY <1>4, <2>1, <2>2, ProcessingProcesses, SettlingTakes DEF Run, IInv
<1>5. CASE UNCHANGED vars
    BY <1>1, <1>5 DEF vars
<1> QED BY <1>2, <1>3, <1>4, <1>5, PublishingOffers DEF Next, Crash, IInv

\* The consumers of the queue implement delivery at least once: what leaves the
\* queue was processed or cannot be, and none of it comes back.
THEOREM Refinement == Spec => ImplementsAtLeastOnce
<1>1. Init => Delivery!Init
    BY DEF Init, Delivery!Init, Offered, Taken
<1>2. IInv /\ AtHandWasSent /\ [Next]_vars => [Delivery!Next]_(Delivery!vars)
    BY NextRefines
<1> QED BY <1>1, <1>2, Invariance, AtHandInvariance, PTL
        DEF Spec, ImplementsAtLeastOnce, Delivery!Spec
=============================================================================
