------------------------ MODULE KafkaConsumerProofs -------------------------
(***************************************************************************)
(* Proofs about the Kafka consumers, for any messages, partitions,          *)
(* consumers, cache size and faults.                                        *)
(*                                                                         *)
(* The argument: the owner of a partition polls its offsets in order and    *)
(* one at a time, so that all it has polled is settled but for the message  *)
(* it is handling (OwnerHasHandled); a commit names the offset it polled    *)
(* last (AtHandIsLastPolled) after that message was settled (AfterHandling),*)
(* and that is no earlier than the group's (CommittedIsPolled).  So every   *)
(* commit takes copies whose messages are settled, and gives none back: the *)
(* consumers implement AtLeastOnce.                                         *)
(***************************************************************************)
EXTENDS KafkaConsumer, TLAPS

CurrentIsInLog ==
    \A c \in Consumers : current[c] # Nothing =>
        current[c].offset <= Len(log[current[c].partition])

\* A message that is to be committed is settled.
AfterHandling ==
    \A c \in Consumers : At(c, "handled") \/ At(c, "skipping") =>
        Settled(MessageOf(c))

\* What the owner of a partition has polled is settled, but for the message it
\* is handling.
OwnerHasHandled ==
    \A p \in Partitions, c \in Consumers : owner[p] = c =>
        /\ position[p] <= Len(log[p])
        /\ \A i \in 1..position[p] :
              \/ Settled(log[p][i])
              \/ At(c, "handling") /\ current[c].partition = p /\ current[c].offset = i

\* What an owner has at hand is what it polled last.
AtHandIsLastPolled ==
    \A p \in Partitions, c \in Consumers :
        owner[p] = c /\ current[c] # Nothing /\ current[c].partition = p =>
            current[c].offset = position[p]

\* An owner polls on from where the group's offset is.
CommittedIsPolled ==
    \A p \in Partitions : owner[p] # NoOne => committed[p] <= position[p]

IInv == /\ TypeOK
        /\ NothingLost
        /\ MarkedIsHandled
        /\ CurrentIsInLog
        /\ AfterHandling
        /\ OwnerHasHandled
        /\ AtHandIsLastPolled
        /\ CommittedIsPolled

USE DEF Stages
-----------------------------------------------------------------------------
\* What is settled stays settled.
LEMMA SettledStays ==
    ASSUME NEW m, Settled(m), dispatched \subseteq dispatched'
    PROVE  Settled(m)'
BY DEF Settled

\* The message at an offset that the log has stays there.
LEMMA ArriveKeeps ==
    ASSUME TypeOK, NEW p \in Partitions, NEW m \in Messages, Arrive(p, m),
           NEW q \in Partitions
    PROVE  /\ log'[q] \in Seq(Messages)
           /\ Len(log[q]) <= Len(log'[q]) /\ Len(log'[q]) <= MaxLength
           /\ \A i \in 1..Len(log[q]) : log'[q][i] = log[q][i]
<1>1. log[q] \in Seq(Messages) /\ Len(log[q]) <= MaxLength
    BY DEF TypeOK
<1>2. CASE q = p
    <2>1. log'[q] = Append(log[q], m) /\ Len(log[q]) < MaxLength
        BY <1>2 DEF TypeOK, Arrive
    <2>2. Len(log'[q]) = Len(log[q]) + 1
        BY <1>1, <2>1
    <2> QED BY <1>1, <2>1, <2>2, BoundsAreNaturals
<1>3. CASE q # p
    <2>1. log'[q] = log[q]
        BY <1>3 DEF TypeOK, Arrive
    <2> QED BY <1>1, <2>1
<1> QED BY <1>2, <1>3

\* A message arrives.
LEMMA ArrivePreserves ==
    ASSUME IInv, NEW p \in Partitions, NEW m \in Messages, Arrive(p, m)
    PROVE  IInv'
<1>1. /\ UNCHANGED <<committed, owner, position, alive, cache, current,
                     dispatched, faults>>
      /\ TypeOK
    BY DEF IInv, Arrive
<1>2. \A q \in Partitions :
          /\ log'[q] \in Seq(Messages)
          /\ Len(log[q]) <= Len(log'[q]) /\ Len(log'[q]) <= MaxLength
          /\ \A i \in 1..Len(log[q]) : log'[q][i] = log[q][i]
    BY <1>1, ArriveKeeps
<1>3. \A q \in Partitions : Len(log[q]) \in Nat /\ Len(log'[q]) \in Nat
    BY <1>1, <1>2 DEF TypeOK
<1>4. TypeOK'
    <2>1. log' \in [Partitions -> Seq(Messages)]
        BY <1>1, <1>2 DEF TypeOK, Arrive
    <2> QED BY <1>1, <1>2, <2>1 DEF TypeOK
<1>5. ASSUME NEW c \in Consumers, current[c] # Nothing
      PROVE  /\ MessageOf(c)' = MessageOf(c)
             /\ current[c].offset <= Len(log'[current[c].partition])
    <2>1. current[c] \in Current
        BY <1>1, <1>5 DEF TypeOK
    <2>2. /\ current[c].partition \in Partitions
          /\ current[c].offset \in 1..Len(log[current[c].partition])
        BY <1>3, <1>5, <2>1, BoundsAreNaturals DEF IInv, CurrentIsInLog, Current
    <2> QED BY <1>1, <1>2, <1>3, <2>2 DEF MessageOf
<1>6. \A x : Settled(x)' <=> Settled(x)
    BY <1>1 DEF Settled
<1>7. NothingLost'
    <2> SUFFICES ASSUME NEW q \in Partitions, NEW i \in 1..committed[q]
                 PROVE  i <= Len(log'[q]) /\ Settled(log'[q][i])
        BY <1>1, <1>6 DEF NothingLost
    <2>1. i <= Len(log[q]) /\ Settled(log[q][i])
        BY DEF IInv, NothingLost
    <2>2. i \in 1..Len(log[q])
        BY <1>1, <1>3, <2>1 DEF TypeOK
    <2> QED BY <1>2, <1>3, <2>1, <2>2
<1>8. MarkedIsHandled'
    BY <1>1, <1>5, <1>6 DEF IInv, MarkedIsHandled, At
<1>9. CurrentIsInLog' /\ AfterHandling'
    BY <1>1, <1>5, <1>6 DEF CurrentIsInLog, AfterHandling, At, IInv
<1>10. OwnerHasHandled'
    <2> SUFFICES ASSUME NEW q \in Partitions, NEW c \in Consumers, owner[q] = c
                 PROVE  /\ position[q] <= Len(log'[q])
                        /\ \A i \in 1..position[q] :
                              \/ Settled(log'[q][i])
                              \/ /\ At(c, "handling") /\ current[c].partition = q
                                 /\ current[c].offset = i
        BY <1>1, <1>6 DEF OwnerHasHandled, At
    <2>1. position[q] <= Len(log[q]) /\ position[q] \in Nat
        BY <1>1 DEF IInv, OwnerHasHandled, TypeOK
    <2>2. \A i \in 1..position[q] : log'[q][i] = log[q][i]
        BY <1>2, <1>3, <2>1
    <2> QED BY <1>2, <1>3, <2>1, <2>2 DEF IInv, OwnerHasHandled
<1>11. AtHandIsLastPolled' /\ CommittedIsPolled'
    BY <1>1 DEF IInv, AtHandIsLastPolled, CommittedIsPolled
<1> QED BY <1>4, <1>7, <1>8, <1>9, <1>10, <1>11 DEF IInv

\* A process ends.
LEMMA StopPreserves ==
    ASSUME IInv, NEW c \in Consumers, Stop(c), faults' \in 0..MaxFaults
    PROVE  IInv'
<1>1. /\ UNCHANGED <<log, committed, position, dispatched>>
      /\ owner' \in [Partitions -> Consumers \cup {NoOne}]
      /\ \A p \in Partitions : owner'[p] # NoOne => owner'[p] = owner[p] /\ owner'[p] # c
      /\ cache' = [cache EXCEPT ![c] = {}]
      /\ current' = [current EXCEPT ![c] = Nothing]
    BY DEF IInv, TypeOK, Stop, FreshCache
<1>2. TypeOK'
    BY <1>1 DEF IInv, TypeOK, Stop
<1>3. \A d \in Consumers : d # c => current'[d] = current[d] /\ cache'[d] = cache[d]
    BY <1>1 DEF IInv, TypeOK
<1>4. current'[c] = Nothing /\ cache'[c] = {}
    BY <1>1 DEF IInv, TypeOK
<1>5. NothingLost'
    BY <1>1 DEF IInv, NothingLost, Settled
<1>6. MarkedIsHandled' /\ CurrentIsInLog' /\ AfterHandling'
    BY <1>1, <1>3, <1>4 DEF IInv, MarkedIsHandled, CurrentIsInLog, AfterHandling, At,
       MessageOf, Settled
<1>7. OwnerHasHandled' /\ AtHandIsLastPolled' /\ CommittedIsPolled'
    BY <1>1, <1>3, EmptyValuesAreDistinct
    DEF IInv, OwnerHasHandled, AtHandIsLastPolled, CommittedIsPolled, At, Settled
<1> QED BY <1>2, <1>5, <1>6, <1>7 DEF IInv

\* The consumer polls a message.
LEMMA PollPreserves ==
    ASSUME IInv, NEW c \in Consumers, NEW p \in Partitions, Poll(c, p)
    PROVE  IInv'
<1> DEFINE offset == position[p] + 1
           m == log[p][offset]
           stage == IF IsDuplicate(c, m) THEN "skipping" ELSE "handling"
           cur == [partition |-> p, offset |-> offset, stage |-> stage]
<1>1. PICK marked \in Marked(c, m) :
          /\ cache' = [cache EXCEPT ![c] = marked]
          /\ position' = [position EXCEPT ![p] = offset]
          /\ current' = [current EXCEPT ![c] = cur]
    BY DEF Poll
<1>2. /\ UNCHANGED <<log, committed, owner, alive, dispatched, faults>>
      /\ current[c] = Nothing /\ owner[p] = c /\ position[p] < Len(log[p])
    BY DEF Poll
<1>3. /\ position[p] \in Nat /\ Len(log[p]) \in Nat /\ Len(log[p]) <= MaxLength
      /\ log[p] \in Seq(Messages)
    BY DEF IInv, TypeOK
<1>4. offset \in 1..Len(log[p]) /\ m \in Messages /\ offset \in 1..MaxLength
    BY <1>2, <1>3, BoundsAreNaturals
<1>5. cur \in Current /\ cur # Nothing
    BY <1>4, EmptyValuesAreDistinct DEF Current
<1>6. marked \subseteq cache[c] \cup {m}
    BY DEF Marked
<1>7. TypeOK'
    <2>1. marked \subseteq Messages
        BY <1>4, <1>6 DEF IInv, TypeOK
    <2> QED BY <1>1, <1>2, <1>4, <1>5, <2>1, BoundsAreNaturals DEF IInv, TypeOK
<1>8. \A d \in Consumers : d # c => current'[d] = current[d] /\ cache'[d] = cache[d]
    BY <1>1 DEF IInv, TypeOK
<1>9. current'[c] = cur /\ cache'[c] = marked
    BY <1>1 DEF IInv, TypeOK
<1>10. position'[p] = offset /\ \A q \in Partitions : q # p => position'[q] = position[q]
    BY <1>1 DEF IInv, TypeOK
<1>11. \A x : Settled(x)' <=> Settled(x)
    BY <1>2 DEF Settled
<1>12. \A x \in cache[c] : Settled(x)
    BY <1>2 DEF IInv, MarkedIsHandled, At
<1>13. MessageOf(c)' = m
    BY <1>2, <1>9 DEF MessageOf
<1>14. NothingLost'
    BY <1>2, <1>11 DEF IInv, NothingLost
<1>15. MarkedIsHandled'
    <2> SUFFICES ASSUME NEW d \in Consumers, NEW x \in cache'[d]
                 PROVE  Settled(x) \/ (At(d, "handling") /\ MessageOf(d) = x)'
        BY <1>11 DEF MarkedIsHandled
    <2>1. CASE d # c
        BY <1>2, <1>8, <2>1 DEF IInv, MarkedIsHandled, At, MessageOf
    <2>2. CASE d = c /\ x \in cache[c]
        BY <1>12, <2>2
    <2>3. CASE d = c /\ x \notin cache[c]
        <3>1. x = m
            BY <1>6, <1>9, <2>3
        <3>2. stage = "handling"
            BY <2>3, <3>1 DEF IsDuplicate
        <3> QED BY <1>5, <1>9, <1>13, <2>3, <3>1, <3>2 DEF At
    <2> QED BY <2>1, <2>2, <2>3
<1>16. CurrentIsInLog'
    BY <1>2, <1>4, <1>8, <1>9 DEF IInv, CurrentIsInLog
<1>17. AfterHandling'
    <2> SUFFICES ASSUME NEW d \in Consumers, At(d, "handled")' \/ At(d, "skipping")'
                 PROVE  Settled(MessageOf(d)')
        BY <1>11 DEF AfterHandling
    <2>1. CASE d # c
        BY <1>2, <1>8, <2>1 DEF IInv, AfterHandling, At, MessageOf
    <2>2. CASE d = c
        <3>1. IsDuplicate(c, m)
            BY <1>9, <2>2 DEF At
        <3> QED BY <1>12, <1>13, <2>2, <3>1 DEF IsDuplicate
    <2> QED BY <2>1, <2>2
<1>18. OwnerHasHandled'
    <2> SUFFICES ASSUME NEW q \in Partitions, NEW d \in Consumers, owner[q] = d
                 PROVE  /\ position'[q] <= Len(log[q])
                        /\ \A i \in 1..position'[q] :
                              \/ Settled(log[q][i])
                              \/ /\ At(d, "handling")' /\ current'[d].partition = q
                                 /\ current'[d].offset = i
        BY <1>2, <1>11 DEF OwnerHasHandled
    <2>1. CASE q # p
        <3>1. position'[q] = position[q]
            BY <1>10, <2>1
        <3>2. d = c => ~At(d, "handling")
            BY <1>2 DEF At
        <3>3. d # c => current'[d] = current[d]
            BY <1>8
        <3> QED BY <3>1, <3>2, <3>3 DEF IInv, OwnerHasHandled, At
    <2>2. CASE q = p
        <3>1. d = c
            BY <1>2, <2>2
        <3>2. \A i \in 1..position[p] : Settled(log[p][i])
            BY <1>2 DEF IInv, OwnerHasHandled, At
        <3>3. Settled(m) \/ (At(c, "handling")' /\ current'[c].partition = p
                                /\ current'[c].offset = offset)
            <4>1. CASE IsDuplicate(c, m)
                BY <1>12, <4>1 DEF IsDuplicate
            <4>2. CASE ~IsDuplicate(c, m)
                BY <1>5, <1>9, <4>2 DEF At
            <4> QED BY <4>1, <4>2
        <3>4. \A i \in 1..offset : i \in 1..position[p] \/ i = offset
            BY <1>3
        <3> QED BY <1>3, <1>4, <1>10, <2>2, <3>1, <3>2, <3>3, <3>4
    <2> QED BY <2>1, <2>2
<1>19. AtHandIsLastPolled'
    <2> SUFFICES ASSUME NEW q \in Partitions, NEW d \in Consumers, owner[q] = d,
                        current'[d] # Nothing, current'[d].partition = q
                 PROVE  current'[d].offset = position'[q]
        BY <1>2 DEF AtHandIsLastPolled
    <2>1. CASE d = c
        BY <1>3, <1>9, <1>10, <2>1
    <2>2. CASE d # c
        <3>1. q # p /\ current'[d] = current[d]
            BY <1>2, <1>8, <2>2
        <3> QED BY <1>10, <3>1 DEF IInv, AtHandIsLastPolled
    <2> QED BY <2>1, <2>2
<1>20. CommittedIsPolled'
    <2>1. \A q \in Partitions : committed[q] \in Nat /\ position[q] \in Nat
        BY DEF IInv, TypeOK
    <2> QED BY <1>2, <1>10, <2>1 DEF IInv, CommittedIsPolled
<1> QED BY <1>7, <1>14, <1>15, <1>16, <1>17, <1>18, <1>19, <1>20 DEF IInv

\* A message is processed.
LEMMA ProcessPreserves ==
    ASSUME IInv, NEW c \in Consumers, Process(c)
    PROVE  IInv'
<1> DEFINE Done == dispatched' \cup Malformed \cup Unknown
<1>0. PICK m : m = MessageOf(c)
    OBVIOUS
<1>1. /\ UNCHANGED <<log, committed, owner, position, alive, cache, faults>>
      /\ current' = [current EXCEPT ![c].stage = "handled"]
      /\ current[c] # Nothing /\ current[c].stage = "handling"
    BY DEF Process, broker, At
<1>2. current[c] \in Current /\ current[c].offset <= Len(log[current[c].partition])
    BY <1>1 DEF IInv, TypeOK, CurrentIsInLog
<1>3. m \in Messages
    <2>1. /\ current[c].partition \in Partitions
          /\ current[c].offset \in 1..Len(log[current[c].partition])
        BY <1>2, BoundsAreNaturals DEF IInv, TypeOK, Current
    <2>2. log[current[c].partition] \in Seq(Messages)
        BY <2>1 DEF IInv, TypeOK
    <2> QED BY <1>0, <2>1, <2>2 DEF MessageOf
<1>4. /\ m \in Done
      /\ dispatched \subseteq dispatched' /\ dispatched' \subseteq Messages
    BY <1>0, <1>3 DEF Process, HasDispatcher, IsEvent, Publish, Settled, IInv, TypeOK
<1>5. \A x : /\ Settled(x) => x \in Done
             /\ Settled(x)' <=> x \in Done
    BY <1>4 DEF Settled
<1>6. /\ current'[c] \in Current /\ current'[c] # Nothing
      /\ current'[c].stage = "handled"
      /\ current'[c].partition = current[c].partition
      /\ current'[c].offset = current[c].offset
    BY <1>1, <1>2, EmptyValuesAreDistinct DEF IInv, TypeOK, Current
<1>7. \A d \in Consumers : d # c => current'[d] = current[d]
    BY <1>1 DEF IInv, TypeOK
<1>8. TypeOK'
    <2>1. current' \in [Consumers -> Current \cup {Nothing}]
        BY <1>1, <1>6, <1>7 DEF IInv, TypeOK
    <2> QED BY <1>1, <1>4, <2>1 DEF IInv, TypeOK
<1>9. MessageOf(c)' = m
    BY <1>0, <1>1, <1>6 DEF MessageOf
<1>10. NothingLost'
    BY <1>1, <1>5 DEF IInv, NothingLost
<1>11. MarkedIsHandled'
    <2> SUFFICES ASSUME NEW d \in Consumers, NEW x \in cache[d], ~Settled(x)'
                 PROVE  (At(d, "handling") /\ MessageOf(d) = x)'
        BY <1>1 DEF MarkedIsHandled
    <2>1. At(d, "handling") /\ MessageOf(d) = x
        BY <1>5 DEF IInv, MarkedIsHandled
    <2>2. d # c
        BY <1>0, <1>4, <1>5, <2>1
    <2> QED BY <1>1, <1>7, <2>1, <2>2 DEF At, MessageOf
<1>12. CurrentIsInLog'
    BY <1>1, <1>2, <1>6, <1>7 DEF IInv, CurrentIsInLog
<1>13. AfterHandling'
    <2> SUFFICES ASSUME NEW d \in Consumers, At(d, "handled")' \/ At(d, "skipping")'
                 PROVE  Settled(MessageOf(d))'
        BY DEF AfterHandling
    <2>1. CASE d = c
        BY <1>4, <1>9, <2>1 DEF Settled
    <2>2. CASE d # c
        <3>1. MessageOf(d)' = MessageOf(d) /\ Settled(MessageOf(d))
            BY <1>1, <1>7, <2>2 DEF IInv, AfterHandling, At, MessageOf
        <3> QED BY <1>4, <3>1 DEF Settled
    <2> QED BY <2>1, <2>2
<1>14. OwnerHasHandled'
    <2> SUFFICES ASSUME NEW q \in Partitions, NEW d \in Consumers, owner[q] = d
                 PROVE  /\ position[q] <= Len(log[q])
                        /\ \A i \in 1..position[q] :
                              \/ log[q][i] \in Done
                              \/ /\ At(d, "handling")' /\ current'[d].partition = q
                                 /\ current'[d].offset = i
        BY <1>1 DEF OwnerHasHandled, Settled
    <2>1. CASE d # c
        BY <1>5, <1>7, <2>1 DEF IInv, OwnerHasHandled, At
    <2>2. CASE d = c
        <3>1. SUFFICES ASSUME NEW i \in 1..position[q] PROVE log[q][i] \in Done
            BY <2>2 DEF IInv, OwnerHasHandled, TypeOK
        <3>2. CASE Settled(log[q][i])
            BY <1>5, <3>2
        <3>3. CASE ~Settled(log[q][i])
            <4>1. current[c].partition = q /\ current[c].offset = i
                BY <2>2, <3>3 DEF IInv, OwnerHasHandled
            <4>2. log[q][i] = m
                BY <1>0, <4>1 DEF MessageOf
            <4> QED BY <1>4, <4>2
        <3> QED BY <3>2, <3>3
    <2> QED BY <2>1, <2>2
<1>15. AtHandIsLastPolled' /\ CommittedIsPolled'
    BY <1>1, <1>6, <1>7 DEF IInv, AtHandIsLastPolled, CommittedIsPolled
<1> QED BY <1>8, <1>10, <1>11, <1>12, <1>13, <1>14, <1>15 DEF IInv

\* A consumer is done with a settled message, having committed it or not.
LEMMA DonePreserves ==
    ASSUME IInv, NEW c \in Consumers, current[c] # Nothing, Settled(MessageOf(c)),
           UNCHANGED <<log, owner, position, alive, cache, dispatched>>,
           current' = [current EXCEPT ![c] = Nothing],
           committed' \in [Partitions -> 0..MaxLength], NothingLost',
           CommittedIsPolled', faults' \in 0..MaxFaults
    PROVE  IInv'
<1>1. TypeOK'
    BY DEF IInv, TypeOK
<1>2. current'[c] = Nothing /\ \A d \in Consumers : d # c => current'[d] = current[d]
    BY DEF IInv, TypeOK
<1>3. \A x : Settled(x)' <=> Settled(x)
    BY DEF Settled
<1>4. MarkedIsHandled'
    <2> SUFFICES ASSUME NEW d \in Consumers, NEW x \in cache[d], ~Settled(x)
                 PROVE  (At(d, "handling") /\ MessageOf(d) = x)'
        BY <1>3 DEF MarkedIsHandled
    <2>1. At(d, "handling") /\ MessageOf(d) = x /\ d # c
        BY DEF IInv, MarkedIsHandled
    <2> QED BY <1>2, <2>1 DEF At, MessageOf
<1>5. CurrentIsInLog' /\ AfterHandling' /\ AtHandIsLastPolled'
    BY <1>2, <1>3 DEF IInv, CurrentIsInLog, AfterHandling, AtHandIsLastPolled, At,
       MessageOf
<1>6. OwnerHasHandled'
    <2> SUFFICES ASSUME NEW q \in Partitions, NEW d \in Consumers, owner[q] = d,
                        NEW i \in 1..position[q], ~Settled(log[q][i])
                 PROVE  /\ At(d, "handling")' /\ current'[d].partition = q
                        /\ current'[d].offset = i
        BY <1>3 DEF IInv, OwnerHasHandled
    <2>1. /\ At(d, "handling") /\ current[d].partition = q /\ current[d].offset = i
        BY DEF IInv, OwnerHasHandled
    <2>2. d # c
        BY <2>1 DEF MessageOf
    <2> QED BY <1>2, <2>1, <2>2 DEF At
<1> QED BY <1>1, <1>4, <1>5, <1>6 DEF IInv

\* A commit covers settled messages only.
LEMMA CommitPreserves ==
    ASSUME IInv, NEW c \in Consumers, Commit(c)
    PROVE  IInv'
<1> DEFINE p == current[c].partition
           offset == current[c].offset
<1>1. /\ UNCHANGED <<log, owner, position, alive, cache, dispatched, faults>>
      /\ current[c] # Nothing /\ ~At(c, "handling") /\ Settled(MessageOf(c))
      /\ owner[p] = c
      /\ current' = [current EXCEPT ![c] = Nothing]
      /\ committed' = [committed EXCEPT ![p] = offset]
    BY DEF IInv, AfterHandling, Commit, At, NewOffset
<1>2. p \in Partitions /\ offset \in 1..MaxLength
    BY <1>1 DEF IInv, TypeOK, Current
<1>3. committed' \in [Partitions -> 0..MaxLength]
    BY <1>1, <1>2 DEF IInv, TypeOK
<1>4. /\ committed'[p] = offset
      /\ \A q \in Partitions : q # p => committed'[q] = committed[q]
    BY <1>1, <1>2 DEF IInv, TypeOK
<1>5. /\ offset = position[p] /\ position[p] <= Len(log[p])
      /\ \A i \in 1..position[p] : Settled(log[p][i])
    BY <1>1, <1>2 DEF IInv, AtHandIsLastPolled, OwnerHasHandled
<1>6. NothingLost'
    <2> SUFFICES ASSUME NEW q \in Partitions, NEW i \in 1..committed'[q]
                 PROVE  i <= Len(log[q]) /\ Settled(log[q][i])
        BY <1>1 DEF NothingLost, Settled
    <2>1. CASE q # p
        BY <1>4, <2>1 DEF IInv, NothingLost
    <2>2. CASE q = p
        <3>1. position[p] \in Nat /\ Len(log[p]) \in Nat
            BY <1>2 DEF IInv, TypeOK
        <3> QED BY <1>2, <1>4, <1>5, <2>2, <3>1, BoundsAreNaturals
    <2> QED BY <2>1, <2>2
<1>7. faults' \in 0..MaxFaults
    BY <1>1 DEF IInv, TypeOK
<1>8. CommittedIsPolled'
    BY <1>1, <1>2, <1>4, <1>5 DEF IInv, CommittedIsPolled, TypeOK
<1> QED BY <1>1, <1>3, <1>6, <1>7, <1>8, DonePreserves

\* A message is left uncommitted: its dispatcher raised, or its commit failed.
LEMMA LeavingPreserves ==
    ASSUME IInv, NEW c \in Consumers, ProcessFails(c) \/ CommitFails(c)
    PROVE  IInv'
<1>1. /\ UNCHANGED <<log, committed, owner, position, alive, cache, dispatched>>
      /\ current[c] # Nothing
      /\ current' = [current EXCEPT ![c] = Nothing]
    BY DEF ProcessFails, CommitFails, broker, At
<1>2. Settled(MessageOf(c))
    BY DEF IInv, AfterHandling, ProcessFails, HasDispatcher, IsEvent, CommitFails, Settled
<1>3. faults' \in 0..MaxFaults
    BY BoundsAreNaturals
    DEF IInv, TypeOK, ProcessFails, CommitFails, CommitRefused, UseFault
<1>4. /\ committed' \in [Partitions -> 0..MaxLength]
      /\ NothingLost' /\ CommittedIsPolled'
    BY <1>1 DEF IInv, TypeOK, NothingLost, CommittedIsPolled, Settled
<1> QED BY <1>1, <1>2, <1>3, <1>4, DonePreserves

\* A process starts, and is given a partition or loses it.
LEMMA GroupPreserves ==
    ASSUME IInv,
           \/ \E c \in Consumers : Start(c)
           \/ \E p \in Partitions, c \in Consumers : Assign(p, c)
           \/ \E p \in Partitions : Revoke(p)
    PROVE  IInv'
<1>1. UNCHANGED <<log, committed, cache, current, dispatched>>
    BY DEF Start, Assign, Revoke, broker
<1>2. \A x : Settled(x)' <=> Settled(x)
    BY <1>1 DEF Settled
<1>3. /\ NothingLost' /\ MarkedIsHandled' /\ CurrentIsInLog' /\ AfterHandling'
    BY <1>1, <1>2 DEF IInv, NothingLost, MarkedIsHandled, CurrentIsInLog, AfterHandling,
       At, MessageOf
<1>4. ASSUME NEW c \in Consumers, Start(c) PROVE IInv'
    <2>1. UNCHANGED <<owner, position>>
        BY <1>4 DEF Start, broker
    <2>2. TypeOK'
        BY <1>1, <1>4, <2>1 DEF IInv, TypeOK, Start
    <2>3. OwnerHasHandled' /\ AtHandIsLastPolled' /\ CommittedIsPolled'
        BY <1>1, <1>2, <2>1
        DEF IInv, OwnerHasHandled, AtHandIsLastPolled, CommittedIsPolled, At
    <2> QED BY <1>3, <2>2, <2>3 DEF IInv
<1>5. ASSUME NEW p \in Partitions, Revoke(p) PROVE IInv'
    <2>1. TypeOK'
        BY <1>1, <1>5, BoundsAreNaturals DEF IInv, TypeOK, Revoke, UseFault
    <2>2. \A q \in Partitions : owner'[q] # NoOne => owner'[q] = owner[q]
        BY <1>5 DEF IInv, TypeOK, Revoke
    <2>3. OwnerHasHandled' /\ AtHandIsLastPolled' /\ CommittedIsPolled'
        BY <1>1, <1>2, <1>5, <2>2, EmptyValuesAreDistinct
        DEF IInv, OwnerHasHandled, AtHandIsLastPolled, CommittedIsPolled, At, Revoke
    <2> QED BY <1>3, <2>1, <2>3 DEF IInv
<1>6. ASSUME NEW p \in Partitions, NEW c \in Consumers, Assign(p, c) PROVE IInv'
    <2>1. /\ owner' = [owner EXCEPT ![p] = c]
          /\ position' = [position EXCEPT ![p] = committed[p]]
          /\ current[c] = Nothing /\ UNCHANGED <<alive, faults>>
        BY <1>6 DEF Assign, FirstPosition
    <2>2. TypeOK'
        BY <1>1, <2>1 DEF IInv, TypeOK
    <2>3. /\ owner'[p] = c /\ position'[p] = committed[p]
          /\ \A q \in Partitions : q # p =>
                owner'[q] = owner[q] /\ position'[q] = position[q]
        BY <2>1 DEF IInv, TypeOK
    <2>4. /\ committed[p] <= Len(log[p])
          /\ \A i \in 1..committed[p] : Settled(log[p][i])
        <3>1. committed[p] \in Nat /\ Len(log[p]) \in Nat
            BY DEF IInv, TypeOK
        <3>2. \A i \in 1..committed[p] : i <= Len(log[p]) /\ Settled(log[p][i])
            BY DEF IInv, NothingLost
        <3> QED BY <3>1, <3>2
    <2>5. OwnerHasHandled' /\ AtHandIsLastPolled'
        BY <1>1, <1>2, <2>1, <2>3, <2>4
        DEF IInv, OwnerHasHandled, AtHandIsLastPolled, At
    <2>6. CommittedIsPolled'
        <3>1. committed[p] <= committed[p]
            BY DEF IInv, TypeOK
        <3> QED BY <1>1, <2>3, <3>1 DEF IInv, CommittedIsPolled
    <2> QED BY <1>3, <2>2, <2>5, <2>6 DEF IInv
<1> QED BY <1>4, <1>5, <1>6
-----------------------------------------------------------------------------
(***************************************************************************)
(* The invariant                                                           *)
(***************************************************************************)

LEMMA InitIInv == ASSUME Init PROVE IInv
<1>1. TypeOK
    BY BoundsAreNaturals DEF Init, TypeOK
<1>2. /\ NothingLost /\ MarkedIsHandled /\ CurrentIsInLog /\ AfterHandling
      /\ OwnerHasHandled /\ AtHandIsLastPolled /\ CommittedIsPolled
    BY EmptyValuesAreDistinct
    DEF Init, NothingLost, MarkedIsHandled, CurrentIsInLog, AfterHandling,
        OwnerHasHandled, AtHandIsLastPolled, CommittedIsPolled, At
<1> QED BY <1>1, <1>2 DEF IInv

LEMMA NextIInv == ASSUME IInv, [Next]_vars PROVE IInv'
<1>1. CASE UNCHANGED vars
    BY <1>1 DEF vars, broker, IInv, TypeOK, NothingLost, MarkedIsHandled, CurrentIsInLog,
       AfterHandling, OwnerHasHandled, AtHandIsLastPolled, CommittedIsPolled, At,
       MessageOf, Settled
<1>2. faults \in 0..MaxFaults
    BY DEF IInv, TypeOK
<1>3. ASSUME NEW c \in Consumers, Loop(c) PROVE IInv'
    <2>1. ASSUME NEW p \in Partitions, PollUndecodable(c, p) PROVE IInv'
        <3>1. Stop(c) /\ faults' \in 0..MaxFaults
            BY <1>2, <2>1 DEF PollUndecodable
        <3> QED BY <3>1, StopPreserves
    <2>2. CASE CommitOfDuplicateFails(c)
        <3>1. Stop(c) /\ faults' \in 0..MaxFaults
            BY <1>2, <2>2, BoundsAreNaturals
            DEF CommitOfDuplicateFails, CommitRefused, UseFault
        <3> QED BY <3>1, StopPreserves
    <2> QED BY <1>3, <2>1, <2>2, PollPreserves, ProcessPreserves, CommitPreserves,
               LeavingPreserves DEF Loop
<1>4. ASSUME NEW c \in Consumers, Crash(c) PROVE IInv'
    <2>1. Stop(c) /\ faults' \in 0..MaxFaults
        BY <1>2, <1>4, BoundsAreNaturals DEF Crash, UseFault
    <2> QED BY <2>1, StopPreserves
<1>5. CASE \/ \E c \in Consumers : Start(c)
           \/ \E p \in Partitions, c \in Consumers : Assign(p, c)
           \/ \E p \in Partitions : Revoke(p)
    BY <1>5, GroupPreserves
<1>6. ASSUME NEW p \in Partitions, NEW m \in Messages, Arrive(p, m) PROVE IInv'
    BY <1>6, ArrivePreserves
<1> QED BY <1>1, <1>3, <1>4, <1>5, <1>6 DEF Next

\* The inductive invariant holds in every reachable state.
THEOREM Invariance == Spec => []IInv
<1>1. Init => IInv
    BY InitIInv
<1>2. IInv /\ [Next]_vars => IInv'
    BY NextIInv
<1> QED BY <1>1, <1>2, PTL DEF Spec

\* Logs, offsets, caches and the messages at hand have their types.
THEOREM TypeCorrectness == Spec => []TypeOK
<1>1. IInv => TypeOK
    BY DEF IInv
<1> QED BY <1>1, Invariance, PTL

\* No commit covers a message that could be dispatched and was not.
THEOREM NoMessageIsLost == Spec => []NothingLost
<1>1. IInv => NothingLost
    BY DEF IInv
<1> QED BY <1>1, Invariance, PTL

\* A mark in a cache is that of a settled message or of the one at hand.
THEOREM MarksAreHandled == Spec => []MarkedIsHandled
<1>1. IInv => MarkedIsHandled
    BY DEF IInv
<1> QED BY <1>1, Invariance, PTL
-----------------------------------------------------------------------------
(***************************************************************************)
(* The refinement                                                          *)
(***************************************************************************)

\* The abstract variables, by partition and offset.
LEMMA CopiesByOffset ==
    /\ \A d : d \in Offered <=>
          \E p \in Partitions, i \in 1..MaxLength :
              i <= Len(log[p]) /\ d = <<<<p, i>>, log[p][i]>>
    /\ \A d : d \in Taken <=>
          \E p \in Partitions, i \in 1..MaxLength :
              /\ i <= Len(log[p]) /\ i <= committed[p]
              /\ d = <<<<p, i>>, log[p][i]>>
<1>1. \A d : d \in Offered <=>
          \E p \in Partitions, i \in 1..MaxLength :
              i <= Len(log[p]) /\ d = <<<<p, i>>, log[p][i]>>
    BY DEF Offered, Offsets, Carried
<1>2. \A d : d \in Taken <=>
          \E p \in Partitions, i \in 1..MaxLength :
              /\ i <= Len(log[p]) /\ i <= committed[p]
              /\ d = <<<<p, i>>, log[p][i]>>
    BY <1>1 DEF Taken
<1> QED BY <1>1, <1>2

\* And so in the next state.
LEMMA NextCopiesByOffset ==
    /\ \A d : d \in Offered' <=>
          \E p \in Partitions, i \in 1..MaxLength :
              i <= Len(log'[p]) /\ d = <<<<p, i>>, log'[p][i]>>
    /\ \A d : d \in Taken' <=>
          \E p \in Partitions, i \in 1..MaxLength :
              /\ i <= Len(log'[p]) /\ i <= committed'[p]
              /\ d = <<<<p, i>>, log'[p][i]>>
<1>1. \A d : d \in Offered' <=>
          \E p \in Partitions, i \in 1..MaxLength :
              i <= Len(log'[p]) /\ d = <<<<p, i>>, log'[p][i]>>
    BY DEF Offered, Offsets, Carried
<1>2. \A d : d \in Taken' <=>
          \E p \in Partitions, i \in 1..MaxLength :
              /\ i <= Len(log'[p]) /\ i <= committed'[p]
              /\ d = <<<<p, i>>, log'[p][i]>>
    BY <1>1 DEF Taken
<1> QED BY <1>1, <1>2

\* What arrives is offered, at an offset that had no message.
LEMMA ArrivalOffers ==
    ASSUME IInv, NEW p \in Partitions, NEW m \in Messages, Arrive(p, m)
    PROVE  Delivery!Next
<1> DEFINE n == Len(log[p]) + 1
<1>1. /\ log' = [log EXCEPT ![p] = Append(@, m)] /\ Len(log[p]) < MaxLength
      /\ committed' = committed /\ dispatched' = dispatched
    BY DEF Arrive
<1>2. /\ log[p] \in Seq(Messages) /\ MaxLength \in Nat
      /\ \A q \in Partitions : Len(log[q]) \in Nat /\ committed[q] \in Nat
    BY BoundsAreNaturals DEF IInv, TypeOK
<1>3. /\ log'[p] = Append(log[p], m)
      /\ \A q \in Partitions : q # p => log'[q] = log[q]
    BY <1>1 DEF IInv, TypeOK
<1>4. /\ Len(log'[p]) = n /\ log'[p][n] = m
      /\ \A i \in 1..Len(log[p]) : log'[p][i] = log[p][i]
    BY <1>2, <1>3
<1>5. n \in 1..MaxLength
    BY <1>1, <1>2
<1>6. \A q \in Partitions : committed[q] <= Len(log[q])
    <2> SUFFICES ASSUME NEW q \in Partitions PROVE committed[q] <= Len(log[q])
        OBVIOUS
    <2>1. committed[q] \in 1..committed[q] => committed[q] <= Len(log[q])
        BY DEF IInv, NothingLost
    <2> QED BY <1>2, <2>1
<1>7. \A q \in Partitions, i \in 1..MaxLength :
          /\ i <= Len(log'[q]) <=> i <= Len(log[q]) \/ (q = p /\ i = n)
          /\ i <= Len(log[q]) => log'[q][i] = log[q][i]
    BY <1>2, <1>3, <1>4
<1>8. Offered' = Offered \cup {<<<<p, n>>, m>>}
    <2>1. \A d : d \in Offered' <=> d \in Offered \/ d = <<<<p, n>>, m>>
        BY <1>4, <1>5, <1>7, CopiesByOffset, NextCopiesByOffset
    <2> QED BY <2>1
<1>9. Taken' = Taken
    <2>1. \A q \in Partitions, i \in 1..MaxLength : i <= committed[q] => i <= Len(log[q])
        BY <1>2, <1>6
    <2>2. \A d : d \in Taken' <=> d \in Taken
        BY <1>1, <1>7, <2>1, CopiesByOffset, NextCopiesByOffset
    <2> QED BY <2>2
<1>10. \A d \in Offered : d[1] # <<p, n>>
    <2> SUFFICES ASSUME NEW d \in Offered, d[1] = <<p, n>> PROVE FALSE
        OBVIOUS
    <2>1. PICK q \in Partitions, i \in 1..MaxLength :
              i <= Len(log[q]) /\ d = <<<<q, i>>, log[q][i]>>
        BY CopiesByOffset
    <2>2. q = p /\ i = n
        BY <2>1
    <2> QED BY <1>2, <2>1, <2>2
<1>11. Delivery!Offer(<<p, n>>, m)
    BY <1>1, <1>8, <1>9, <1>10 DEF Delivery!Offer
<1>12. <<p, n>> \in Offsets
    BY <1>5 DEF Offsets
<1> QED BY <1>11, <1>12 DEF Delivery!Next

\* Processing is processing, of a message that is in the topic.
LEMMA ProcessingProcesses ==
    ASSUME IInv, NEW c \in Consumers, Process(c)
    PROVE  Delivery!Next \/ UNCHANGED Delivery!vars
<1> DEFINE p == current[c].partition
           i == current[c].offset
<1>1. /\ UNCHANGED <<log, committed>> /\ current[c] # Nothing
      /\ \/ dispatched' = dispatched
         \/ /\ MessageOf(c) \notin Malformed \cup Unknown
            /\ dispatched' = dispatched \cup {MessageOf(c)}
    BY DEF Process, At, HasDispatcher, IsEvent, Publish, broker
<1>2. p \in Partitions /\ i \in 1..MaxLength /\ i <= Len(log[p])
    BY <1>1 DEF IInv, TypeOK, Current, CurrentIsInLog
<1>3. Offered' = Offered /\ Taken' = Taken
    BY <1>1 DEF Offered, Taken, Offsets, Carried
<1>4. <<<<p, i>>, MessageOf(c)>> \in Offered
    BY <1>2, CopiesByOffset DEF MessageOf
<1>5. MessageOf(c) \in Messages
    BY <1>2 DEF IInv, TypeOK, MessageOf
<1>6. CASE dispatched' = dispatched
    BY <1>3, <1>6 DEF Delivery!vars
<1>7. CASE dispatched' # dispatched
    <2>1. Delivery!Process(MessageOf(c))
        BY <1>1, <1>3, <1>4, <1>7 DEF Delivery!Process
    <2> QED BY <1>5, <2>1 DEF Delivery!Next
<1> QED BY <1>6, <1>7

\* A commit takes the copies up to its offset, and gives none back.
LEMMA CommitTakes ==
    ASSUME IInv, IInv', NEW c \in Consumers, Commit(c)
    PROVE  Delivery!Next
<1> DEFINE p == current[c].partition
<1>1. /\ UNCHANGED <<log, dispatched>> /\ current[c] # Nothing /\ owner[p] = c
      /\ committed' = [committed EXCEPT ![p] = current[c].offset]
    BY DEF Commit, At, NewOffset
<1>2. p \in Partitions /\ c # NoOne
    BY <1>1, EmptyValuesAreDistinct DEF IInv, TypeOK, Current
<1>3. committed[p] <= current[c].offset
    BY <1>1, <1>2 DEF IInv, AtHandIsLastPolled, CommittedIsPolled
<1>4. \A q \in Partitions : /\ committed[q] \in Nat /\ committed'[q] \in Nat
                            /\ committed[q] <= committed'[q]
    BY <1>1, <1>2, <1>3 DEF IInv, TypeOK
<1>5. Offered' = Offered
    BY <1>1 DEF Offered, Offsets, Carried
<1>6. Taken \subseteq Taken'
    <2>1. \A q \in Partitions, i \in 1..MaxLength :
              i <= committed[q] => i <= committed'[q]
        BY <1>4
    <2> QED BY <1>1, <2>1, CopiesByOffset, NextCopiesByOffset
<1>7. Taken' \subseteq Offered
    BY <1>1, CopiesByOffset, NextCopiesByOffset
<1>8. \A d \in Taken' : d[2] \in dispatched \cup (Malformed \cup Unknown)
    <2> SUFFICES ASSUME NEW d \in Taken'
                 PROVE  d[2] \in dispatched \cup (Malformed \cup Unknown)
        OBVIOUS
    <2>1. PICK q \in Partitions, i \in 1..MaxLength :
              i <= committed'[q] /\ d = <<<<q, i>>, log'[q][i]>>
        BY NextCopiesByOffset
    <2>2. Settled(log[q][i])'
        BY <1>4, <2>1 DEF IInv, NothingLost
    <2> QED BY <1>1, <2>1, <2>2 DEF Settled
<1>9. Delivery!Take(Taken')
    BY <1>1, <1>5, <1>6, <1>8 DEF Delivery!Take
<1> QED BY <1>7, <1>9 DEF Delivery!Next

LEMMA NextRefines ==
    ASSUME IInv, IInv', [Next]_vars
    PROVE  [Delivery!Next]_(Delivery!vars)
<1>1. CASE UNCHANGED <<log, committed, dispatched>>
    BY <1>1 DEF Delivery!vars, Offered, Taken, Offsets, Carried
<1>2. CASE UNCHANGED vars
    BY <1>1, <1>2 DEF vars, broker
<1>3. ASSUME NEW c \in Consumers, Loop(c) PROVE [Delivery!Next]_(Delivery!vars)
    <2>1. CASE \E p \in Partitions : Poll(c, p) \/ PollUndecodable(c, p)
        BY <1>1, <2>1 DEF Poll, PollUndecodable, Stop
    <2>2. CASE ProcessFails(c) \/ CommitFails(c) \/ CommitOfDuplicateFails(c)
        BY <1>1, <2>2 DEF ProcessFails, CommitFails, CommitOfDuplicateFails, Stop, broker
    <2> QED BY <1>3, <2>1, <2>2, ProcessingProcesses, CommitTakes DEF Loop
<1>4. ASSUME NEW c \in Consumers, Crash(c) \/ Start(c)
      PROVE  [Delivery!Next]_(Delivery!vars)
    BY <1>1, <1>4 DEF Crash, Start, Stop, broker
<1>5. ASSUME NEW p \in Partitions, Revoke(p) \/ (\E c \in Consumers : Assign(p, c))
      PROVE  [Delivery!Next]_(Delivery!vars)
    BY <1>1, <1>5 DEF Revoke, Assign
<1> QED BY <1>2, <1>3, <1>4, <1>5, ArrivalOffers DEF Next

\* The consumers of the topic implement delivery at least once: what they leave
\* behind was dispatched or cannot be, and they never turn back.
THEOREM Refinement == Spec => ImplementsAtLeastOnce
<1>1. Init => Delivery!Init
    <2> SUFFICES ASSUME Init PROVE Delivery!Init
        OBVIOUS
    <2>1. \A p \in Partitions, i \in 1..MaxLength : ~(i <= Len(log[p]))
        BY BoundsAreNaturals DEF Init
    <2>2. Offered = {} /\ Taken = {}
        BY <2>1, CopiesByOffset
    <2> QED BY <2>2 DEF Init, Delivery!Init
<1>2. IInv /\ IInv' /\ [Next]_vars => [Delivery!Next]_(Delivery!vars)
    BY NextRefines
<1> QED BY <1>1, <1>2, Invariance, PTL DEF Spec, ImplementsAtLeastOnce, Delivery!Spec
=============================================================================
