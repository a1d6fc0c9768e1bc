------------------------ MODULE OutboxDeliveryProofs ------------------------
(***************************************************************************)
(* For any number of publishers, workers, events, deliveries and faults:   *)
(* the types of OutboxDelivery, that no committed event is lost, the limit *)
(* on deliveries, and that the Stream implements DeliveryLane.             *)
(*                                                                         *)
(* That nothing is lost rests on two orders in the code: an event is sent  *)
(* before it is marked (Marked), and processed before it is acknowledged   *)
(* (Processed).  The limit holds because a claimed entry was counted for   *)
(* the worker that claimed it, and for no other (Counted, Apart).          *)
(***************************************************************************)
EXTENDS OutboxDelivery, TLAPS, SequenceTheorems, WellFoundedInduction

Places ==
    /\ \A p \in Publishers : ppc[p] # "idle" => batch[p] # {}
    /\ \A w \in Workers : wpc[w] = "deadLetter" => claimed[w] # {}
    /\ \A w \in Workers : claimed[w] # {} => wpc[w] \in {"inspect", "deadLetter"}
    /\ \A w \in Workers : wpc[w] \in {"work", "acknowledge"} => receipt[w] \in 1..offset
    /\ \A i \in Entries : stream[i].state # "unread" => i <= offset

Marked == \A p \in Publishers : ppc[p] = "mark" => Carried(First(batch[p]))
Processed == \A w \in Workers : wpc[w] = "acknowledge" => stream[receipt[w]].done

Counted ==
    /\ \A i \in Entries : stream[i].tries <= stream[i].count
    /\ \A w \in Workers : \A i \in claimed[w] :
          /\ ~ stream[i].late
          /\ stream[i].tries < stream[i].count \/ stream[i].count > MaxDeliveries
Apart == \A v, w \in Workers : v # w => claimed[v] \intersect claimed[w] = {}

IInv ==
    /\ TypeOK /\ Places /\ Processed
    /\ Marked /\ NothingLost
    /\ Counted /\ Apart /\ BoundedTries

-----------------------------------------------------------------------------
(* Lemmas on the helpers.                                                  *)

\* A set of numbers with an element has a first one.
LEMMA FirstIsIn ==
    ASSUME NEW S, S \subseteq Nat, S # {}
    PROVE  First(S) \in S
<1> DEFINE R == OpToRel(<, Nat)
<1>1. IsWellFoundedOn(R, Nat)
  BY NatLessThanWellFounded, Zenon
<1>2. \A x, y \in Nat : <<y, x>> \in R <=> y < x
  BY DEF OpToRel
<1> HIDE DEF R
<1>3. PICK x \in S : \A y \in S : ~ (<<y, x>> \in R)
  BY <1>1, WFMin
<1>4. ASSUME NEW y \in S PROVE x <= y
  <2>1. x \in Nat /\ y \in Nat
    OBVIOUS
  <2>2. ~ (y < x)
    BY <1>2, <1>3, <2>1, Zenon
  <2> QED BY <2>1, <2>2
<1> QED BY <1>4 DEF First

\* A function over a sequence's domain is a sequence as long as it.
LEMMA Mapped ==
    ASSUME NEW S, NEW s \in Seq(S), NEW T, NEW t \in [DOMAIN s -> T]
    PROVE  t \in Seq(T) /\ Len(t) = Len(s) /\ DOMAIN t = 1..Len(s)
<1>1. Len(s) \in Nat /\ DOMAIN s = 1..Len(s)
  BY LenProperties
<1> QED BY <1>1

\* What a redelivery does to the entries of the group.
LEMMA RedeliveredType ==
    ASSUME TypeOK, NEW S
    PROVE  /\ Redelivered(S) \in Seq(Entry)
           /\ Len(Redelivered(S)) = Len(stream)
           /\ \A i \in Entries :
                /\ Redelivered(S)[i].event = stream[i].event
                /\ Redelivered(S)[i].state = stream[i].state
                /\ Redelivered(S)[i].done = stream[i].done
                /\ Redelivered(S)[i].tries = stream[i].tries
                /\ i \notin S => Redelivered(S)[i] = stream[i]
                /\ i \in S => /\ ~ Redelivered(S)[i].late
                              /\ Redelivered(S)[i].count =
                                    IF stream[i].count > MaxDeliveries
                                    THEN stream[i].count ELSE stream[i].count + 1
<1> USE DeliveryAssumption
<1>1. \A i \in Entries : stream[i] \in Entry
  BY LenProperties DEF TypeOK, Entries
<1>2. ASSUME NEW s \in Entry
      PROVE  [s EXCEPT !.late = FALSE,
                       !.count = IF @ > MaxDeliveries THEN @ ELSE @ + 1] \in Entry
  <2> DEFINE n == IF s.count > MaxDeliveries THEN s.count ELSE s.count + 1
  <2>1. s.count \in 0..(MaxDeliveries + 1)
    BY DEF Entry
  <2>2. n \in 0..(MaxDeliveries + 1)
    BY <2>1
  <2> HIDE DEF n
  <2>3. [s EXCEPT !.late = FALSE, !.count = n] \in Entry
    BY <2>2 DEF Entry
  <2> QED BY <2>3 DEF n
<1>3. Redelivered(S) \in [DOMAIN stream -> Entry]
  BY <1>1, <1>2 DEF Redelivered, Entries
<1>4. Redelivered(S) \in Seq(Entry) /\ Len(Redelivered(S)) = Len(stream)
  BY <1>3, Mapped DEF TypeOK
<1> QED BY <1>1, <1>4 DEF Redelivered, Entry

\* A worker that is to process or acknowledge, or has claimed, holds entries.
LEMMA Held ==
    ASSUME TypeOK, Places, NEW w \in Workers
    PROVE  /\ offset \in Nat /\ offset <= Len(stream) /\ Entries = 1..Len(stream)
           /\ claimed[w] # {} => First(claimed[w]) \in claimed[w] \intersect Entries
           /\ wpc[w] \in {"work", "acknowledge"} => receipt[w] \in Entries
<1>1. Entries = 1..Len(stream) /\ Len(stream) \in Nat
  BY LenProperties DEF TypeOK, Entries
<1>2. offset \in Nat /\ offset <= Len(stream)
  BY <1>1 DEF TypeOK
<1>3. claimed[w] \subseteq 1..offset
  BY DEF TypeOK
<1>4. claimed[w] # {} => First(claimed[w]) \in claimed[w]
  BY <1>2, <1>3, FirstIsIn
<1> QED BY <1>1, <1>2, <1>3, <1>4 DEF Places

\* The first event of a publisher that has read some is one of them.
LEMMA Batched ==
    ASSUME TypeOK, Places, NEW p \in Publishers, ppc[p] # "idle"
    PROVE  First(batch[p]) \in batch[p] /\ First(batch[p]) \in Events
<1>1. batch[p] # {} /\ batch[p] \subseteq 1..committed /\ committed \in 0..MaxEvents
  BY DEF TypeOK, Places
<1>2. First(batch[p]) \in batch[p]
  BY <1>1, FirstIsIn
<1> QED BY <1>1, <1>2, DeliveryAssumption DEF Events

\* One entry of the Stream is replaced by another of the same type.
LEMMA Replaced ==
    ASSUME TypeOK, NEW i \in Entries, NEW e \in Entry
    PROVE  /\ [stream EXCEPT ![i] = e] \in Seq(Entry)
           /\ Len([stream EXCEPT ![i] = e]) = Len(stream)
           /\ \A j \in Entries : [stream EXCEPT ![i] = e][j] = IF j = i THEN e ELSE stream[j]
<1>1. Entries = 1..Len(stream)
  BY LenProperties DEF TypeOK, Entries
<1> QED BY <1>1, ExceptSeq DEF TypeOK

\* The changes the actions make to one entry.
Tried(s) == [s EXCEPT !.tries = @ + 1]
Buried(s) == [s EXCEPT !.dead = TRUE]
Taken(s) == [s EXCEPT !.state = "pending", !.count = 1, !.tries = 1]
Finished(s) == [s EXCEPT !.done = TRUE]
Left(s) == [s EXCEPT !.state = "acked", !.late = FALSE]
Expired(s) == [s EXCEPT !.late = TRUE]

LEMMA Changes ==
    ASSUME NEW s \in Entry
    PROVE  /\ /\ Tried(s) \in Entry /\ Tried(s).tries = s.tries + 1
              /\ Tried(s).event = s.event /\ Tried(s).state = s.state
              /\ Tried(s).count = s.count /\ Tried(s).late = s.late
              /\ Tried(s).done = s.done
           /\ /\ Buried(s) \in Entry /\ Buried(s).tries = s.tries
              /\ Buried(s).event = s.event /\ Buried(s).state = s.state
              /\ Buried(s).count = s.count /\ Buried(s).late = s.late
              /\ Buried(s).done = s.done
           /\ /\ Taken(s) \in Entry /\ Taken(s).tries = 1
              /\ Taken(s).event = s.event /\ Taken(s).state = "pending"
              /\ Taken(s).count = 1 /\ Taken(s).late = s.late
              /\ Taken(s).done = s.done
           /\ /\ Finished(s) \in Entry /\ Finished(s).tries = s.tries
              /\ Finished(s).event = s.event /\ Finished(s).state = s.state
              /\ Finished(s).count = s.count /\ Finished(s).late = s.late
              /\ Finished(s).done
           /\ /\ Left(s) \in Entry /\ Left(s).tries = s.tries
              /\ Left(s).event = s.event /\ Left(s).state = "acked"
              /\ Left(s).count = s.count /\ ~ Left(s).late
              /\ Left(s).done = s.done
           /\ /\ Expired(s) \in Entry /\ Expired(s).tries = s.tries
              /\ Expired(s).event = s.event /\ Expired(s).state = s.state
              /\ Expired(s).count = s.count /\ Expired(s).done = s.done
<1> USE DeliveryAssumption DEF Entry
<1>1. /\ Tried(s) \in Entry /\ Tried(s).tries = s.tries + 1
      /\ Tried(s).event = s.event /\ Tried(s).state = s.state
      /\ Tried(s).count = s.count /\ Tried(s).late = s.late
      /\ Tried(s).done = s.done
  BY DEF Tried
<1>2. /\ Buried(s) \in Entry /\ Buried(s).tries = s.tries
      /\ Buried(s).event = s.event /\ Buried(s).state = s.state
      /\ Buried(s).count = s.count /\ Buried(s).late = s.late
      /\ Buried(s).done = s.done
  BY DEF Buried
<1>3. /\ Taken(s) \in Entry /\ Taken(s).tries = 1
      /\ Taken(s).event = s.event /\ Taken(s).state = "pending"
      /\ Taken(s).count = 1 /\ Taken(s).late = s.late
      /\ Taken(s).done = s.done
  <2>1. 1 \in 0..(MaxDeliveries + 1) /\ 1 \in Nat
    OBVIOUS
  <2> HIDE DeliveryAssumption
  <2> QED BY <2>1 DEF Taken
<1>4. /\ Finished(s) \in Entry /\ Finished(s).tries = s.tries
      /\ Finished(s).event = s.event /\ Finished(s).state = s.state
      /\ Finished(s).count = s.count /\ Finished(s).late = s.late
      /\ Finished(s).done
  BY DEF Finished
<1>5. /\ Left(s) \in Entry /\ Left(s).tries = s.tries
      /\ Left(s).event = s.event /\ Left(s).state = "acked"
      /\ Left(s).count = s.count /\ ~ Left(s).late
      /\ Left(s).done = s.done
  BY DEF Left
<1>6. /\ Expired(s) \in Entry /\ Expired(s).tries = s.tries
      /\ Expired(s).event = s.event /\ Expired(s).state = s.state
      /\ Expired(s).count = s.count /\ Expired(s).done = s.done
  BY DEF Expired
<1> HIDE DEF Entry
<1> QED BY <1>1, <1>2, <1>3, <1>4, <1>5, <1>6

-----------------------------------------------------------------------------
(* What a step does to the Stream.                                         *)

\* Entries are added and never leave; their events stay, what was processed
\* stays so, what is acknowledged was processed, and what is no longer unread
\* is up to the group's offset.
Grown ==
    /\ stream' \in Seq(Entry)
    /\ Len(stream) <= Len(stream')
    /\ \A i \in Entries :
          /\ stream'[i].event = stream[i].event
          /\ stream[i].done => stream'[i].done
          /\ stream'[i].state = "acked" => stream[i].state = "acked" \/ stream[i].done
          /\ stream'[i].state = stream[i].state \/ i <= offset'
    /\ \A i \in Entries' \ Entries : stream'[i].state = "unread"

\* Replaces(i, e): entry i becomes e, and no other changes.
Replaces(i, e) == i \in Entries /\ e \in Entry /\ stream' = [stream EXCEPT ![i] = e]

LEMMA ReplacesType ==
    ASSUME TypeOK, NEW i, NEW e, Replaces(i, e)
    PROVE  /\ stream' \in Seq(Entry) /\ Len(stream') = Len(stream)
           /\ Entries' = Entries /\ stream'[i] = e
           /\ \A j \in Entries : j # i => stream'[j] = stream[j]
<1>1. Entries = 1..Len(stream)
  BY LenProperties DEF TypeOK, Entries
<1>2. /\ stream' \in Seq(Entry) /\ Len(stream') = Len(stream)
      /\ \A j \in Entries : stream'[j] = IF j = i THEN e ELSE stream[j]
  BY Replaced DEF Replaces
<1>3. DOMAIN stream' = 1..Len(stream')
  BY <1>2, LenProperties
<1> QED BY <1>1, <1>2, <1>3 DEF Replaces, Entries

LEMMA ReplacesGrows ==
    ASSUME TypeOK, NEW i, NEW e, Replaces(i, e), e.event = stream[i].event,
           stream[i].done => e.done,
           e.state = "acked" => stream[i].state = "acked" \/ stream[i].done,
           e.state = stream[i].state \/ i <= offset'
    PROVE  Grown
<1>1. Len(stream) \in Nat
  BY LenProperties DEF TypeOK
<1>2. /\ stream' \in Seq(Entry) /\ Len(stream') = Len(stream) /\ Entries' = Entries
      /\ \A j \in Entries : stream'[j] = stream[j] \/ (j = i /\ stream'[j] = e)
  BY ReplacesType DEF Replaces
<1>3. ASSUME NEW j \in Entries
      PROVE  /\ stream'[j].event = stream[j].event
             /\ stream[j].done => stream'[j].done
             /\ stream'[j].state = "acked" => stream[j].state = "acked" \/ stream[j].done
             /\ stream'[j].state = stream[j].state \/ j <= offset'
  <2>1. CASE stream'[j] = stream[j]
    BY <2>1, Zenon
  <2>2. CASE j = i /\ stream'[j] = e
    BY <2>2, Zenon
  <2> QED BY <1>2, <2>1, <2>2
<1> QED BY <1>1, <1>2, <1>3 DEF Grown

\* The actions that replace an entry, and what they make of it.
LEMMA Replacing ==
    ASSUME TypeOK, Places
    PROVE  \A w \in Workers :
             /\ \A i \in Entries : HandOut(w, i) => Replaces(i, Tried(stream[i]))
             /\ DeadLetter(w) =>
                  Replaces(First(claimed[w]), Buried(stream[First(claimed[w])]))
             /\ ReadNew(w) => UNCHANGED stream
                              \/ Replaces(offset + 1, Taken(stream[offset + 1]))
             /\ Work(w) => UNCHANGED stream
                           \/ Replaces(receipt[w], Finished(stream[receipt[w]]))
             /\ Acknowledge(w) => UNCHANGED stream
                                  \/ Replaces(receipt[w], Left(stream[receipt[w]]))
<1> SUFFICES ASSUME NEW w \in Workers PROVE
             /\ \A i \in Entries : HandOut(w, i) => Replaces(i, Tried(stream[i]))
             /\ DeadLetter(w) =>
                  Replaces(First(claimed[w]), Buried(stream[First(claimed[w])]))
             /\ ReadNew(w) => UNCHANGED stream
                              \/ Replaces(offset + 1, Taken(stream[offset + 1]))
             /\ Work(w) => UNCHANGED stream
                           \/ Replaces(receipt[w], Finished(stream[receipt[w]]))
             /\ Acknowledge(w) => UNCHANGED stream
                                  \/ Replaces(receipt[w], Left(stream[receipt[w]]))
  OBVIOUS
<1>1. \A i \in Entries : stream[i] \in Entry
  BY LenProperties DEF TypeOK, Entries
<1>2. ASSUME NEW i \in Entries, HandOut(w, i) PROVE Replaces(i, Tried(stream[i]))
  <2>1. Tried(stream[i]) \in Entry
    BY <1>1, Changes
  <2> QED BY <1>2, <2>1 DEF HandOut, Replaces, Tried
<1>3. ASSUME DeadLetter(w)
      PROVE  Replaces(First(claimed[w]), Buried(stream[First(claimed[w])]))
  <2>1. First(claimed[w]) \in Entries
    BY <1>3, Held DEF DeadLetter, Places
  <2>2. Buried(stream[First(claimed[w])]) \in Entry
    BY <1>1, <2>1, Changes
  <2> QED BY <1>3, <2>1, <2>2 DEF DeadLetter, Replaces, Buried
<1>4. ASSUME ReadNew(w)
      PROVE  UNCHANGED stream \/ Replaces(offset + 1, Taken(stream[offset + 1]))
  <2>1. CASE offset < Len(stream)
    <3>1. offset + 1 \in Entries
      BY <2>1, Held, LenProperties DEF TypeOK
    <3>2. Taken(stream[offset + 1]) \in Entry
      BY <1>1, <3>1, Changes
    <3>3. stream' = [stream EXCEPT ![offset + 1] = Taken(stream[offset + 1])]
      BY <1>4, <2>1 DEF ReadNew, Taken
    <3> QED BY <3>1, <3>2, <3>3 DEF Replaces
  <2> QED BY <1>4, <2>1 DEF ReadNew
<1>5. ASSUME Work(w)
      PROVE  UNCHANGED stream \/ Replaces(receipt[w], Finished(stream[receipt[w]]))
  <2>1. receipt[w] \in Entries
    BY <1>5, Held DEF Work
  <2>2. Finished(stream[receipt[w]]) \in Entry
    BY <1>1, <2>1, Changes
  <2> QED BY <1>5, <2>1, <2>2 DEF Work, Replaces, Finished
<1>6. ASSUME Acknowledge(w)
      PROVE  UNCHANGED stream \/ Replaces(receipt[w], Left(stream[receipt[w]]))
  <2>1. receipt[w] \in Entries
    BY <1>6, Held DEF Acknowledge
  <2>2. Left(stream[receipt[w]]) \in Entry
    BY <1>1, <2>1, Changes
  <2>3. CASE receipt[w] \in Pending
    <3>1. stream' = [stream EXCEPT ![receipt[w]] = Left(stream[receipt[w]])]
      BY <1>1, <1>6, <2>1, <2>3 DEF Acknowledge, Left, Entry, Entries, TypeOK
    <3> QED BY <2>1, <2>2, <3>1 DEF Replaces
  <2> QED BY <1>6, <2>3 DEF Acknowledge
<1> QED BY <1>2, <1>3, <1>4, <1>5, <1>6

LEMMA StreamGrows ==
    ASSUME TypeOK, Places, Processed, [Next]_vars
    PROVE  Grown
<1> USE DeliveryAssumption
<1>0. /\ Entries = 1..Len(stream) /\ Len(stream) \in Nat
      /\ \A i \in Entries : stream[i] \in Entry
  BY LenProperties DEF TypeOK, Entries
<1>1. CASE UNCHANGED stream
  BY <1>0, <1>1 DEF Grown, TypeOK, Entries
<1>2. ASSUME NEW p \in Publishers, Publish(p) PROVE Grown
  <2> DEFINE e == Sent(First(batch[p]))
  <2>1. e \in Entry /\ e.state = "unread"
    BY <1>2, Batched DEF Publish, Sent, Entry
  <2>2. stream' = Append(stream, e)
    BY <1>2 DEF Publish
  <2> HIDE DEF e
  <2>3. /\ stream' \in Seq(Entry) /\ Len(stream') = Len(stream) + 1
        /\ \A i \in Entries : stream'[i] = stream[i]
        /\ stream'[Len(stream) + 1] = e
    BY <1>0, <2>1, <2>2, AppendProperties DEF TypeOK
  <2>4. Entries' = 1..(Len(stream) + 1)
    BY <2>3, LenProperties DEF Entries
  <2>5. \A i \in Entries' \ Entries : i = Len(stream) + 1
    BY <1>0, <2>4
  <2> QED BY <1>0, <2>1, <2>3, <2>5 DEF Grown
<1>3. ASSUME NEW w \in Workers, Reclaim(w) PROVE Grown
  <2>1. /\ stream' \in Seq(Entry) /\ Len(stream') = Len(stream)
        /\ \A i \in Entries :
             /\ stream'[i].event = stream[i].event
             /\ stream'[i].state = stream[i].state
             /\ stream'[i].done = stream[i].done
    BY <1>3, RedeliveredType DEF Reclaim
  <2>2. Entries' = Entries
    BY <1>0, <2>1, LenProperties DEF Entries
  <2> QED BY <1>0, <2>1, <2>2 DEF Grown
<1>4. ASSUME NEW w \in Workers, Inspect(w) PROVE Grown
  <2>1. CASE HandOut(w, First(claimed[w]))
    <3>1. First(claimed[w]) \in Entries
      BY <1>4, Held DEF Inspect
    <3> QED BY <1>0, <2>1, <3>1, Replacing, ReplacesGrows, Changes
  <2> QED BY <1>1, <1>4, <2>1 DEF Inspect
<1>5. ASSUME NEW w \in Workers, DeadLetter(w) PROVE Grown
  <2>1. First(claimed[w]) \in Entries
    BY <1>5, Held DEF DeadLetter, Places
  <2> QED BY <1>0, <1>5, <2>1, Replacing, ReplacesGrows, Changes
<1>6. ASSUME NEW w \in Workers, ReadNew(w) PROVE Grown
  <2>1. CASE Replaces(offset + 1, Taken(stream[offset + 1]))
    <3>1. stream[offset + 1] \in Entry
      BY <1>0, <2>1 DEF Replaces
    <3>2. CASE UNCHANGED stream
      BY <1>1, <3>2
    <3>3. CASE offset' = offset + 1
      <4>1. offset + 1 <= offset'
        BY <1>0, <3>3 DEF TypeOK
      <4> QED BY <2>1, <3>1, <4>1, ReplacesGrows, Changes
    <3> QED BY <1>6, <3>2, <3>3 DEF ReadNew
  <2> QED BY <1>1, <1>6, <2>1, Replacing
<1>7. ASSUME NEW w \in Workers, Work(w) PROVE Grown
  <2>1. CASE Replaces(receipt[w], Finished(stream[receipt[w]]))
    <3>1. stream[receipt[w]] \in Entry
      BY <1>0, <2>1 DEF Replaces
    <3> QED BY <2>1, <3>1, ReplacesGrows, Changes
  <2> QED BY <1>1, <1>7, <2>1, Replacing
<1>8. ASSUME NEW w \in Workers, Acknowledge(w) PROVE Grown
  <2>1. CASE Replaces(receipt[w], Left(stream[receipt[w]]))
    <3>1. stream[receipt[w]] \in Entry /\ stream[receipt[w]].done
      BY <1>0, <1>8, <2>1 DEF Replaces, Acknowledge, Processed
    <3>2. receipt[w] <= offset'
      BY <1>8 DEF Acknowledge, Places, TypeOK
    <3> QED BY <2>1, <3>1, <3>2, ReplacesGrows, Changes
  <2> QED BY <1>1, <1>8, <2>1, Replacing
<1>9. ASSUME Expire PROVE Grown
  <2>1. PICK S : stream' = [i \in Entries |-> IF i \in S THEN Expired(stream[i])
                                              ELSE stream[i]]
    BY <1>9 DEF Expire, Expired
  <2>2. \A i \in Entries : Expired(stream[i]) \in Entry
    BY <1>0, Changes
  <2>3. stream' \in [DOMAIN stream -> Entry]
    BY <1>0, <2>1, <2>2 DEF Entries
  <2>4. /\ stream' \in Seq(Entry) /\ Len(stream') = Len(stream)
        /\ Entries' = Entries
    BY <1>0, <2>3, Mapped DEF TypeOK, Entries
  <2> QED BY <1>0, <2>1, <2>4, Changes DEF Grown
<1> QED
  BY <1>1, <1>2, <1>3, <1>4, <1>5, <1>6, <1>7, <1>8, <1>9
  DEF Next, PublisherStep, WorkerStep, Commit, ReadOutbox, WriteBack, Mark,
      PublisherFails, WorkerDies, vars

-----------------------------------------------------------------------------
(* Types and places.                                                       *)

LEMMA NextType ==
    ASSUME TypeOK, Places, Grown, [Next]_vars
    PROVE  TypeOK'
<1> USE DeliveryAssumption
<1>1. /\ offset \in Nat /\ Len(stream) \in Nat /\ Len(stream') \in Nat
      /\ offset <= Len(stream) /\ Len(stream) <= Len(stream')
  BY LenProperties DEF TypeOK, Grown
<1>2. ASSUME UNCHANGED offset, claimed' \in [Workers -> SUBSET (1..offset)],
             receipt' \in [Workers -> 0..offset]
      PROVE  /\ stream' \in Seq(Entry) /\ offset' \in 0..Len(stream')
             /\ claimed' \in [Workers -> SUBSET (1..offset')]
             /\ receipt' \in [Workers -> 0..offset']
  BY <1>1, <1>2 DEF Grown
<1>3. ASSUME NEW p \in Publishers, PublisherStep(p) \/ PublisherFails(p) PROVE TypeOK'
  <2>1. UNCHANGED <<worker, offset, committed, rested>>
    BY <1>3 DEF PublisherStep, PublisherFails, ReadOutbox, WriteBack, Publish, Mark,
                worker, outbox
  <2>2. /\ stream' \in Seq(Entry) /\ offset' \in 0..Len(stream')
        /\ claimed' \in [Workers -> SUBSET (1..offset')]
        /\ receipt' \in [Workers -> 0..offset']
    BY <1>2, <2>1 DEF TypeOK, worker
  <2>3. CASE ReadOutbox(p)
    BY <2>1, <2>2, <2>3 DEF TypeOK, ReadOutbox, Unpublished, worker, outbox
  <2>4. CASE WriteBack(p)
    BY <2>1, <2>2, <2>4 DEF TypeOK, WriteBack, worker
  <2>5. CASE Publish(p)
    BY <2>1, <2>2, <2>5 DEF TypeOK, Publish, worker, outbox
  <2>6. CASE Mark(p)
    <3>1. First(batch[p]) \in batch[p]
      BY <2>6, Batched DEF Mark
    <3>2. /\ published' \subseteq 1..committed'
          /\ batch' \in [Publishers -> SUBSET (1..committed')]
          /\ ppc' \in [Publishers -> {"idle", "writeBack", "publish", "mark"}]
      BY <2>1, <2>6, <3>1 DEF TypeOK, Mark
    <3> QED BY <2>1, <2>2, <2>6, <3>2 DEF TypeOK, Mark, worker
  <2>7. CASE PublisherFails(p)
    BY <2>1, <2>2, <2>7 DEF TypeOK, PublisherFails, worker, outbox
  <2> QED BY <1>3, <2>3, <2>4, <2>5, <2>6, <2>7 DEF PublisherStep
<1>4. ASSUME Commit PROVE TypeOK'
  BY <1>1, <1>2, <1>4 DEF TypeOK, Commit, publisher, worker
<1>5. ASSUME Expire PROVE TypeOK'
  BY <1>1, <1>2, <1>5 DEF TypeOK, Expire, outbox, publisher, worker
<1>6. ASSUME NEW w \in Workers, WorkerStep(w) \/ WorkerDies(w) PROVE TypeOK'
  <2>1. UNCHANGED <<outbox, publisher>> /\ faults' \in 0..MaxFaults
    BY <1>6 DEF WorkerStep, WorkerDies, Reclaim, Inspect, DeadLetter, ReadNew, Work,
                Acknowledge, TypeOK
  <2>2. /\ wpc' \in [Workers -> {"idle", "inspect", "deadLetter", "work", "acknowledge"}]
        /\ rested' \subseteq Workers
    BY <1>6 DEF WorkerStep, WorkerDies, Reclaim, Inspect, HandOut, DeadLetter, ReadNew,
                Work, Acknowledge, TypeOK
  <2>3. SUFFICES /\ offset' \in 0..Len(stream')
                 /\ claimed' \in [Workers -> SUBSET (1..offset')]
                 /\ receipt' \in [Workers -> 0..offset']
    BY <2>1, <2>2 DEF TypeOK, Grown, outbox, publisher
  <2>4. CASE Reclaim(w)
    <3>1. Late \subseteq 1..offset
      BY <1>1, LenProperties DEF Places, Late, Pending, Entries, TypeOK
    <3>2. Lowest(Late, MaxDeliveries + 1) \subseteq 1..offset
      BY <3>1 DEF Lowest
    <3> QED BY <1>2, <2>4, <3>2 DEF TypeOK, Reclaim
  <2>5. CASE Inspect(w)
    <3>1. claimed[w] # {} => First(claimed[w]) \in 1..offset
      BY Held DEF TypeOK
    <3> QED BY <1>2, <2>5, <3>1 DEF TypeOK, Inspect, HandOut
  <2>6. CASE DeadLetter(w)
    BY <1>2, <2>6 DEF TypeOK, DeadLetter
  <2>7. CASE ReadNew(w)
    <3>1. CASE offset < Len(stream)
      <4>1. offset' = offset + 1 /\ claimed' = claimed
            /\ receipt' = [receipt EXCEPT ![w] = offset + 1]
        BY <2>7, <3>1 DEF ReadNew
      <4>2. 1..offset \subseteq 1..offset' /\ 0..offset \subseteq 0..offset'
            /\ offset' \in 0..offset' /\ offset' \in 0..Len(stream')
        BY <1>1, <3>1, <4>1
      <4> QED BY <4>1, <4>2 DEF TypeOK
    <3>2. CASE ~ (offset < Len(stream))
      BY <1>2, <2>7, <3>2 DEF ReadNew, TypeOK
    <3> QED BY <3>1, <3>2
  <2>8. CASE Work(w) \/ Acknowledge(w)
    BY <1>2, <2>8 DEF Work, Acknowledge, TypeOK
  <2>9. CASE WorkerDies(w)
    BY <1>2, <2>9 DEF WorkerDies, TypeOK
  <2> QED BY <1>6, <2>4, <2>5, <2>6, <2>7, <2>8, <2>9 DEF WorkerStep
<1>7. CASE UNCHANGED vars
  BY <1>7 DEF TypeOK, vars, outbox, publisher, worker
<1> QED BY <1>3, <1>4, <1>5, <1>6, <1>7 DEF Next

\* What a publisher has read it keeps until it marks or fails, and what a
\* worker holds it keeps until it is done with it or dies.
LEMMA NextPlaces ==
    ASSUME TypeOK, Places, Grown, [Next]_vars
    PROVE  Places'
<1>1. ASSUME NEW p \in Publishers PROVE ppc'[p] # "idle" => batch'[p] # {}
  <2>1. ASSUME NEW q \in Publishers, PublisherStep(q) \/ PublisherFails(q)
        PROVE  ppc'[p] # "idle" => batch'[p] # {}
    <3>1. CASE ReadOutbox(q)
      BY <3>1 DEF ReadOutbox, TypeOK, Places
    <3>2. CASE WriteBack(q) \/ Publish(q)
      BY <3>2 DEF WriteBack, Publish, TypeOK, Places
    <3>3. CASE Mark(q)
      BY <3>3 DEF Mark, TypeOK, Places
    <3>4. CASE PublisherFails(q)
      BY <3>4 DEF PublisherFails, TypeOK, Places
    <3> QED BY <2>1, <3>1, <3>2, <3>3, <3>4 DEF PublisherStep
  <2>2. CASE UNCHANGED <<batch, ppc>>
    BY <2>2 DEF Places
  <2> QED BY <2>1, <2>2 DEF Next, Commit, Expire, WorkerStep, WorkerDies, Reclaim, Inspect,
        DeadLetter, ReadNew, Work, Acknowledge, publisher, vars
<1>2. ASSUME NEW v \in Workers
      PROVE  /\ wpc'[v] = "deadLetter" => claimed'[v] # {}
             /\ claimed'[v] # {} => wpc'[v] \in {"inspect", "deadLetter"}
             /\ wpc'[v] \in {"work", "acknowledge"} => receipt'[v] \in 1..offset'
  <2>0. offset \in Nat /\ Len(stream) \in Nat /\ offset <= Len(stream)
    BY LenProperties DEF TypeOK
  <2>1. CASE UNCHANGED <<worker, offset>>
    BY <2>1 DEF Places, worker
  <2>2. ASSUME NEW w \in Workers, Reclaim(w)
        PROVE  /\ wpc'[v] = "deadLetter" => claimed'[v] # {}
               /\ claimed'[v] # {} => wpc'[v] \in {"inspect", "deadLetter"}
               /\ wpc'[v] \in {"work", "acknowledge"} => receipt'[v] \in 1..offset'
    BY <2>2 DEF Reclaim, Places, TypeOK
  <2>3. ASSUME NEW w \in Workers, Inspect(w)
        PROVE  /\ wpc'[v] = "deadLetter" => claimed'[v] # {}
               /\ claimed'[v] # {} => wpc'[v] \in {"inspect", "deadLetter"}
               /\ wpc'[v] \in {"work", "acknowledge"} => receipt'[v] \in 1..offset'
    <3>1. First(claimed[w]) \in 1..offset
      BY <2>3, Held DEF Inspect, TypeOK
    <3> QED BY <2>3, <3>1 DEF Inspect, HandOut, Places, TypeOK
  <2>4. ASSUME NEW w \in Workers, DeadLetter(w) \/ WorkerDies(w)
        PROVE  /\ wpc'[v] = "deadLetter" => claimed'[v] # {}
               /\ claimed'[v] # {} => wpc'[v] \in {"inspect", "deadLetter"}
               /\ wpc'[v] \in {"work", "acknowledge"} => receipt'[v] \in 1..offset'
    BY <2>4 DEF DeadLetter, WorkerDies, Places, TypeOK
  <2>5. ASSUME NEW w \in Workers, Work(w) \/ Acknowledge(w)
        PROVE  /\ wpc'[v] = "deadLetter" => claimed'[v] # {}
               /\ claimed'[v] # {} => wpc'[v] \in {"inspect", "deadLetter"}
               /\ wpc'[v] \in {"work", "acknowledge"} => receipt'[v] \in 1..offset'
    BY <2>5 DEF Work, Acknowledge, Places, TypeOK
  <2>6. ASSUME NEW w \in Workers, ReadNew(w)
        PROVE  /\ wpc'[v] = "deadLetter" => claimed'[v] # {}
               /\ claimed'[v] # {} => wpc'[v] \in {"inspect", "deadLetter"}
               /\ wpc'[v] \in {"work", "acknowledge"} => receipt'[v] \in 1..offset'
    <3>1. CASE offset < Len(stream)
      <4>1. offset' = offset + 1 /\ claimed' = claimed
            /\ receipt' = [receipt EXCEPT ![w] = offset + 1]
            /\ wpc' = [wpc EXCEPT ![w] = "work"] /\ claimed[w] = {}
        BY <2>6, <3>1 DEF ReadNew
      <4>2. 1..offset \subseteq 1..offset' /\ offset + 1 \in 1..offset'
        BY <2>0, <4>1
      <4> QED BY <4>1, <4>2 DEF Places, TypeOK
    <3>2. CASE ~ (offset < Len(stream))
      BY <2>6, <3>2 DEF ReadNew, Places, TypeOK
    <3> QED BY <3>1, <3>2
  <2> QED BY <2>1, <2>2, <2>3, <2>4, <2>5, <2>6
       DEF Next, Commit, Expire, PublisherStep, PublisherFails, ReadOutbox, WriteBack,
           Publish, Mark, WorkerStep, outbox, vars
<1>3. ASSUME NEW i \in Entries' PROVE stream'[i].state # "unread" => i <= offset'
  <2>1. offset \in Nat /\ offset' \in Nat /\ offset <= offset' /\ Entries \subseteq Nat
    <3>1. offset \in Nat /\ Entries \subseteq Nat
      BY LenProperties DEF TypeOK, Entries
    <3>2. offset' = offset \/ offset' = offset + 1
      BY DEF Next, Commit, Expire, PublisherStep, PublisherFails, ReadOutbox, WriteBack,
         Publish, Mark, WorkerStep, WorkerDies, Reclaim, Inspect, DeadLetter, ReadNew, Work,
         Acknowledge, outbox, vars
    <3> QED BY <3>1, <3>2
  <2>2. CASE i \in Entries
    <3>1. CASE stream'[i].state = stream[i].state
      <4>1. stream[i].state # "unread" => i <= offset
        BY <2>2 DEF Places
      <4>2. i <= offset => i <= offset'
        BY <2>1, <2>2
      <4>3. stream'[i].state # "unread" => stream[i].state # "unread"
        BY <3>1, Zenon
      <4> QED BY <4>1, <4>2, <4>3
    <3> QED BY <2>2, <3>1 DEF Grown
  <2> QED BY <2>2 DEF Grown
<1> QED BY <1>1, <1>2, <1>3 DEF Places

-----------------------------------------------------------------------------
(* Nothing is lost.                                                        *)

LEMMA NextProcessed ==
    ASSUME TypeOK, Places, Processed, Grown, [Next]_vars
    PROVE  Processed'
<1> SUFFICES ASSUME NEW v \in Workers, wpc'[v] = "acknowledge"
             PROVE  stream'[receipt'[v]].done
  BY DEF Processed
<1>1. CASE wpc[v] = "acknowledge" /\ receipt'[v] = receipt[v]
  <2>1. receipt[v] \in Entries /\ stream[receipt[v]].done
    BY <1>1, Held DEF Processed
  <2> QED BY <1>1, <2>1 DEF Grown
<1>2. ASSUME NEW w \in Workers, Work(w), v = w PROVE stream'[receipt'[v]].done
  <2>1. receipt'[v] = receipt[v] /\ receipt[w] \in Entries
    BY <1>2, Held DEF Work
  <2>2. stream[receipt[w]].event \notin Poison
    BY <1>2 DEF Work, TypeOK
  <2>3. Replaces(receipt[w], Finished(stream[receipt[w]]))
    <3>1. Finished(stream[receipt[w]]) \in Entry
      BY <2>1, LenProperties, Changes DEF TypeOK, Entries
    <3> QED BY <1>2, <2>1, <2>2, <3>1 DEF Work, Replaces, Finished
  <2>4. stream'[receipt[w]] = Finished(stream[receipt[w]]) /\ stream[receipt[w]] \in Entry
    BY <2>1, <2>3, ReplacesType, LenProperties DEF TypeOK, Entries
  <2> QED BY <1>2, <2>1, <2>4, Changes
<1>3. ASSUME NEW w \in Workers, WorkerStep(w) \/ WorkerDies(w)
      PROVE  (wpc[v] = "acknowledge" /\ receipt'[v] = receipt[v]) \/ (Work(w) /\ v = w)
  <2>1. CASE Reclaim(w)
    BY <2>1 DEF Reclaim, TypeOK
  <2>2. CASE Inspect(w)
    BY <2>2 DEF Inspect, HandOut, TypeOK
  <2>3. CASE DeadLetter(w) \/ Work(w) \/ Acknowledge(w) \/ WorkerDies(w)
    BY <2>3 DEF DeadLetter, Work, Acknowledge, WorkerDies, TypeOK
  <2>4. CASE ReadNew(w)
    BY <2>4 DEF ReadNew, TypeOK
  <2> QED BY <1>3, <2>1, <2>2, <2>3, <2>4 DEF WorkerStep
<1>4. CASE UNCHANGED worker
  BY <1>1, <1>4 DEF worker
<1> QED BY <1>1, <1>2, <1>3, <1>4
     DEF Next, Commit, Expire, PublisherStep, PublisherFails, ReadOutbox, WriteBack,
         Publish, Mark, vars

\* An event that is carried stays so.
LEMMA CarriedStays ==
    ASSUME TypeOK, Grown, NEW e, Carried(e)
    PROVE  Carried(e)'
<1>1. PICK i \in Entries :
        stream[i].event = e /\ (stream[i].state # "acked" \/ stream[i].done)
  BY DEF Carried
<1>2. i \in Entries'
  BY <1>1, LenProperties DEF TypeOK, Grown, Entries
<1>3. stream'[i].event = e /\ (stream'[i].state # "acked" \/ stream'[i].done)
  BY <1>1 DEF Grown
<1> QED BY <1>2, <1>3 DEF Carried

LEMMA NextMarked ==
    ASSUME TypeOK, Places, Marked, Grown, [Next]_vars
    PROVE  Marked'
<1>1. ASSUME NEW p \in Publishers, ppc[p] = "mark", batch'[p] = batch[p]
      PROVE  Carried(First(batch[p]))'
  <2>1. PICK e : e = First(batch[p])
    OBVIOUS
  <2>2. Carried(e)'
    BY <1>1, <2>1, CarriedStays DEF Marked
  <2> QED BY <1>1, <2>1, <2>2
<1>2. ASSUME NEW p \in Publishers, Publish(p)
      PROVE  Carried(First(batch[p]))'
  <2>1. PICK f : f = First(batch[p])
    OBVIOUS
  <2>2. f \in Events /\ batch' = batch /\ stream' = Append(stream, Sent(f))
    BY <1>2, <2>1, Batched DEF Publish
  <2>3. Sent(f) \in Entry /\ Sent(f).state = "unread" /\ Sent(f).event = f
    BY <2>2, DeliveryAssumption DEF Sent, Entry
  <2>4. /\ stream' \in Seq(Entry) /\ Len(stream') = Len(stream) + 1 /\ Len(stream) \in Nat
        /\ stream'[Len(stream) + 1] = Sent(f)
    BY <2>2, <2>3, AppendProperties, LenProperties DEF TypeOK
  <2>5. Len(stream) + 1 \in Entries'
    BY <2>4, LenProperties DEF Entries
  <2>6. Carried(f)'
    BY <2>3, <2>4, <2>5 DEF Carried
  <2> QED BY <2>1, <2>2, <2>6
<1>3. ASSUME NEW p \in Publishers, ppc'[p] = "mark"
      PROVE  (ppc[p] = "mark" /\ batch'[p] = batch[p]) \/ Publish(p)
  <2>1. ASSUME NEW q \in Publishers, PublisherStep(q) \/ PublisherFails(q)
        PROVE  (ppc[p] = "mark" /\ batch'[p] = batch[p]) \/ Publish(p)
    BY <1>3, <2>1 DEF PublisherStep, PublisherFails, ReadOutbox, WriteBack, Publish, Mark,
       TypeOK
  <2>2. CASE UNCHANGED publisher
    BY <1>3, <2>2 DEF publisher
  <2> QED BY <2>1, <2>2
       DEF Next, Commit, Expire, WorkerStep, WorkerDies, Reclaim, Inspect, DeadLetter,
           ReadNew, Work, Acknowledge, vars
<1>4. \A p \in Publishers : ppc'[p] = "mark" => Carried(First(batch[p]))'
  BY <1>1, <1>2, <1>3
<1> QED BY <1>4 DEF Marked

LEMMA NextNothingLost ==
    ASSUME TypeOK, Places, Marked, NothingLost, Grown, [Next]_vars
    PROVE  NothingLost'
<1> SUFFICES ASSUME NEW e, e \in published' PROVE Carried(e)'
  BY DEF NothingLost
<1>1. CASE e \in published
  BY <1>1, CarriedStays DEF NothingLost, TypeOK
<1>2. ASSUME NEW p \in Publishers, Mark(p), e = First(batch[p]) PROVE Carried(e)'
  BY <1>2, CarriedStays DEF Mark, Marked
<1>3. e \in published \/ \E p \in Publishers : Mark(p) /\ e = First(batch[p])
  BY DEF Next, Commit, Expire, PublisherStep, PublisherFails, ReadOutbox, WriteBack,
         Publish, Mark, WorkerStep, WorkerDies, Reclaim, Inspect, DeadLetter, ReadNew, Work,
         Acknowledge, outbox, vars
<1> QED BY <1>1, <1>2, <1>3

-----------------------------------------------------------------------------
(* The limit on deliveries.                                                *)

Limits == Counted /\ Apart /\ BoundedTries

\* Steps that count and hand out nothing, and claim nothing.
LEMMA SameLimits ==
    ASSUME TypeOK, Places, Grown, Limits,
           \A w \in Workers : claimed'[w] \subseteq claimed[w],
           \A i \in Entries : /\ stream'[i].tries = stream[i].tries
                              /\ stream'[i].count = stream[i].count,
           \A w \in Workers : \A i \in claimed'[w] : stream'[i].late => stream[i].late,
           \A i \in Entries' \ Entries : stream'[i].tries = 0 /\ stream'[i].count = 0
    PROVE  Limits'
<1>1. ASSUME NEW i \in Entries'
      PROVE  stream'[i].tries <= stream'[i].count /\ stream'[i].tries <= MaxDeliveries
  <2>1. CASE i \in Entries
    BY <2>1 DEF Limits, Counted, BoundedTries
  <2>2. CASE i \notin Entries
    BY <2>2, DeliveryAssumption
  <2> QED BY <2>1, <2>2
<1>2. ASSUME NEW w \in Workers, NEW i \in claimed'[w]
      PROVE  /\ ~ stream'[i].late
             /\ stream'[i].tries < stream'[i].count \/ stream'[i].count > MaxDeliveries
  <2>1. i \in claimed[w] /\ i \in Entries
    BY Held DEF TypeOK
  <2> QED BY <2>1 DEF Limits, Counted
<1>3. Apart'
  BY DEF Limits, Apart
<1> QED BY <1>1, <1>2, <1>3 DEF Limits, Counted, BoundedTries

LEMMA NextLimits ==
    ASSUME TypeOK, Places, Grown, Limits, [Next]_vars
    PROVE  Limits'
<1> USE DeliveryAssumption
<1>0. /\ Entries = 1..Len(stream) /\ Len(stream) \in Nat
      /\ \A i \in Entries : stream[i] \in Entry
      /\ \A w \in Workers : claimed[w] \subseteq Entries
      /\ offset \in Nat /\ offset <= Len(stream)
  BY LenProperties DEF TypeOK, Entries
<1>1. CASE UNCHANGED stream /\ \A w \in Workers : claimed'[w] \subseteq claimed[w]
  BY <1>1, SameLimits DEF Entries
<1>2. ASSUME NEW p \in Publishers, Publish(p) PROVE Limits'
  <2>1. PICK f : f = First(batch[p])
    OBVIOUS
  <2>2. f \in Events /\ claimed' = claimed /\ stream' = Append(stream, Sent(f))
    BY <1>2, <2>1, Batched DEF Publish, worker
  <2>3. /\ Sent(f) \in Entry /\ Sent(f).tries = 0 /\ Sent(f).count = 0
    BY <2>2 DEF Sent, Entry
  <2>4. /\ stream' \in Seq(Entry) /\ Len(stream') = Len(stream) + 1
        /\ \A i \in Entries : stream'[i] = stream[i]
        /\ stream'[Len(stream) + 1] = Sent(f)
    BY <1>0, <2>2, <2>3, AppendProperties DEF TypeOK
  <2>5. Entries' = 1..(Len(stream) + 1)
    BY <2>4, LenProperties DEF Entries
  <2>6. \A i \in Entries' \ Entries : stream'[i].tries = 0 /\ stream'[i].count = 0
    BY <1>0, <2>3, <2>4, <2>5
  <2> QED BY <1>0, <2>2, <2>4, <2>6, SameLimits
<1>3. ASSUME NEW i, NEW e, Replaces(i, e), e.tries = stream[i].tries,
             e.count = stream[i].count, e.late => stream[i].late,
             \A w \in Workers : claimed'[w] \subseteq claimed[w]
      PROVE  Limits'
  <2>1. /\ Entries' = Entries
        /\ \A j \in Entries : stream'[j] = stream[j] \/ (j = i /\ stream'[j] = e)
    BY <1>3, ReplacesType DEF Replaces
  <2>2. ASSUME NEW j \in Entries
        PROVE  /\ stream'[j].tries = stream[j].tries /\ stream'[j].count = stream[j].count
               /\ stream'[j].late => stream[j].late
    <3>1. CASE stream'[j] = stream[j]
      BY <3>1, Zenon
    <3>2. CASE j = i /\ stream'[j] = e
      BY <1>3, <3>2, Zenon
    <3> QED BY <2>1, <3>1, <3>2
  <2>3. \A w \in Workers : \A j \in claimed'[w] : stream'[j].late => stream[j].late
    BY <1>0, <1>3, <2>2
  <2> QED BY <1>3, <2>1, <2>2, <2>3, SameLimits
<1>4. ASSUME NEW w \in Workers, Reclaim(w) PROVE Limits'
  <2> DEFINE S == Lowest(Late, MaxDeliveries + 1)
  <2>1. S \subseteq Late /\ Late \subseteq Entries
    BY DEF Lowest, Late, Pending
  <2>2. claimed' = [claimed EXCEPT ![w] = S] /\ stream' = Redelivered(S)
    BY <1>4 DEF Reclaim, TypeOK
  <2> HIDE DEF S
  <2>3. /\ Len(stream') = Len(stream) /\ stream' \in Seq(Entry)
        /\ \A i \in Entries :
             /\ stream'[i].tries = stream[i].tries
             /\ i \notin S => stream'[i] = stream[i]
             /\ i \in S => /\ ~ stream'[i].late
                           /\ stream'[i].count = IF stream[i].count > MaxDeliveries
                                                 THEN stream[i].count
                                                 ELSE stream[i].count + 1
    BY <2>2, RedeliveredType
  <2>4. Entries' = Entries
    BY <1>0, <2>3, LenProperties DEF Entries
  <2>5. \A i \in Entries : stream[i].tries \in Nat /\ stream[i].count \in Nat
    BY <1>0 DEF Entry
  <2>6. \A i \in Entries : /\ stream[i].tries <= stream[i].count
                           /\ stream[i].tries <= MaxDeliveries
    BY DEF Limits, Counted, BoundedTries
  <2>7. ASSUME NEW i \in Entries
        PROVE  /\ stream'[i].tries <= stream'[i].count
               /\ stream'[i].tries <= MaxDeliveries
               /\ i \in S => ~ stream'[i].late
                             /\ (stream'[i].tries < stream'[i].count
                                 \/ stream'[i].count > MaxDeliveries)
    <3>1. CASE i \notin S
      BY <2>3, <2>6, <3>1
    <3>2. CASE i \in S
      <4>1. /\ stream'[i].tries = stream[i].tries /\ ~ stream'[i].late
            /\ stream'[i].count = IF stream[i].count > MaxDeliveries
                                  THEN stream[i].count ELSE stream[i].count + 1
        BY <2>3, <3>2
      <4> QED BY <2>5, <2>6, <4>1
    <3> QED BY <3>1, <3>2
  <2>8. \A v \in Workers : \A i \in claimed[v] : i \notin S
    BY <2>1 DEF Limits, Counted, Late
  <2>9. ASSUME NEW v \in Workers, NEW i \in claimed'[v]
        PROVE  /\ ~ stream'[i].late
               /\ stream'[i].tries < stream'[i].count \/ stream'[i].count > MaxDeliveries
    <3>1. CASE i \in S
      BY <2>1, <2>7, <3>1
    <3>2. CASE i \notin S
      <4>1. i \in claimed[v] /\ i \in Entries
        BY <1>0, <2>2, <3>2 DEF TypeOK
      <4>2. stream'[i] = stream[i]
        BY <2>3, <3>2, <4>1
      <4> QED BY <4>1, <4>2 DEF Limits, Counted
    <3> QED BY <3>1, <3>2
  <2>10. Apart'
    BY <2>2, <2>8 DEF Limits, Apart, TypeOK
  <2> QED BY <2>4, <2>7, <2>9, <2>10 DEF Limits, Counted, BoundedTries
<1>5. ASSUME NEW w \in Workers, Inspect(w), HandOut(w, First(claimed[w])) PROVE Limits'
  <2>1. PICK i : i = First(claimed[w])
    OBVIOUS
  <2>2. i \in claimed[w] /\ i \in Entries
    BY <1>5, <2>1, Held DEF Inspect
  <2>3. stream[i].count <= MaxDeliveries
    <3>1. CASE HandOut(w, i) /\ stream[i].count > MaxDeliveries
      BY <1>5, <2>1, <3>1 DEF Inspect, HandOut, TypeOK
    <3>2. CASE i \notin Pending
      BY <1>5, <2>1, <3>2 DEF Inspect, HandOut, TypeOK
    <3> QED BY <1>5, <2>1, <3>1, <3>2 DEF Inspect
  <2>4. /\ Replaces(i, Tried(stream[i])) /\ claimed' = [claimed EXCEPT ![w] = {}]
    BY <1>5, <2>1, <2>2, Replacing DEF HandOut
  <2>5. /\ Entries' = Entries /\ stream'[i] = Tried(stream[i])
        /\ \A j \in Entries : j # i => stream'[j] = stream[j]
    BY <2>4, ReplacesType
  <2>6. /\ stream'[i].tries = stream[i].tries + 1 /\ stream'[i].count = stream[i].count
        /\ stream[i].tries \in Nat /\ stream[i].count \in Nat
    BY <1>0, <2>2, <2>5, Changes DEF Entry
  <2>7. stream[i].tries < stream[i].count
    BY <2>2, <2>3, <2>6 DEF Limits, Counted
  <2>8. ASSUME NEW j \in Entries
        PROVE  stream'[j].tries <= stream'[j].count /\ stream'[j].tries <= MaxDeliveries
    <3>1. CASE j = i
      BY <2>3, <2>6, <2>7, <3>1
    <3>2. CASE j # i
      BY <2>5, <3>2 DEF Limits, Counted, BoundedTries
    <3> QED BY <3>1, <3>2
  <2>9. ASSUME NEW v \in Workers, NEW j \in claimed'[v]
        PROVE  /\ ~ stream'[j].late
               /\ stream'[j].tries < stream'[j].count \/ stream'[j].count > MaxDeliveries
    <3>1. j \in claimed[v] /\ v # w /\ j \in Entries
      BY <1>0, <2>4 DEF TypeOK
    <3>2. j # i
      BY <2>2, <3>1 DEF Limits, Apart
    <3> QED BY <2>5, <3>1, <3>2 DEF Limits, Counted
  <2>10. Apart'
    BY <2>4 DEF Limits, Apart, TypeOK
  <2> QED BY <2>5, <2>8, <2>9, <2>10 DEF Limits, Counted, BoundedTries
<1>6. ASSUME NEW w \in Workers, ReadNew(w), ~ UNCHANGED stream PROVE Limits'
  <2>1. PICK i : i = offset + 1
    OBVIOUS
  <2>2. Replaces(i, Taken(stream[i])) /\ claimed' = claimed
    BY <1>6, <2>1, Replacing DEF ReadNew
  <2>3. /\ Entries' = Entries /\ stream'[i] = Taken(stream[i])
        /\ \A j \in Entries : j # i => stream'[j] = stream[j]
    BY <2>2, ReplacesType
  <2>4. stream'[i].tries = 1 /\ stream'[i].count = 1
    BY <1>0, <2>2, <2>3, Changes DEF Replaces
  <2>5. ASSUME NEW j \in Entries
        PROVE  stream'[j].tries <= stream'[j].count /\ stream'[j].tries <= MaxDeliveries
    <3>1. CASE j = i
      BY <2>4, <3>1
    <3>2. CASE j # i
      BY <2>3, <3>2 DEF Limits, Counted, BoundedTries
    <3> QED BY <3>1, <3>2
  <2>6. ASSUME NEW v \in Workers, NEW j \in claimed[v]
        PROVE  /\ ~ stream'[j].late
               /\ stream'[j].tries < stream'[j].count \/ stream'[j].count > MaxDeliveries
    <3>1. j \in 1..offset /\ j \in Entries
      BY <1>0 DEF TypeOK
    <3>2. j # i
      BY <1>0, <2>1, <3>1
    <3> QED BY <2>3, <3>1, <3>2 DEF Limits, Counted
  <2>7. Apart'
    BY <2>2 DEF Limits, Apart
  <2> QED BY <2>2, <2>3, <2>5, <2>6, <2>7 DEF Limits, Counted, BoundedTries
<1>7. ASSUME Expire PROVE Limits'
  <2>1. PICK S : stream' = [i \in Entries |-> IF i \in S THEN Expired(stream[i])
                                              ELSE stream[i]]
    BY <1>7 DEF Expire, Expired
  <2>2. \A w \in Workers : claimed'[w] = {} /\ claimed[w] = {}
    BY <1>7 DEF Expire, Places, worker
  <2>3. Entries' = Entries
    BY <2>1 DEF Entries
  <2>4. \A i \in Entries : /\ stream'[i].tries = stream[i].tries
                           /\ stream'[i].count = stream[i].count
    BY <1>0, <2>1, Changes
  <2> QED BY <2>2, <2>3, <2>4, SameLimits
<1>8. ASSUME NEW w \in Workers, DeadLetter(w) PROVE Limits'
  <2>1. PICK i : i = First(claimed[w])
    OBVIOUS
  <2>2. Replaces(i, Buried(stream[i]))
    BY <1>8, <2>1, Replacing
  <2>3. stream[i] \in Entry
    BY <1>0, <2>2 DEF Replaces
  <2>4. \A v \in Workers : claimed'[v] \subseteq claimed[v]
    BY <1>8 DEF DeadLetter, TypeOK
  <2> QED BY <1>3, <2>2, <2>3, <2>4, Changes
<1>9. ASSUME NEW w \in Workers, Work(w) \/ Acknowledge(w) PROVE Limits'
  <2>1. \A v \in Workers : claimed'[v] \subseteq claimed[v]
    BY <1>9 DEF Work, Acknowledge
  <2>2. PICK i : i = receipt[w]
    OBVIOUS
  <2>3. UNCHANGED stream \/ Replaces(i, Finished(stream[i])) \/ Replaces(i, Left(stream[i]))
    BY <1>9, <2>2, Replacing
  <2>4. Replaces(i, Finished(stream[i])) \/ Replaces(i, Left(stream[i])) => stream[i] \in Entry
    BY <1>0 DEF Replaces
  <2>5. CASE Replaces(i, Finished(stream[i]))
    BY <1>3, <2>1, <2>4, <2>5, Changes
  <2>6. CASE Replaces(i, Left(stream[i]))
    BY <1>3, <2>1, <2>4, <2>6, Changes
  <2> QED BY <1>1, <2>1, <2>3, <2>5, <2>6
<1>10. ASSUME NEW w \in Workers, Inspect(w), ~ HandOut(w, First(claimed[w])) PROVE Limits'
  <2>1. UNCHANGED stream /\ \A v \in Workers : claimed'[v] \subseteq claimed[v]
    BY <1>10 DEF Inspect, TypeOK
  <2> QED BY <1>1, <2>1
<1>11. ASSUME NEW w \in Workers, WorkerDies(w) \/ (ReadNew(w) /\ UNCHANGED stream)
       PROVE  Limits'
  <2>1. UNCHANGED stream /\ \A v \in Workers : claimed'[v] \subseteq claimed[v]
    BY <1>11 DEF WorkerDies, ReadNew, TypeOK
  <2> QED BY <1>1, <2>1
<1>12. CASE UNCHANGED <<stream, claimed>>
  BY <1>1, <1>12
<1> QED
  BY <1>2, <1>4, <1>5, <1>6, <1>7, <1>8, <1>9, <1>10, <1>11, <1>12
  DEF Next, PublisherStep, WorkerStep, Commit, ReadOutbox, WriteBack, Mark,
      PublisherFails, worker, vars

-----------------------------------------------------------------------------
(* The theorems.                                                           *)

LEMMA InitInv == Init => IInv
<1> SUFFICES ASSUME Init PROVE IInv
  OBVIOUS
<1>1. Entries = {} /\ Len(stream) = 0 /\ stream \in Seq(Entry)
  BY EmptySeq DEF Init, Entries
<1>2. TypeOK
  BY <1>1, DeliveryAssumption DEF Init, TypeOK
<1> QED BY <1>1, <1>2 DEF Init, IInv, Places, Processed, Marked, NothingLost, Counted, Apart,
       BoundedTries

LEMMA NextInv == IInv /\ [Next]_vars => IInv'
<1> SUFFICES ASSUME IInv, [Next]_vars PROVE IInv'
  OBVIOUS
<1>1. Grown
  BY StreamGrows DEF IInv
<1>2. Limits
  BY DEF IInv, Limits
<1>3. Limits'
  BY <1>1, <1>2, NextLimits DEF IInv
<1> QED BY <1>1, <1>3, NextType, NextPlaces, NextProcessed, NextMarked, NextNothingLost
     DEF IInv, Limits

LEMMA Invariance == Spec => []IInv
<1> QED BY InitInv, NextInv, PTL DEF Spec

\* Every variable keeps its type, for every number of processes and events.
THEOREM DeliveryTypeCorrect == Spec => []TypeOK
<1>1. IInv => TypeOK
  BY DEF IInv
<1> QED BY <1>1, Invariance, PTL

\* No committed event is lost, however publishers overlap and processes die.
THEOREM NothingIsLost == Spec => []NothingLost
<1>1. IInv => NothingLost
  BY DEF IInv
<1> QED BY <1>1, Invariance, PTL

\* No entry is handed out more often than max_delivery_attempts.
THEOREM TriesAreBounded == Spec => []BoundedTries
<1>1. IInv => BoundedTries
  BY DEF IInv
<1> QED BY <1>1, Invariance, PTL

\* Steps that change neither length, nor what is acknowledged, nor receipts.
LEMMA LaneStutters ==
    ASSUME TypeOK, Grown, UNCHANGED receipt, Len(stream') = Len(stream),
           \A i \in Entries : stream'[i].state = "acked" <=> stream[i].state = "acked"
    PROVE  UNCHANGED <<Len(stream), {i \in Entries : stream[i].state # "acked"}, receipt>>
<1>1. Entries' = Entries
  BY LenProperties DEF TypeOK, Grown, Entries
<1> QED BY <1>1

\* Every step of the transport is a step of the lane, or none.
LEMMA LaneStep ==
    ASSUME IInv, [Next]_vars
    PROVE  [Lane!Next]_<<Len(stream), {i \in Entries : stream[i].state # "acked"}, receipt>>
<1> DEFINE Q == {i \in Entries : stream[i].state # "acked"}
<1> USE DEF IInv
<1>0. /\ Grown /\ Entries = 1..Len(stream) /\ Len(stream) \in Nat
      /\ \A i \in Entries : stream[i] \in Entry
  BY StreamGrows, LenProperties DEF TypeOK, Entries
<1>1. CASE UNCHANGED <<stream, receipt>>
  BY <1>0, <1>1 DEF Entries
<1>2. ASSUME NEW p \in Publishers, Publish(p) PROVE Lane!Send
  <2>1. PICK f : f = First(batch[p])
    OBVIOUS
  <2>2. f \in Events /\ receipt' = receipt /\ stream' = Append(stream, Sent(f))
    BY <1>2, <2>1, Batched DEF Publish, worker
  <2>3. Sent(f) \in Entry /\ Sent(f).state = "unread"
    BY <2>2, DeliveryAssumption DEF Sent, Entry
  <2>4. /\ stream' \in Seq(Entry) /\ Len(stream') = Len(stream) + 1
        /\ \A i \in Entries : stream'[i] = stream[i]
        /\ stream'[Len(stream) + 1] = Sent(f)
    BY <1>0, <2>2, <2>3, AppendProperties DEF TypeOK
  <2>5. Entries' = Entries \union {Len(stream) + 1}
    BY <1>0, <2>4, LenProperties DEF Entries
  <2>6. Q' = Q \union {Len(stream) + 1}
    BY <2>3, <2>4, <2>5
  <2> QED BY <2>2, <2>4, <2>6 DEF Lane!Send
<1>3. ASSUME NEW w \in Workers, NEW i, HandOut(w, i), i \in Pending PROVE Lane!Receive(w)
  <2>1. Replaces(i, Tried(stream[i])) /\ i \in Entries /\ stream[i].state # "acked"
    BY <1>3, Replacing DEF Pending
  <2>2. /\ Len(stream') = Len(stream) /\ Entries' = Entries /\ stream'[i] = Tried(stream[i])
        /\ \A j \in Entries : j # i => stream'[j] = stream[j]
    BY <2>1, ReplacesType
  <2>3. \A j \in Entries : stream'[j].state = stream[j].state
    BY <1>0, <2>1, <2>2, Changes
  <2>4. Q' = Q /\ i \in Q
    BY <2>1, <2>2, <2>3
  <2> QED BY <1>3, <2>2, <2>4 DEF HandOut, Lane!Receive
<1>4. ASSUME NEW w \in Workers, Inspect(w)
      PROVE  Lane!Receive(w) \/ UNCHANGED <<Len(stream), Q, receipt>>
  <2>1. PICK i : i = First(claimed[w])
    OBVIOUS
  <2>2. (HandOut(w, i) /\ i \in Pending) \/ UNCHANGED <<stream, receipt>>
    BY <1>4, <2>1 DEF Inspect
  <2> QED BY <1>3, <2>2 DEF Entries
<1>5. ASSUME NEW w \in Workers, ReadNew(w)
      PROVE  Lane!Receive(w) \/ UNCHANGED <<Len(stream), Q, receipt>>
  <2>1. CASE offset < Len(stream)
    <3>1. PICK i : i = offset + 1
      OBVIOUS
    <3>2. i \in Entries /\ receipt' = [receipt EXCEPT ![w] = i]
          /\ stream' = [stream EXCEPT ![i] = Taken(stream[i])]
      BY <1>0, <1>5, <2>1, <3>1 DEF ReadNew, Taken, TypeOK
    <3>3. Taken(stream[i]) \in Entry /\ Taken(stream[i]).state = "pending"
      BY <1>0, <3>2, Changes
    <3>4. /\ Len(stream') = Len(stream) /\ Entries' = Entries /\ stream'[i] = Taken(stream[i])
          /\ \A j \in Entries : j # i => stream'[j] = stream[j]
      BY <3>2, <3>3, ReplacesType DEF Replaces
    <3>5. stream[i].state # "acked"
      BY <1>0, <3>1, <3>2 DEF Places, TypeOK
    <3>6. Q' = Q /\ i \in Q
      BY <3>2, <3>3, <3>4, <3>5
    <3> QED BY <3>2, <3>4, <3>6 DEF Lane!Receive
  <2>2. CASE ~ (offset < Len(stream))
    BY <1>5, <2>2 DEF ReadNew, Entries
  <2> QED BY <2>1, <2>2
<1>6. ASSUME NEW w \in Workers, Acknowledge(w)
      PROVE  Lane!Acknowledge(w) \/ UNCHANGED <<Len(stream), Q, receipt>>
  <2>1. PICK i : i = receipt[w]
    OBVIOUS
  <2>2. CASE Replaces(i, Left(stream[i]))
    <3>1. Left(stream[i]).state = "acked"
      BY <1>0, <2>2, Changes DEF Replaces
    <3>2. /\ Len(stream') = Len(stream) /\ Entries' = Entries /\ stream'[i] = Left(stream[i])
          /\ \A j \in Entries : j # i => stream'[j] = stream[j]
      BY <2>2, ReplacesType
    <3>3. Q' = Q \ {i}
      BY <3>1, <3>2
    <3> QED BY <1>6, <2>1, <3>2, <3>3 DEF Acknowledge, Lane!Acknowledge
  <2>3. CASE UNCHANGED stream
    BY <1>6, <2>3 DEF Acknowledge, Entries
  <2> QED BY <1>6, <2>1, <2>2, <2>3, Replacing
<1>7. ASSUME UNCHANGED receipt, Len(stream') = Len(stream),
             \A i \in Entries : stream'[i].state = stream[i].state
      PROVE  UNCHANGED <<Len(stream), Q, receipt>>
  BY <1>0, <1>7, LaneStutters
<1>8. ASSUME NEW w \in Workers, Reclaim(w) PROVE UNCHANGED <<Len(stream), Q, receipt>>
  <2>1. /\ Len(stream') = Len(stream) /\ receipt' = receipt
        /\ \A i \in Entries : stream'[i].state = stream[i].state
    BY <1>8, RedeliveredType DEF Reclaim
  <2> QED BY <1>7, <2>1
<1>9. ASSUME NEW i, NEW e, Replaces(i, e), e.state = stream[i].state, UNCHANGED receipt
      PROVE  UNCHANGED <<Len(stream), Q, receipt>>
  <2>1. /\ Len(stream') = Len(stream)
        /\ \A j \in Entries : stream'[j] = stream[j] \/ (j = i /\ stream'[j] = e)
    BY <1>9, ReplacesType DEF Replaces
  <2>2. ASSUME NEW j \in Entries PROVE stream'[j].state = stream[j].state
    BY <1>9, <2>1
  <2> QED BY <1>7, <1>9, <2>1, <2>2
<1>10. ASSUME NEW w \in Workers, DeadLetter(w) PROVE UNCHANGED <<Len(stream), Q, receipt>>
  <2>1. PICK i : i = First(claimed[w])
    OBVIOUS
  <2>2. Replaces(i, Buried(stream[i])) /\ receipt' = receipt
    BY <1>10, <2>1, Replacing DEF DeadLetter
  <2>3. Buried(stream[i]).state = stream[i].state
    BY <1>0, <2>2, Changes DEF Replaces
  <2> QED BY <1>9, <2>2, <2>3
<1>11. ASSUME NEW w \in Workers, Work(w) PROVE UNCHANGED <<Len(stream), Q, receipt>>
  <2>1. PICK i : i = receipt[w]
    OBVIOUS
  <2>2. UNCHANGED stream \/ Replaces(i, Finished(stream[i]))
    BY <1>11, <2>1, Replacing
  <2>3. Replaces(i, Finished(stream[i])) => Finished(stream[i]).state = stream[i].state
    BY <1>0, Changes DEF Replaces
  <2>4. receipt' = receipt
    BY <1>11 DEF Work
  <2> QED BY <1>9, <2>2, <2>3, <2>4 DEF Entries
<1>12. ASSUME Expire PROVE UNCHANGED <<Len(stream), Q, receipt>>
  <2>1. PICK S : stream' = [i \in Entries |-> IF i \in S THEN Expired(stream[i])
                                              ELSE stream[i]]
    BY <1>12 DEF Expire, Expired
  <2>2. \A i \in Entries : Expired(stream[i]) \in Entry
                           /\ Expired(stream[i]).state = stream[i].state
    BY <1>0, Changes
  <2>3. stream' \in [DOMAIN stream -> Entry]
    BY <1>0, <2>1, <2>2 DEF Entries
  <2>4. Len(stream') = Len(stream)
    BY <2>3, Mapped DEF TypeOK
  <2>5. receipt' = receipt
    BY <1>12 DEF Expire, worker
  <2>6. \A i \in Entries : stream'[i].state = stream[i].state
    BY <2>1, <2>2
  <2> QED BY <1>7, <2>4, <2>5, <2>6
<1> HIDE DEF IInv, Q
<1> QED
  BY <1>1, <1>2, <1>4, <1>5, <1>6, <1>8, <1>10, <1>11, <1>12
  DEF Next, PublisherStep, WorkerStep, Commit, ReadOutbox, WriteBack, Mark,
      PublisherFails, WorkerDies, worker, vars, Lane!Next, Q

\* The Stream transport implements the lane that BaselineMission relies on.
THEOREM LaneImplemented == Spec => LaneKept
<1>1. Init => Lane!Init
  BY DEF Init, Lane!Init, Entries
<1>2. IInv /\ [Next]_vars
      => [Lane!Next]_<<Len(stream), {i \in Entries : stream[i].state # "acked"}, receipt>>
  BY LaneStep
<1> QED BY <1>1, <1>2, Invariance, PTL DEF Spec, LaneKept, Lane!Spec
=============================================================================
