--------------------------- MODULE OutboxDelivery ---------------------------
(***************************************************************************)
(* From the Outbox to the workers: PublishPendingOutbox copies committed   *)
(* Outbox events to a Redis Stream, and RedisTaskQueue hands the entries   *)
(* of the Stream's consumer group to workers, reclaims those whose worker  *)
(* kept them for longer than the visibility timeout, and moves exhausted   *)
(* ones to the dead-letter Stream.                                         *)
(*                                                                         *)
(* One action is one transaction of PostgreSQL or one command of Redis.    *)
(***************************************************************************)
EXTENDS Naturals, Sequences, FiniteSets

CONSTANTS
    Publishers, Workers,
    MaxEvents,      \* bound: Outbox events committed over the run
    Poison,         \* the events whose processing always raises
    MaxDeliveries,  \* max_delivery_attempts
    MaxFaults       \* bound: processes that die, calls that fail

ASSUME DeliveryAssumption ==
    /\ MaxEvents \in Nat /\ Poison \subseteq 1..MaxEvents
    /\ MaxDeliveries \in Nat \ {0} /\ MaxFaults \in Nat

Events == 1..MaxEvents      \* in the order of occurred_at

VARIABLES
    committed,  \* events 1..committed are in the Outbox
    published,  \* those marked published
    stream,     \* the entries of the Stream, with what the group knows of each
    offset,     \* the group's last delivered entry
    batch,      \* per publisher: the events it has read and not yet marked
    ppc,        \* per publisher: its next step
    claimed,    \* per worker: entries of its XAUTOCLAIM not yet looked at
    receipt,    \* per worker: the entry being processed
    wpc,        \* per worker: its next step
    rested,     \* workers that polled in vain since an entry last expired
    faults

\* state: unread, pending for a consumer, acknowledged.  count: its deliveries
\* as Redis counts them, up to one past the limit.  late: idle for longer than
\* the visibility timeout.  tries: how often it was handed to a worker.
\* done: a worker processed it to the end.  dead: it is in the dead-letter Stream.
Entry == [event : Events, state : {"unread", "pending", "acked"},
          count : 0..(MaxDeliveries + 1), late : BOOLEAN, tries : Nat,
          done : BOOLEAN, dead : BOOLEAN]

outbox    == <<committed, published>>
publisher == <<batch, ppc>>
worker    == <<claimed, receipt, wpc>>
vars      == <<outbox, stream, offset, publisher, worker, rested, faults>>

Init ==
    /\ committed = 0 /\ published = {}
    /\ stream = <<>> /\ offset = 0
    /\ batch = [p \in Publishers |-> {}] /\ ppc = [p \in Publishers |-> "idle"]
    /\ claimed = [w \in Workers |-> {}] /\ receipt = [w \in Workers |-> 0]
    /\ wpc = [w \in Workers |-> "idle"]
    /\ rested = {} /\ faults = 0

First(S) == CHOOSE e \in S : \A f \in S : e <= f

-----------------------------------------------------------------------------
(* The Outbox and its publishers.                                          *)

\* A use case commits a business change together with its event.
Commit ==
    /\ committed < MaxEvents
    /\ committed' = committed + 1
    /\ UNCHANGED <<published, stream, offset, publisher, worker, rested, faults>>

Unpublished == (1..committed) \ published

\* Mutant: an event is marked when it is read.
ReadMarking(p) ==
    /\ ppc[p] = "idle" /\ Unpublished # {}
    /\ batch' = [batch EXCEPT ![p] = Unpublished]
    /\ published' = published \union Unpublished
    /\ ppc' = [ppc EXCEPT ![p] = "publish"]
    /\ UNCHANGED <<committed, stream, offset, worker, rested, faults>>

\* get_unpublished_outbox_events.  To read while another publisher is at work
\* counts as a fault, which bounds the duplicates.
ReadOutbox(p) ==
    /\ ppc[p] = "idle" /\ Unpublished # {}
    /\ IF \A q \in Publishers : ppc[q] = "idle"
          THEN UNCHANGED faults
          ELSE faults < MaxFaults /\ faults' = faults + 1
    /\ batch' = [batch EXCEPT ![p] = Unpublished]
    /\ ppc' = [ppc EXCEPT ![p] = "writeBack"]
    /\ UNCHANGED <<outbox, stream, offset, worker, rested>>

\* The commit that ends the read merges the events back as unpublished rows,
\* over the mark another publisher may have set since.
WriteBack(p) ==
    /\ ppc[p] = "writeBack"
    /\ published' = published \ batch[p]
    /\ ppc' = [ppc EXCEPT ![p] = "publish"]
    /\ UNCHANGED <<committed, stream, offset, batch, worker, rested, faults>>

Sent(e) == [event |-> e, state |-> "unread", count |-> 0, late |-> FALSE,
            tries |-> 0, done |-> FALSE, dead |-> FALSE]

Publish(p) ==
    /\ ppc[p] = "publish"
    /\ stream' = Append(stream, Sent(First(batch[p])))
    /\ ppc' = [ppc EXCEPT ![p] = "mark"]
    /\ UNCHANGED <<outbox, offset, batch, worker, rested, faults>>

Mark(p) ==
    /\ ppc[p] = "mark"
    /\ published' = published \union {First(batch[p])}
    /\ batch' = [batch EXCEPT ![p] = @ \ {First(@)}]
    /\ ppc' = [ppc EXCEPT ![p] = IF batch'[p] = {} THEN "idle" ELSE "publish"]
    /\ UNCHANGED <<committed, stream, offset, worker, rested, faults>>

\* Any exception ends execute(), and the process, which is started again.
PublisherFails(p) ==
    /\ ppc[p] # "idle" /\ faults < MaxFaults
    /\ faults' = faults + 1
    /\ batch' = [batch EXCEPT ![p] = {}]
    /\ ppc' = [ppc EXCEPT ![p] = "idle"]
    /\ UNCHANGED <<outbox, stream, offset, worker, rested>>

-----------------------------------------------------------------------------
(* RedisTaskQueue.receive.                                                 *)

Entries == DOMAIN stream
Pending == {i \in Entries : stream[i].state = "pending"}
Late    == {i \in Pending : stream[i].late}
Lowest(S, n) == {i \in S : Cardinality({j \in S : j < i}) < n}

\* Redis delivers the entries of S again.
Redelivered(S) == [i \in Entries |->
    IF i \in S
    THEN [stream[i] EXCEPT !.late = FALSE,
                           !.count = IF @ > MaxDeliveries THEN @ ELSE @ + 1]
    ELSE stream[i]]

\* Mutant: the visibility timeout is ignored.
ReclaimAll(w) ==
    /\ wpc[w] = "idle"
    /\ claimed' = [claimed EXCEPT ![w] = Lowest(Pending, MaxDeliveries + 1)]
    /\ stream' = Redelivered(claimed'[w])
    /\ wpc' = [wpc EXCEPT ![w] = "inspect"]
    /\ UNCHANGED <<outbox, offset, publisher, receipt, rested, faults>>

\* Mutant: entries nobody has read are taken over too.
ReclaimUnread(w) ==
    /\ wpc[w] = "idle"
    /\ claimed' = [claimed EXCEPT ![w] = Lowest(Entries \ Pending, MaxDeliveries + 1)]
    /\ stream' = Redelivered(claimed'[w])
    /\ wpc' = [wpc EXCEPT ![w] = "inspect"]
    /\ UNCHANGED <<outbox, offset, publisher, receipt, rested, faults>>

\* XAUTOCLAIM takes over up to max_delivery_attempts + 1 expired entries, and
\* counts a delivery for each, though one of them is handed out at the most.
Reclaim(w) ==
    /\ wpc[w] = "idle"
    /\ claimed' = [claimed EXCEPT ![w] = Lowest(Late, MaxDeliveries + 1)]
    /\ stream' = Redelivered(claimed'[w])
    /\ wpc' = [wpc EXCEPT ![w] = "inspect"]
    /\ UNCHANGED <<outbox, offset, publisher, receipt, rested, faults>>

HandOut(w, i) ==
    /\ stream' = [stream EXCEPT ![i].tries = @ + 1]
    /\ receipt' = [receipt EXCEPT ![w] = i]
    /\ claimed' = [claimed EXCEPT ![w] = {}]
    /\ wpc' = [wpc EXCEPT ![w] = "work"]

\* Mutants: an entry that was acknowledged meanwhile is handed out; one
\* delivery too many.
InspectUnchecked(w) ==
    /\ wpc[w] = "inspect" /\ claimed[w] # {}
    /\ HandOut(w, First(claimed[w]))
    /\ UNCHANGED <<outbox, offset, publisher, rested, faults>>
InspectLate(w) ==
    LET i == First(claimed[w]) IN
    /\ wpc[w] = "inspect" /\ claimed[w] # {} /\ i \in Pending
    /\ stream[i].count <= MaxDeliveries + 1
    /\ HandOut(w, i)
    /\ UNCHANGED <<outbox, offset, publisher, rested, faults>>

\* XPENDING tells whether the first claimed entry is still pending (receive
\* raises when it is not), and how often it was delivered.
Inspect(w) ==
    LET i == First(claimed[w]) IN
    /\ wpc[w] = "inspect" /\ claimed[w] # {}
    /\ \/ /\ i \in Pending /\ stream[i].count <= MaxDeliveries
          /\ HandOut(w, i)
       \/ /\ i \in Pending /\ stream[i].count > MaxDeliveries
          /\ wpc' = [wpc EXCEPT ![w] = "deadLetter"]
          /\ UNCHANGED <<stream, receipt, claimed>>
       \/ /\ i \notin Pending
          /\ wpc' = [wpc EXCEPT ![w] = "idle"]
          /\ claimed' = [claimed EXCEPT ![w] = {}]
          /\ UNCHANGED <<stream, receipt>>
    /\ UNCHANGED <<outbox, offset, publisher, rested, faults>>

\* The script adds the dead letter, then calls XACK without the group's name.
\* Redis fails that call and keeps the letter: the entry stays pending and
\* receive raises, whatever else was claimed.
DeadLetter(w) ==
    /\ wpc[w] = "deadLetter"
    /\ stream' = [stream EXCEPT ![First(claimed[w])].dead = TRUE]
    /\ claimed' = [claimed EXCEPT ![w] = {}]
    /\ wpc' = [wpc EXCEPT ![w] = "idle"]
    /\ UNCHANGED <<outbox, offset, publisher, receipt, rested, faults>>

\* Nothing was reclaimed: XREADGROUP reads the next entry, if there is one.
ReadNew(w) ==
    /\ wpc[w] = "inspect" /\ claimed[w] = {}
    /\ IF offset < Len(stream)
          THEN /\ offset' = offset + 1
               /\ stream' = [stream EXCEPT ![offset + 1] =
                     [@ EXCEPT !.state = "pending", !.count = 1, !.tries = 1]]
               /\ receipt' = [receipt EXCEPT ![w] = offset + 1]
               /\ wpc' = [wpc EXCEPT ![w] = "work"]
               /\ UNCHANGED rested
          ELSE /\ wpc' = [wpc EXCEPT ![w] = "idle"]
               /\ rested' = rested \union {w}
               /\ UNCHANGED <<stream, offset, receipt>>
    /\ UNCHANGED <<outbox, publisher, claimed, faults>>

-----------------------------------------------------------------------------
(* process_one, and the passing of time.                                   *)

\* Mutant: a failed Attempt is acknowledged too.
WorkAnyway(w) ==
    /\ wpc[w] = "work"
    /\ wpc' = [wpc EXCEPT ![w] = "acknowledge"]
    /\ UNCHANGED <<outbox, stream, offset, publisher, claimed, receipt, rested, faults>>

\* The Attempt is processed, or an exception leaves the entry pending.
Work(w) ==
    /\ wpc[w] = "work"
    /\ IF stream[receipt[w]].event \in Poison
          THEN wpc' = [wpc EXCEPT ![w] = "idle"] /\ UNCHANGED stream
          ELSE /\ wpc' = [wpc EXCEPT ![w] = "acknowledge"]
               /\ stream' = [stream EXCEPT ![receipt[w]].done = TRUE]
    /\ UNCHANGED <<outbox, offset, publisher, claimed, receipt, rested, faults>>

\* XACK; when another worker acknowledged the entry first, it raises.
Acknowledge(w) ==
    /\ wpc[w] = "acknowledge"
    /\ IF receipt[w] \in Pending
          THEN stream' = [stream EXCEPT ![receipt[w]].state = "acked",
                                        ![receipt[w]].late = FALSE]
          ELSE UNCHANGED stream
    /\ wpc' = [wpc EXCEPT ![w] = "idle"]
    /\ UNCHANGED <<outbox, offset, publisher, claimed, receipt, rested, faults>>

WorkerDies(w) ==
    /\ wpc[w] # "idle" /\ faults < MaxFaults
    /\ faults' = faults + 1
    /\ claimed' = [claimed EXCEPT ![w] = {}]
    /\ wpc' = [wpc EXCEPT ![w] = "idle"]
    /\ UNCHANGED <<outbox, stream, offset, publisher, receipt, rested>>

\* Entries become idle for longer than the visibility timeout.  It is a minute
\* where a poll takes a second: by then every worker is processing an Attempt,
\* or has polled until there was nothing to read.
Expire ==
    /\ \A w \in Workers :
          wpc[w] \in {"work", "acknowledge"} \/ (w \in rested /\ wpc[w] = "idle")
    /\ \E S \in SUBSET (Pending \ Late) \ {{}} :
          stream' = [i \in Entries |-> IF i \in S THEN [stream[i] EXCEPT !.late = TRUE]
                                                  ELSE stream[i]]
    /\ rested' = {}
    /\ UNCHANGED <<outbox, offset, publisher, worker, faults>>

PublisherStep(p) == ReadOutbox(p) \/ WriteBack(p) \/ Publish(p) \/ Mark(p)
WorkerStep(w) ==
    Reclaim(w) \/ Inspect(w) \/ DeadLetter(w) \/ ReadNew(w) \/ Work(w) \/ Acknowledge(w)

Next ==
    \/ Commit \/ Expire
    \/ \E p \in Publishers : PublisherStep(p) \/ PublisherFails(p)
    \/ \E w \in Workers : WorkerStep(w) \/ WorkerDies(w)

\* The processes run in endless loops and are restarted when they end.
Spec ==
    /\ Init /\ [][Next]_vars
    /\ \A p \in Publishers : WF_vars(PublisherStep(p))
    /\ \A w \in Workers : WF_vars(WorkerStep(w))

-----------------------------------------------------------------------------
(* Properties.                                                             *)

\* Every variable has its type.
TypeOK ==
    /\ committed \in 0..MaxEvents /\ published \subseteq 1..committed
    /\ stream \in Seq(Entry) /\ offset \in 0..Len(stream)
    /\ batch \in [Publishers -> SUBSET (1..committed)]
    /\ ppc \in [Publishers -> {"idle", "writeBack", "publish", "mark"}]
    /\ claimed \in [Workers -> SUBSET (1..offset)]
    /\ receipt \in [Workers -> 0..offset]
    /\ wpc \in [Workers -> {"idle", "inspect", "deadLetter", "work", "acknowledge"}]
    /\ rested \subseteq Workers /\ faults \in 0..MaxFaults

\* No committed event is lost, whoever dies: it is still to be published, or
\* an entry of it is unacknowledged, or a worker processed it to the end.
Carried(e) == \E i \in Entries :
    stream[i].event = e /\ (stream[i].state # "acked" \/ stream[i].done)
NothingLost == \A e \in 1..committed : e \in published => Carried(e)

\* No entry is handed to workers more often than max_delivery_attempts, by
\* several workers together and though each of them may keep it too long.
BoundedTries == \A i \in Entries : stream[i].tries <= MaxDeliveries

\* The lane is what BaselineMission takes it for: an entry is handed out until
\* it is acknowledged, and not once it was.
Lane == INSTANCE DeliveryLane WITH
    sent    <- Len(stream),
    queue   <- {i \in Entries : stream[i].state # "acked"}
LaneKept == Lane!Spec

\* A committed event gets to a worker, in spite of entries that always fail
\* and of dead letters that never leave the group.
Handed == \A e \in Events :
    e <= committed ~> \E i \in Entries : stream[i].event = e /\ stream[i].tries > 0

\* A dead letter leaves the consumer group.
DeadLettersLeave == \A i \in Entries : stream[i].dead => stream[i].state = "acked"
=============================================================================
