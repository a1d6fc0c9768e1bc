---------------------------- MODULE DeliveryLane ----------------------------
(***************************************************************************)
(* What a lane of the task queue promises, and all that BaselineMission    *)
(* assumes of it: a message may be sent any number of times, is handed out *)
(* again and again until some worker acknowledges it, and never after.     *)
(* The Redis Stream transport implements it (OutboxDelivery).              *)
(***************************************************************************)
EXTENDS Naturals

CONSTANT Workers

VARIABLES
    sent,       \* messages sent
    queue,      \* those not acknowledged
    receipt     \* per worker: the message handed to it last, 0 before

Init == sent = 0 /\ queue = {} /\ receipt = [w \in Workers |-> 0]

Send ==
    /\ sent' = sent + 1
    /\ queue' = queue \union {sent + 1}
    /\ UNCHANGED receipt

Receive(w) ==
    /\ \E m \in queue : receipt' = [receipt EXCEPT ![w] = m]
    /\ UNCHANGED <<sent, queue>>

Acknowledge(w) ==
    /\ queue' = queue \ {receipt[w]}
    /\ UNCHANGED <<sent, receipt>>

Next == Send \/ \E w \in Workers : Receive(w) \/ Acknowledge(w)

Spec == Init /\ [][Next]_<<sent, queue, receipt>>
=============================================================================
