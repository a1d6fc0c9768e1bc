\* OutboxDelivery: 1 events of which the first always fails, 1 deliveries,
\* 1 faults.
SPECIFICATION Spec
CONSTANTS
    p1 = p1
    p2 = p2
    w1 = w1
    w2 = w2
    Publishers = {p1}
    Workers = {w1}
    MaxEvents = 1
    Poison <- MCPoison
    MaxDeliveries = 1
    MaxFaults = 1
INVARIANTS DeadLettersLeave
