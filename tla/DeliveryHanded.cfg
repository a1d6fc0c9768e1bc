\* OutboxDelivery: 2 events of which the first always fails, 2 deliveries,
\* 1 faults.
SPECIFICATION Spec
CONSTANTS
    p1 = p1
    p2 = p2
    w1 = w1
    w2 = w2
    Publishers = {p1}
    Workers = {w1, w2}
    MaxEvents = 2
    Poison <- MCPoison
    MaxDeliveries = 2
    MaxFaults = 1
PROPERTY Handed
