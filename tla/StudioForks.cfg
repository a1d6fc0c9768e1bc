\* StudioRuns: three forks of one parent, merges, a client, a restart, a fault.
SPECIFICATION Spec
CONSTANTS
    p1 = p1
    m1 = m1
    c1 = c1
    MaxForks = 3
    Parents = {p1}
    MaxRating = 1
    Mergers = {m1}
    Watchers = {c1}
    MaxRestarts = 1
    MaxFaults = 1
INVARIANTS TypeOK OneMainline DoneIsRecorded
PROPERTY StreamsEnd
CHECK_DEADLOCK FALSE
