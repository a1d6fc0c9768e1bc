\* ArtifactStore: two writers that put the same content, or one whose monitor
\* thread has outlived its join.
SPECIFICATION Spec
CONSTANTS
    w1 = w1
    w2 = w2
    w3 = w3
    d1 = d1
    Writers = {w1, w2, w3}
    Digests = {d1}
    MaxVersion = 2
INVARIANTS TypeOK RegisteredKept
PROPERTIES VersionsCount BlocksAtomic
CONSTRAINT OneCrew
SYMMETRY Alike
