-------------------------- MODULE ArtifactStoreProofs --------------------------
(***************************************************************************)
(* The safety of ArtifactStore, and of UnitOfWork as it uses it, for any   *)
(* writers and contents.  That a registration is current rests on what a   *)
(* unit has read: a row that still has the version it was read at has the  *)
(* value it was read with, because versions only grow.  What it asserted   *)
(* of the row counts as long as the unit's two threads have not met.       *)
(***************************************************************************)
EXTENDS ArtifactStore, TLAPS

Row == [version : Nat, value : Values]

\* Missions and Attempts exist and hold what their entities can be.
Exists(w) ==
    /\ table[Mission(w)].value \in {"running", "cancelling"}
    /\ table[Mission(w)].version > 0 /\ table[Attempt(w)].version > 0

\* What a unit has read is not ahead of the table.
Reads(w) == \A r \in Rows : seen[w][r] <= table[r].version

\* A row that is as it was read still holds what was asserted of it.
Asserted(w) == w \notin torn =>
    /\ seen[w][Attempt(w)] # 0 /\ seen[w][Attempt(w)] = table[Attempt(w)].version
          => table[Attempt(w)].value = "ours"
    /\ seen[w][Mission(w)] # 0 /\ seen[w][Mission(w)] = table[Mission(w)].version
          => table[Mission(w)].value = "running"

\* A session belongs to a block.  Threads that have not met are never inside
\* together, and leave nothing in the buffers.
Session(w) == session[w] => \E t \in Threads : stage[w][t] = "in"
Apart(w) == w \notin torn =>
    /\ \A t \in Threads : stage[w][t] = "in" => session[w] /\ U!Alone(w, t)
    /\ (\A t \in Threads : stage[w][t] # "in") => \A r \in Rows : seen[w][r] = 0

Sound(w) == Exists(w) /\ Reads(w) /\ Asserted(w) /\ Session(w) /\ Apart(w)

\* A writer is inside its unit exactly at the steps of a block, and what it has
\* read at each of them.
HasRead(w) ==
    /\ pc[w] \in Inside \ {"attempt1", "attempt2"} => seen[w][Attempt(w)] # 0
    /\ pc[w] \in {"operation1", "open", "resume", "return", "register"}
          => seen[w][Mission(w)] # 0
Standing(w) ==
    /\ stage[w]["main"] = "in" <=> pc[w] \in Inside
    /\ stage[w]["main"] \in {"tested", "reset"} => pc[w] \in {"enter1", "enter2"}
    /\ w \notin torn => HasRead(w)

\* A collection spares what is registered while young.
Spared ==
    /\ \A d \in doomed : blob[d] = "aged"
    /\ \A d \in Referenced : d \in doomed => d \in lapsed

\* The variables of the unit, and the others.
UnitOK ==
    /\ table \in [Rows -> Row]
    /\ session \in [Writers -> BOOLEAN]
    /\ stage \in [Writers -> [Threads -> U!Stages]]
    /\ seen \in [Writers -> [Rows -> Nat]]
    /\ torn \subseteq Writers
LocalOK ==
    /\ pc \in [Writers -> Steps] /\ want \in [Writers -> Digests]
    /\ expected \in [Writers -> Nat]
    /\ blob \in [Digests -> {"absent", "young", "aged"}]
    /\ registered \subseteq Writers \X Digests
    /\ lapsed \subseteq Digests /\ doomed \subseteq Digests

UnitInv == UnitOK /\ \A w \in Writers : Sound(w)
Blocks == UnitInv /\ \A w \in Writers : Standing(w)
IInv == LocalOK /\ Blocks /\ Spared /\ RegisteredKept

-----------------------------------------------------------------------------
(* What the steps of a unit do.                                            *)

LEMMA RowsType ==
  ASSUME NEW w \in Writers
  PROVE  /\ Mission(w) \in Rows /\ Attempt(w) \in Rows /\ Operation(w) \in Rows
         /\ Mission(w) \in Guarded /\ Attempt(w) \in Guarded
         /\ Mission(w) # Attempt(w) /\ Mission(w) # Operation(w) /\ Attempt(w) # Operation(w)
         /\ \A v \in Writers : v # w =>
               /\ Mission(v) \notin {Mission(w), Attempt(w), Operation(w)}
               /\ Attempt(v) \notin {Mission(w), Attempt(w), Operation(w)}
               /\ Operation(v) \notin {Mission(w), Attempt(w), Operation(w)}
  BY DEF Mission, Attempt, Operation, Rows, Guarded

LEMMA TypeIs == IInv => TypeOK
  BY DEF IInv, Blocks, UnitInv, UnitOK, LocalOK, Sound, Session, Standing, TypeOK,
         U!RowsOK, U!Row, Row

\* Versions only count up, one by one.
CountsUp == \A r \in Rows :
    table'[r] = table[r] \/ table'[r].version = table[r].version + 1

\* Nothing changes for the other writers and their units.
Elsewhere(w) == \A v \in Writers \ {w} :
    /\ seen'[v] = seen[v] /\ stage'[v] = stage[v] /\ session'[v] = session[v]
    /\ v \in torn' <=> v \in torn
    /\ table'[Mission(v)] = table[Mission(v)] /\ table'[Attempt(v)] = table[Attempt(v)]

\* Leaving a block forgets what was read in it, if the threads are apart.
LEMMA ExitUnit ==
  ASSUME UnitOK, NEW w \in Writers, NEW t \in Threads, U!Exit(w, t)
  PROVE  /\ stage[w][t] # "out" /\ torn' = torn
         /\ stage' = [stage EXCEPT ![w][t] = "out"]
         /\ session'[w] = (stage[w][t] # "in" /\ session[w])
         /\ U!Alone(w, t) => \A r \in Rows : seen'[w][r] = 0
         /\ seen'[w] = seen[w] \/ \A r \in Rows : seen'[w][r] = 0
         /\ \A v \in Writers \ {w} : seen'[v] = seen[v] /\ session'[v] = session[v]
         /\ stage' \in [Writers -> [Threads -> U!Stages]]
         /\ session' \in [Writers -> BOOLEAN] /\ seen' \in [Writers -> [Rows -> Nat]]
  BY DEF UnitOK, U!Exit, U!Unread, U!Nothing, U!Stages

\* Reading a row remembers the version it has, unless it was read before.
LEMMA ReadUnit ==
  ASSUME UnitOK, NEW w \in Writers, NEW t, NEW r \in Rows, U!Read(w, t, r)
  PROVE  /\ stage[w][t] = "in" /\ UNCHANGED <<table, session, stage, torn>>
         /\ seen' \in [Writers -> [Rows -> Nat]]
         /\ seen'[w][r] = IF seen[w][r] = 0 THEN table[r].version ELSE seen[w][r]
         /\ \A s \in Rows \ {r} : seen'[w][s] = seen[w][s]
         /\ \A v \in Writers \ {w} : seen'[v] = seen[v]
  BY DEF UnitOK, Row, U!Read, U!Unread

\* A commit counts up the versions of the rows it writes.  If the threads of
\* the unit have not met, it writes all of them, and is current in the guarded
\* rows it has read.
Counted(part, new) ==
    [r \in Rows |-> IF r \in part THEN [version |-> table[r].version + 1, value |-> new[r]]
                    ELSE table[r]]

LEMMA CommitUnit ==
  ASSUME UnitOK, NEW w \in Writers, NEW t \in Threads, NEW new, DOMAIN new \subseteq Rows,
         U!Commit(w, t, new)
  PROVE  /\ U!Exit(w, t) /\ session[w]
         /\ \E part \in SUBSET DOMAIN new :
               /\ table' = Counted(part, new)
               /\ w \notin torn =>
                     /\ part = DOMAIN new
                     /\ \A r \in Guarded : seen[w][r] # 0 => seen[w][r] = table[r].version
  <1>1. U!Exit(w, t) /\ session[w]
    BY DEF U!Commit
  <1>2. ASSUME NEW part \in SUBSET DOMAIN new, NEW chosen, DOMAIN chosen = part,
               \A r \in part : chosen[r] = new[r], U!Write(w, chosen)
        PROVE  table' = Counted(part, new)
    BY <1>2 DEF U!Write, U!WriteAnyway, U!Unmoved, Counted, UnitOK, Row
  <1>3. CASE w \notin torn
    <2>1. U!Unmoved(w, U!ReadGuarded(w)) /\ U!Write(w, new)
      BY <1>3 DEF U!Commit
    <2>2. table' = Counted(DOMAIN new, new)
      BY <1>2, <2>1
    <2>3. \A r \in Guarded : seen[w][r] # 0 => seen[w][r] = table[r].version
      BY <2>1 DEF U!Unmoved, U!ReadGuarded, U!Unread
    <2> QED
      BY <1>1, <2>2, <2>3
  <1>4. CASE w \in torn
    <2>1. PICK part \in SUBSET DOMAIN new : U!Write(w, [r \in part |-> new[r]])
      BY <1>4 DEF U!Commit
    <2> DEFINE chosen == [r \in part |-> new[r]]
    <2>2. DOMAIN chosen = part /\ \A r \in part : chosen[r] = new[r]
      OBVIOUS
    <2>3. U!Write(w, chosen)
      BY <2>1
    <2> HIDE DEF chosen
    <2>4. table' = Counted(part, new)
      BY <1>2, <2>2, <2>3
    <2> QED
      BY <1>1, <1>4, <2>4
  <1> QED
    BY <1>3, <1>4

LEMMA ConflictUnit ==
  ASSUME NEW w, NEW t, NEW new, U!Conflict(w, t, new)
  PROVE  U!Exit(w, t) /\ table' = table
  BY DEF U!Conflict, U!Leave

-----------------------------------------------------------------------------
(* What the steps of a unit keep.                                          *)

\* A step on the rows and the unit of one writer is sound for the others.
LEMMA OthersSound ==
  ASSUME UnitInv, NEW w \in Writers, UnitOK', CountsUp, Elsewhere(w), Sound(w)'
  PROVE  UnitInv'
  <1> SUFFICES ASSUME NEW v \in Writers \ {w}
               PROVE  Sound(v)'
    BY DEF UnitInv
  <1>1. UnitOK /\ Sound(v)
    BY DEF UnitInv
  <1>2. Exists(v)' /\ Asserted(v)'
    BY <1>1 DEF Sound, Exists, Asserted, Elsewhere
  <1>3. Reads(v)'
    <2> SUFFICES ASSUME NEW r \in Rows
                 PROVE  seen'[v][r] <= table'[r].version
      BY DEF Reads
    <2>1. seen'[v] = seen[v] /\ seen[v][r] \in Nat /\ seen[v][r] <= table[r].version
      BY <1>1 DEF Elsewhere, UnitOK, Sound, Reads
    <2>2. table[r].version \in Nat /\ table'[r].version \in Nat
      BY <1>1 DEF UnitOK, Row
    <2>3. table[r].version <= table'[r].version
      BY <2>2 DEF CountsUp
    <2> QED
      BY <2>1, <2>2, <2>3
  <1>4. Session(v)' /\ Apart(v)'
    BY <1>1 DEF Sound, Session, Apart, Elsewhere, U!Alone
  <1> QED
    BY <1>2, <1>3, <1>4 DEF Sound

\* Threads that enter one after the other stay apart; those that meet are
\* recorded as the first of them opens its session.
LEMMA EnterKeeps ==
  ASSUME UnitInv, NEW w \in Writers, NEW t \in Threads, U!Enter(w, t)
  PROVE  /\ UnitInv' /\ table' = table
         /\ \A v \in Writers \ {w} : seen'[v] = seen[v] /\ stage'[v] = stage[v]
         /\ \A v \in Writers \ {w} : v \in torn' <=> v \in torn
         /\ torn' = torn \/ torn' = torn \union {w}
         /\ \A o \in Threads \ {t} : stage'[w][o] = stage[w][o]
  <1>1. UnitOK /\ Sound(w)
    BY DEF UnitInv
  <1>2. UnitOK' /\ CountsUp
    <2>1. CASE U!Test(w, t)
      BY <1>1, <2>1 DEF UnitOK, CountsUp, U!Test, U!Stages
    <2>2. CASE U!Reset(w, t)
      BY <1>1, <2>2 DEF UnitOK, CountsUp, U!Reset, U!Stages, U!Nothing, U!Unread
    <2>3. CASE U!Open(w, t)
      BY <1>1, <2>3 DEF UnitOK, CountsUp, U!Open, U!Stages
    <2> QED
      BY <2>1, <2>2, <2>3 DEF U!Enter
  <1>3. Elsewhere(w)
    BY <1>1 DEF UnitOK, Elsewhere, U!Enter, U!Test, U!Reset, U!Open
  <1>4. Exists(w)' /\ Asserted(w)'
    BY <1>1, RowsType DEF UnitOK, Sound, Exists, Asserted, U!Enter, U!Test, U!Reset, U!Open,
       U!Nothing, U!Unread
  <1>5. Reads(w)'
    BY <1>1 DEF UnitOK, Row, Sound, Reads, U!Enter, U!Test, U!Reset, U!Open, U!Nothing, U!Unread
  <1>6. Session(w)'
    BY <1>1 DEF UnitOK, Sound, Session, U!Enter, U!Test, U!Reset, U!Open
  <1>7. Apart(w)'
    <2>1. CASE U!Test(w, t)
      <3>1. w \notin torn => \A o \in Threads : stage'[w][o] # "in"
        BY <1>1, <2>1 DEF UnitOK, Sound, Apart, U!Test
      <3>2. w \notin torn => \A r \in Rows : seen[w][r] = 0
        BY <1>1, <2>1 DEF UnitOK, Sound, Apart, U!Test
      <3> QED
        BY <2>1, <3>1, <3>2 DEF Apart, U!Test
    <2>2. CASE U!Reset(w, t)
      <3>1. \A r \in Rows : seen'[w][r] = 0
        BY <1>1, <2>2 DEF UnitOK, U!Reset, U!Nothing, U!Unread
      <3>2. w \notin torn => \A o \in Threads : stage'[w][o] # "in"
        BY <1>1, <2>2 DEF UnitOK, Sound, Apart, U!Reset, U!Alone
      <3> QED
        BY <2>2, <3>1, <3>2 DEF Apart, U!Reset
    <2>3. CASE U!Open(w, t)
      <3>1. CASE U!Alone(w, t)
        <4>1. stage'[w][t] = "in" /\ session'[w] /\ \A o \in Threads \ {t} : stage'[w][o] = "out"
          BY <1>1, <2>3, <3>1 DEF UnitOK, U!Open, U!Alone
        <4> QED
          BY <4>1 DEF Apart, U!Alone
      <3>2. CASE ~U!Alone(w, t)
        BY <2>3, <3>2 DEF Apart, U!Open
      <3> QED
        BY <3>1, <3>2
    <2> QED
      BY <2>1, <2>2, <2>3 DEF U!Enter
  <1>8. UnitInv'
    BY <1>2, <1>3, <1>4, <1>5, <1>6, <1>7, OthersSound DEF Sound
  <1> QED
    BY <1>1, <1>3, <1>8 DEF Elsewhere, UnitOK, U!Enter, U!Test, U!Reset, U!Open

\* A block that ends, whatever it writes to its own Attempt and Operation.
LEMMA ExitKeeps ==
  ASSUME UnitInv, NEW w \in Writers, NEW t \in Threads, U!Exit(w, t),
         table' \in [Rows -> Row], CountsUp,
         \A r \in Rows \ {Attempt(w), Operation(w)} : table'[r] = table[r],
         table'[Attempt(w)].value = table[Attempt(w)].value
  PROVE  UnitInv'
  <1>1. UnitOK /\ Sound(w)
    BY DEF UnitInv
  <1>2. UnitOK'
    BY <1>1, ExitUnit DEF UnitOK
  <1>3. Elsewhere(w)
    <2> SUFFICES ASSUME NEW v \in Writers \ {w}
                 PROVE  /\ seen'[v] = seen[v] /\ stage'[v] = stage[v] /\ session'[v] = session[v]
                        /\ v \in torn' <=> v \in torn
                        /\ table'[Mission(v)] = table[Mission(v)]
                        /\ table'[Attempt(v)] = table[Attempt(v)]
      BY DEF Elsewhere
    <2>1. Mission(v) \in Rows \ {Attempt(w), Operation(w)}
          /\ Attempt(v) \in Rows \ {Attempt(w), Operation(w)}
      BY RowsType
    <2> QED
      BY <1>1, <2>1, ExitUnit DEF UnitOK
  <1>4. table'[Mission(w)] = table[Mission(w)]
    BY RowsType
  <1>5. Exists(w)'
    <2>1. table'[Attempt(w)].version > 0
      <3>1. /\ Attempt(w) \in Rows /\ table[Attempt(w)].version \in Nat
            /\ table[Attempt(w)].version > 0
        BY <1>1, RowsType DEF UnitOK, Row, Sound, Exists
      <3>2. \/ table'[Attempt(w)] = table[Attempt(w)]
            \/ table'[Attempt(w)].version = table[Attempt(w)].version + 1
        BY <3>1 DEF CountsUp
      <3> QED
        BY <3>1, <3>2
    <2> QED
      BY <1>1, <1>4, <2>1 DEF Sound, Exists
  <1>6. \A r \in Rows : table[r].version \in Nat /\ table'[r].version \in Nat
                        /\ table[r].version <= table'[r].version
    BY <1>1, <1>2 DEF UnitOK, Row, CountsUp
  <1>7. seen'[w] = seen[w] \/ \A r \in Rows : seen'[w][r] = 0
    BY <1>1, ExitUnit
  <1>8. Reads(w)'
    <2>1. \A r \in Rows : seen[w][r] \in Nat /\ seen[w][r] <= table[r].version
      BY <1>1 DEF UnitOK, Sound, Reads
    <2> QED
      BY <1>6, <1>7, <2>1 DEF Reads
  <1>9. Asserted(w)'
    <2>1. CASE \A r \in Rows : seen'[w][r] = 0
      BY <2>1, RowsType DEF Asserted
    <2>2. CASE seen'[w] = seen[w]
      <3>1. torn' = torn
        BY <1>1, ExitUnit
      <3>2. seen[w][Attempt(w)] \in Nat /\ seen[w][Attempt(w)] <= table[Attempt(w)].version
        BY <1>1, RowsType DEF UnitOK, Sound, Reads
      <3>3. seen[w][Attempt(w)] = table'[Attempt(w)].version
              => seen[w][Attempt(w)] = table[Attempt(w)].version
        BY <1>6, <3>2, RowsType
      <3> QED
        BY <1>1, <1>4, <2>2, <3>1, <3>3 DEF Sound, Asserted
    <2> QED
      BY <1>7, <2>1, <2>2
  <1>10. Session(w)' /\ Apart(w)'
    <2>1. Session(w)'
      BY <1>1, ExitUnit DEF UnitOK, Sound, Session
    <2>2. ASSUME w \notin torn', NEW o \in Threads, stage'[w][o] = "in"
          PROVE  FALSE
      <3>1. o # t /\ stage[w][o] = "in" /\ w \notin torn /\ stage[w][t] # "out"
        BY <1>1, <2>2, ExitUnit DEF UnitOK
      <3> QED
        BY <1>1, <3>1 DEF Sound, Apart, U!Alone
    <2>3. ASSUME w \notin torn'
          PROVE  \A r \in Rows : seen'[w][r] = 0
      <3>1. CASE stage[w][t] = "in"
        BY <1>1, <2>3, <3>1, ExitUnit DEF Sound, Apart
      <3>2. CASE stage[w][t] # "in"
        <4>1. \A o \in Threads : stage[w][o] # "in"
          BY <1>1, <2>2, <2>3, <3>2, ExitUnit DEF UnitOK
        <4> QED
          BY <1>1, <1>7, <2>3, <4>1, ExitUnit DEF Sound, Apart
      <3> QED
        BY <3>1, <3>2
    <2> QED
      BY <2>1, <2>2, <2>3 DEF Apart
  <1> QED
    BY <1>2, <1>3, <1>5, <1>8, <1>9, <1>10, OthersSound DEF Sound

\* A block reads its own rows, and asserts what it reads of the guarded ones
\* if it did not read them before.
LEMMA ReadKeeps ==
  ASSUME UnitInv, NEW w \in Writers, NEW t \in Threads,
         NEW r \in {Attempt(w), Mission(w), Operation(w)}, U!Read(w, t, r),
         NEW test \in BOOLEAN, TRUE \in U!Tells(w, r, test),
         test /\ r = Attempt(w) => table[r].value = "ours",
         test /\ r = Mission(w) => table[r].value # "cancelling"
  PROVE  UnitInv'
  <1>1. UnitOK /\ r \in Rows /\ Sound(w)
    BY RowsType DEF UnitInv
  <1>2. UnitOK' /\ CountsUp
    BY <1>1, ReadUnit DEF UnitOK, CountsUp
  <1>3. Elsewhere(w)
    BY <1>1, ReadUnit DEF Elsewhere
  <1>4. Exists(w)' /\ Session(w)'
    BY <1>1, ReadUnit DEF Sound, Exists, Session
  <1>5. Reads(w)'
    <2>1. seen[w][r] <= table[r].version /\ table[r].version \in Nat
      BY <1>1 DEF UnitOK, Row, Sound, Reads
    <2>2. seen'[w][r] <= table[r].version
      BY <1>1, <2>1, ReadUnit
    <2>3. \A q \in Rows \ {r} : seen'[w][q] <= table[q].version
      <3>1. \A q \in Rows \ {r} : seen'[w][q] = seen[w][q]
        BY <1>1, ReadUnit
      <3> QED
        BY <1>1, <3>1 DEF Sound, Reads
    <2>4. table' = table
      BY <1>1, ReadUnit
    <2> QED
      BY <2>2, <2>3, <2>4 DEF Reads
  <1>6. Apart(w)'
    BY <1>1, ReadUnit DEF Sound, Apart, U!Alone
  <1>7. Asserted(w)'
    <2>1. table' = table /\ torn' = torn
      BY <1>1, ReadUnit
    <2>2. r # Attempt(w) => seen'[w][Attempt(w)] = seen[w][Attempt(w)]
      BY <1>1, ReadUnit, RowsType
    <2>3. r # Mission(w) => seen'[w][Mission(w)] = seen[w][Mission(w)]
      BY <1>1, ReadUnit, RowsType
    <2>4. CASE seen[w][r] # 0
      <3>1. seen'[w][r] = seen[w][r]
        BY <1>1, <2>4, ReadUnit
      <3> QED
        BY <1>1, <2>1, <2>2, <2>3, <3>1 DEF Sound, Asserted
    <2>5. CASE seen[w][r] = 0
      <3>1. test
        BY <2>5 DEF U!Tells, U!Unread
      <3> QED
        BY <1>1, <2>1, <2>2, <2>3, <3>1, RowsType DEF Sound, Asserted, Exists
    <2> QED
      BY <2>4, <2>5
  <1> QED
    BY <1>2, <1>3, <1>4, <1>5, <1>6, <1>7, OthersSound DEF Sound

\* Another process writes a row: whoever has read it has read an older version.
LEMMA UpdateKeeps ==
  ASSUME UnitInv, NEW w \in Writers, NEW r \in {Attempt(w), Mission(w), Operation(w)},
         NEW x \in Values, r = Mission(w) => x = "cancelling",
         table' = [table EXCEPT ![r] = [version |-> @.version + 1, value |-> x]],
         UNCHANGED <<session, stage, seen, torn>>
  PROVE  UnitInv'
  <1>1. UnitOK /\ Sound(w) /\ r \in Rows
    BY RowsType DEF UnitInv
  <1>2. table'[r] = [version |-> table[r].version + 1, value |-> x]
        /\ \A q \in Rows \ {r} : table'[q] = table[q]
    BY <1>1 DEF UnitOK
  <1>3. UnitOK' /\ CountsUp
    <2>1. [version |-> table[r].version + 1, value |-> x] \in Row
      BY <1>1 DEF UnitOK, Row
    <2>2. table' \in [Rows -> Row]
      BY <1>1, <2>1 DEF UnitOK
    <2> QED
      BY <1>1, <1>2, <2>2 DEF UnitOK, CountsUp
  <1>4. Elsewhere(w)
    BY <1>2, RowsType DEF Elsewhere
  <1>5. Exists(w)'
    BY <1>1, <1>2, RowsType DEF UnitOK, Row, Sound, Exists
  <1>6. seen[w][r] \in Nat /\ seen[w][r] <= table[r].version /\ table[r].version \in Nat
    BY <1>1 DEF UnitOK, Row, Sound, Reads
  <1>7. Reads(w)'
    BY <1>1, <1>2, <1>6 DEF Sound, Reads
  <1>8. Asserted(w)'
    BY <1>1, <1>2, <1>6, RowsType DEF Sound, Asserted
  <1>9. Session(w)' /\ Apart(w)'
    BY <1>1 DEF Sound, Session, Apart, U!Alone
  <1> QED
    BY <1>3, <1>4, <1>5, <1>7, <1>8, <1>9, OthersSound DEF Sound

-----------------------------------------------------------------------------
(* What a block commits.                                                   *)

LEMMA PendingType ==
  ASSUME NEW w \in Writers
  PROVE  /\ DOMAIN Pending(w) \subseteq {Attempt(w), Operation(w)}
         /\ DOMAIN Pending(w) \subseteq Rows
         /\ \A r \in DOMAIN Pending(w) : Pending(w)[r] \in Values
         /\ Attempt(w) \in DOMAIN Pending(w) <=> Renewing(w)
         /\ Renewing(w) => Pending(w)[Attempt(w)] = "ours"
         /\ Operation(w) \in DOMAIN Pending(w) <=> Changing(w)
         /\ Changing(w) => Pending(w)[Operation(w)] =
               IF pc[w] = "open" THEN "prepared" ELSE "succeeded"
  BY RowsType DEF Pending, Values, At

\* It counts up what it writes, and writes an Attempt with the value it had.
\* Threads that have not met write all that is pending, upon current reads.
LEMMA CommitPending ==
  ASSUME UnitOK, NEW w \in Writers, NEW t \in Threads, U!Commit(w, t, Pending(w))
  PROVE  /\ U!Exit(w, t) /\ session[w]
         /\ table' \in [Rows -> Row] /\ CountsUp
         /\ \A r \in Rows \ {Attempt(w), Operation(w)} : table'[r] = table[r]
         /\ table'[Attempt(w)].value = table[Attempt(w)].value
         /\ \/ table'[Operation(w)] = table[Operation(w)]
            \/ Changing(w) /\ table'[Operation(w)].value = Pending(w)[Operation(w)]
         /\ w \notin torn =>
               /\ Changing(w) => table'[Operation(w)].value = Pending(w)[Operation(w)]
               /\ \A r \in Guarded : seen[w][r] # 0 => seen[w][r] = table[r].version
  <1> DEFINE new == Pending(w)
  <1>1. DOMAIN new \subseteq Rows /\ U!Commit(w, t, new)
    BY PendingType
  <1>2. PICK part \in SUBSET DOMAIN new :
           /\ table' = Counted(part, new)
           /\ w \notin torn =>
                 /\ part = DOMAIN new
                 /\ \A r \in Guarded : seen[w][r] # 0 => seen[w][r] = table[r].version
    <2> HIDE DEF new
    <2> QED
      BY <1>1, CommitUnit
  <1>3. U!Exit(w, t) /\ session[w]
    BY DEF U!Commit
  <1>4. part \subseteq {Attempt(w), Operation(w)} /\ part \subseteq Rows
        /\ \A r \in part : new[r] \in Values
    BY PendingType
  <1>5. \A r \in Rows \ part : table'[r] = table[r]
    BY <1>2 DEF Counted
  <1>6. \A r \in part : table'[r] = [version |-> table[r].version + 1, value |-> new[r]]
    BY <1>2, <1>4 DEF Counted
  <1>7. table' \in [Rows -> Row]
    <2> HIDE DEF new
    <2>1. \A r \in Rows : Counted(part, new)[r] \in Row
      BY <1>4 DEF Counted, UnitOK, Row
    <2> QED
      BY <1>2, <2>1 DEF Counted
  <1>8. CountsUp
    <2>1. \A r \in part : table'[r].version = table[r].version + 1
      <3> SUFFICES ASSUME NEW r \in part
                   PROVE  table'[r].version = table[r].version + 1
        OBVIOUS
      <3>1. table'[r] = [version |-> table[r].version + 1, value |-> new[r]]
        BY <1>6
      <3> HIDE DEF new
      <3> QED
        BY <3>1
    <2> QED
      BY <1>5, <2>1 DEF CountsUp
  <1>9. \A r \in part : table'[r].value = new[r]
    <2> SUFFICES ASSUME NEW r \in part
                 PROVE  table'[r].value = new[r]
      OBVIOUS
    <2>1. table'[r] = [version |-> table[r].version + 1, value |-> new[r]]
      BY <1>6
    <2> HIDE DEF new
    <2> QED
      BY <2>1
  <1>10. \A r \in Rows \ {Attempt(w), Operation(w)} : table'[r] = table[r]
    BY <1>4, <1>5
  <1>11. table'[Attempt(w)].value = table[Attempt(w)].value
    <2>1. CASE Attempt(w) \in part
      <3>1. Renewing(w) /\ new[Attempt(w)] = "ours"
        BY <2>1, PendingType
      <3> QED
        BY <1>9, <2>1, <3>1 DEF Renewing
    <2>2. CASE Attempt(w) \notin part
      BY <1>5, <2>2, RowsType
    <2> QED
      BY <2>1, <2>2
  <1>12. \/ Operation(w) \notin part /\ table'[Operation(w)] = table[Operation(w)]
         \/ /\ Operation(w) \in part /\ Changing(w)
            /\ table'[Operation(w)].value = Pending(w)[Operation(w)]
    <2>1. CASE Operation(w) \in part
      BY <1>9, <2>1, PendingType
    <2>2. CASE Operation(w) \notin part
      BY <1>5, <2>2, RowsType
    <2> QED
      BY <2>1, <2>2
  <1>13. w \notin torn /\ Changing(w) => Operation(w) \in part
    BY <1>2, PendingType
  <1> QED
    BY <1>2, <1>3, <1>7, <1>8, <1>10, <1>11, <1>12, <1>13

\* Whatever ends a block.
LEMMA EndKeeps ==
  ASSUME UnitInv, NEW w \in Writers, NEW t \in Threads,
         \/ U!Commit(w, t, Pending(w)) \/ U!Conflict(w, t, Pending(w)) \/ U!Leave(w, t)
  PROVE  UnitInv' /\ U!Exit(w, t) /\ CountsUp
  <1>1. UnitOK
    BY DEF UnitInv
  <1>2. CASE U!Commit(w, t, Pending(w))
    BY <1>1, <1>2, CommitPending, ExitKeeps
  <1>3. CASE U!Conflict(w, t, Pending(w)) \/ U!Leave(w, t)
    <2>1. U!Exit(w, t) /\ table' = table
      BY <1>3, ConflictUnit DEF U!Leave
    <2> QED
      BY <1>1, <2>1, ExitKeeps DEF UnitOK, CountsUp
  <1> QED
    BY <1>2, <1>3

-----------------------------------------------------------------------------
(* The steps of the processes.                                             *)

LEMMA IdleKeeps == UnitInv /\ UNCHANGED database => UnitInv'
  BY DEF UnitInv, UnitOK, Sound, Exists, Reads, Asserted, Session, Apart, U!Alone, database

\* A step of a writer and its monitor leaves the others where they stand.
LEMMA OthersStand ==
  ASSUME Blocks, NEW w \in Writers, Standing(w)',
         \A v \in Writers \ {w} : /\ pc'[v] = pc[v] /\ stage'[v] = stage[v] /\ seen'[v] = seen[v]
                                  /\ v \in torn' <=> v \in torn
  PROVE  \A v \in Writers : Standing(v)'
  BY DEF Blocks, Standing, HasRead

\* The main thread leaves its block, if it is in one, for a step outside.
LEMMA OutsideKeeps ==
  ASSUME LocalOK, Blocks, NEW w \in Writers, U!Exit(w, "main"), UnitInv',
         NEW step \in Steps \ Inside, Go(w, step)
  PROVE  Blocks' /\ pc' \in [Writers -> Steps]
  <1>1. pc' = [pc EXCEPT ![w] = step] /\ pc' \in [Writers -> Steps]
    BY DEF Go, LocalOK
  <1>2. /\ stage'[w]["main"] = "out" /\ torn' = torn
        /\ \A v \in Writers \ {w} : stage'[v] = stage[v] /\ seen'[v] = seen[v]
    BY ExitUnit DEF Blocks, UnitInv, UnitOK, Threads
  <1>3. Standing(w)'
    BY <1>1, <1>2 DEF LocalOK, Standing, HasRead, Inside, First, Second
  <1>4. \A v \in Writers : Standing(v)'
    BY <1>1, <1>2, <1>3, OthersStand DEF LocalOK
  <1> QED
    BY <1>1, <1>4 DEF Blocks

\* A step between two blocks.
LEMMA WalkKeeps ==
  ASSUME LocalOK, Blocks, NEW w \in Writers, stage[w]["main"] = "out",
         NEW step \in Steps \ Inside, Go(w, step), UNCHANGED database
  PROVE  Blocks' /\ pc' \in [Writers -> Steps]
  <1>1. pc' = [pc EXCEPT ![w] = step] /\ pc' \in [Writers -> Steps]
    BY DEF Go, LocalOK
  <1>2. Standing(w)'
    BY <1>1 DEF LocalOK, database, Standing, HasRead, Inside, First, Second
  <1>3. \A v \in Writers : Standing(v)'
    BY <1>1, <1>2, OthersStand DEF LocalOK, database
  <1> QED
    BY <1>1, <1>3, IdleKeeps DEF Blocks

\* The main thread is out of its unit at the steps between the blocks.
LEMMA OutThere ==
  ASSUME Blocks, NEW w \in Writers, pc[w] \notin Inside \union {"enter1", "enter2"}
  PROVE  stage[w]["main"] = "out"
  BY DEF Blocks, UnitInv, UnitOK, Standing, Threads, U!Stages

\* An exception leaves the block, if the writer is in one.
LEMMA RaiseKeeps ==
  ASSUME LocalOK, Blocks, NEW w \in Writers, Raise(w)
  PROVE  Blocks' /\ pc' \in [Writers -> Steps]
  <1>1. "failed" \in Steps \ Inside /\ Go(w, "failed") /\ "main" \in Threads
    BY DEF Raise, Steps, Inside, First, Second, Threads
  <1>2. CASE stage[w]["main"] = "out"
    BY <1>1, <1>2, WalkKeeps DEF Raise
  <1>3. CASE stage[w]["main"] # "out"
    <2>1. U!Leave(w, "main")
      BY <1>3 DEF Raise
    <2>2. UnitInv' /\ U!Exit(w, "main")
      BY <1>1, <2>1, EndKeeps DEF Blocks
    <2> QED
      BY <1>1, <2>2, OutsideKeeps
  <1> QED
    BY <1>2, <1>3

\* A commit, or a conflict, ends the block.
LEMMA CommitsKeeps ==
  ASSUME LocalOK, Blocks, NEW w \in Writers, NEW step \in Steps \ Inside, Go(w, step),
         U!Commit(w, "main", Pending(w)) \/ U!Conflict(w, "main", Pending(w))
  PROVE  Blocks' /\ pc' \in [Writers -> Steps]
  <1>1. UnitInv' /\ U!Exit(w, "main")
    BY EndKeeps DEF Blocks, Threads
  <1> QED
    BY <1>1, OutsideKeeps

\* A read inside a block, and the test of it.
LEMMA LookKeeps ==
  ASSUME LocalOK, Blocks, NEW w \in Writers, NEW r \in {Attempt(w), Mission(w), Operation(w)},
         NEW test \in BOOLEAN, NEW step \in Inside, pc[w] \in Inside, Look(w, r, test, step),
         test /\ r = Attempt(w) => table[r].value = "ours",
         test /\ r = Mission(w) => table[r].value # "cancelling",
         step \notin {"attempt1", "attempt2"} =>
             r = Attempt(w) \/ pc[w] \notin {"attempt1", "attempt2"},
         step \in {"operation1", "open", "resume", "return", "register"} =>
             \/ r = Mission(w)
             \/ pc[w] \in {"operation1", "open", "resume", "return", "register"}
  PROVE  Blocks' /\ pc' \in [Writers -> Steps]
  <1>1. CASE Raise(w)
    BY <1>1, RaiseKeeps
  <1>2. CASE TRUE \in U!Tells(w, r, test) /\ U!Read(w, "main", r) /\ Go(w, step)
    <2>1. pc' = [pc EXCEPT ![w] = step] /\ pc' \in [Writers -> Steps]
      BY <1>2 DEF Go, LocalOK, Steps
    <2>2. UnitOK /\ r \in Rows /\ Sound(w) /\ Standing(w)
      BY RowsType DEF Blocks, UnitInv
    <2>3. UnitInv'
      BY <1>2, ReadKeeps DEF Blocks, Threads
    <2>4. UNCHANGED <<stage, torn>> /\ \A v \in Writers \ {w} : seen'[v] = seen[v]
      BY <1>2, <2>2, ReadUnit
    <2>5. /\ r = Attempt(w) \/ seen[w][Attempt(w)] # 0 => seen'[w][Attempt(w)] # 0
          /\ r = Mission(w) \/ seen[w][Mission(w)] # 0 => seen'[w][Mission(w)] # 0
      <3>1. table[Mission(w)].version > 0 /\ table[Attempt(w)].version > 0
        BY <2>2 DEF Sound, Exists
      <3> QED
        BY <1>2, <2>2, <3>1, ReadUnit, RowsType
    <2>6. Standing(w)'
      BY <2>1, <2>2, <2>4, <2>5 DEF LocalOK, Standing, HasRead
    <2>7. \A v \in Writers : Standing(v)'
      BY <2>1, <2>4, <2>6, OthersStand DEF LocalOK
    <2> QED
      BY <2>1, <2>3, <2>7 DEF Blocks
  <1> QED
    BY <1>1, <1>2 DEF Look

\* The steps of __enter__, of the main thread.
LEMMA EnterBlockKeeps ==
  ASSUME LocalOK, Blocks, NEW w \in Writers, EnterBlock(w)
  PROVE  Blocks' /\ pc' \in [Writers -> Steps]
  <1>1. CASE Raise(w)
    BY <1>1, RaiseKeeps
  <1>2. ASSUME U!Enter(w, "main"), NEW step, Go(w, step),
               \/ /\ stage'[w]["main"] \in {"tested", "reset"}
                  /\ step = pc[w] /\ pc[w] \in {"enter1", "enter2"}
               \/ stage'[w]["main"] = "in" /\ step \in {"attempt1", "attempt2"}
        PROVE  Blocks' /\ pc' \in [Writers -> Steps]
    <2>1. /\ UnitInv' /\ \A v \in Writers \ {w} : seen'[v] = seen[v] /\ stage'[v] = stage[v]
          /\ \A v \in Writers \ {w} : v \in torn' <=> v \in torn
      BY <1>2, EnterKeeps DEF Blocks, Threads
    <2>2. pc' = [pc EXCEPT ![w] = step] /\ pc' \in [Writers -> Steps]
      BY <1>2 DEF Go, LocalOK, Steps, Inside, First, Second
    <2>3. Standing(w)'
      BY <1>2, <2>2 DEF LocalOK, Standing, HasRead, Inside, First, Second
    <2> QED
      BY <2>1, <2>2, <2>3, OthersStand DEF LocalOK, Blocks
  <1>3. CASE (U!Test(w, "main") \/ U!Reset(w, "main")) /\ UNCHANGED pc
    <2>1. stage'[w]["main"] \in {"tested", "reset"}
      BY <1>3 DEF U!Test, U!Reset, Blocks, UnitInv, UnitOK, Threads
    <2>2. Go(w, pc[w]) /\ pc[w] \in {"enter1", "enter2"}
      BY <1>3 DEF EnterBlock, Go, LocalOK
    <2> QED
      BY <1>2, <1>3, <2>1, <2>2 DEF U!Enter
  <1>4. CASE U!Open(w, "main") /\ Go(w, IF At(w, "enter1") THEN "attempt1" ELSE "attempt2")
    <2>1. stage'[w]["main"] = "in"
      BY <1>4 DEF U!Open, Blocks, UnitInv, UnitOK, Threads
    <2> QED
      BY <1>2, <1>4, <2>1 DEF U!Enter
  <1> QED
    BY <1>1, <1>3, <1>4 DEF EnterBlock

LEMMA WriterBlocks ==
  ASSUME LocalOK, Blocks, NEW w \in Writers, WriterStep(w) \/ Die(w)
  PROVE  Blocks' /\ pc' \in [Writers -> Steps]
  <1> USE DEF Steps, Inside, First, Second, At
  <1>1. CASE Begin(w)
    BY <1>1, OutThere, WalkKeeps DEF Begin
  <1>2. CASE EnterBlock(w)
    BY <1>2, EnterBlockKeeps
  <1>3. CASE ReadAttempt(w)
    <2>1. pc[w] \in {"attempt1", "attempt2"}
          /\ Look(w, Attempt(w),
                  table[Attempt(w)].value = "ours" /\ table[Attempt(w)].version = expected[w],
                  IF At(w, "attempt1") THEN "mission1" ELSE "operation2")
      BY <1>3 DEF ReadAttempt
    <2> QED
      BY <2>1, LookKeeps, RowsType
  <1>4. CASE ReadMission(w)
    <2>1. pc[w] \in {"mission1", "mission2"}
          /\ Look(w, Mission(w), table[Mission(w)].value # "cancelling",
                  IF At(w, "mission1") THEN "operation1" ELSE "register")
      BY <1>4 DEF ReadMission
    <2> QED
      BY <2>1, LookKeeps, RowsType
  <1>5. CASE ReadOperation(w)
    <2> DEFINE found == table[Operation(w)].value
               next == IF At(w, "operation2") THEN "mission2"
                       ELSE CASE found = "none" -> "open" [] found = "prepared" -> "resume"
                              [] OTHER -> "return"
               test == At(w, "operation1") \/ found # "none"
    <2>1. pc[w] \in {"operation1", "operation2"} /\ Look(w, Operation(w), test, next)
      BY <1>5 DEF ReadOperation
    <2>2. pc[w] = "operation2" => next = "mission2"
      OBVIOUS
    <2>3. pc[w] = "operation1" => next \in {"open", "resume", "return"}
      OBVIOUS
    <2> HIDE DEF next, test
    <2>4. test \in BOOLEAN
      BY DEF test
    <2> QED
      BY <2>1, <2>2, <2>3, <2>4, LookKeeps, RowsType
  <1>6. CASE Open(w)
    <2>1. \E step \in {"put", "failed", "done"} :
             Go(w, step) /\ (U!Commit(w, "main", Pending(w)) \/ U!Conflict(w, "main", Pending(w)))
      BY <1>6 DEF Open, Commits, Fails
    <2> QED
      BY <2>1, CommitsKeeps
  <1>7. CASE Find(w)
    BY <1>7, OutThere, WalkKeeps DEF Find
  <1>8. CASE Place(w)
    BY <1>8, OutThere, WalkKeeps DEF Place
  <1>9. CASE Verify(w)
    BY <1>9, OutThere, WalkKeeps, RaiseKeeps DEF Verify
  <1>10. CASE Register(w)
    <2>1. \E step \in {"failed", "done"} :
             Go(w, step) /\ (U!Commit(w, "main", Pending(w)) \/ U!Conflict(w, "main", Pending(w)))
      BY <1>10 DEF Register, Commits, Fails
    <2> QED
      BY <2>1, CommitsKeeps
  <1>11. CASE Die(w)
    BY <1>11, RaiseKeeps DEF Die
  <1> QED
    BY <1>1, <1>2, <1>3, <1>4, <1>5, <1>6, <1>7, <1>8, <1>9, <1>10, <1>11 DEF WriterStep

\* A step of the monitor thread leaves the main thread where it stands.  Where
\* the main thread has read rows in its block, the monitor is in it only if
\* the two have met.
LEMMA MonitorKeeps ==
  ASSUME LocalOK, Blocks, NEW w \in Writers, UnitInv', UNCHANGED pc,
         stage[w]["monitor"] # "out",
         stage'[w]["main"] = stage[w]["main"], torn \subseteq torn',
         \A v \in Writers \ {w} : /\ seen'[v] = seen[v] /\ stage'[v] = stage[v]
                                  /\ v \in torn' <=> v \in torn
  PROVE  Blocks' /\ pc' \in [Writers -> Steps]
  <1>1. w \notin torn' => pc[w] \notin Inside
    BY DEF Blocks, UnitInv, Sound, Apart, Standing, U!Alone, Threads
  <1>2. Standing(w)'
    BY <1>1 DEF Blocks, Standing, HasRead, Inside, First, Second
  <1> QED
    BY <1>2, OthersStand DEF Blocks, LocalOK

LEMMA OtherBlocks ==
  ASSUME LocalOK, Blocks, NEW w \in Writers,
         \/ TakeOver(w) \/ Cancel(w) \/ Recover(w)
         \/ MonitorEnters(w) \/ MonitorReads(w) \/ MonitorRenews(w)
  PROVE  Blocks' /\ pc' \in [Writers -> Steps]
  <1> USE DEF Blocks
  <1>1. CASE TakeOver(w) \/ Cancel(w) \/ Recover(w)
    <2>1. PICK r \in {Attempt(w), Mission(w), Operation(w)}, x \in Values :
             Update(r, x) /\ (r = Mission(w) => x = "cancelling")
      BY <1>1, RowsType DEF TakeOver, Cancel, Recover, Values
    <2>2. UnitInv'
      BY <2>1, UpdateKeeps DEF Update
    <2>3. UNCHANGED <<pc, stage, seen, torn>>
      BY <2>1 DEF Update
    <2> QED
      BY <2>2, <2>3 DEF Standing, HasRead, LocalOK
  <1>2. CASE MonitorEnters(w) /\ stage[w]["monitor"] = "out"
    <2>1. U!Test(w, "monitor") /\ pc' = pc
      BY <1>2 DEF MonitorEnters, U!Enter, U!Reset, U!Open
    <2>2. UnitInv'
      BY <2>1, EnterKeeps DEF Threads, U!Enter
    <2>3. UNCHANGED <<seen, torn>> /\ \A v \in Writers : stage'[v]["main"] = stage[v]["main"]
      BY <2>1 DEF U!Test, UnitInv, UnitOK, Threads
    <2> QED
      BY <2>1, <2>2, <2>3 DEF Standing, HasRead, LocalOK
  <1>3. CASE MonitorEnters(w) /\ stage[w]["monitor"] # "out"
    <2>1. U!Enter(w, "monitor") /\ pc' = pc
      BY <1>3 DEF MonitorEnters
    <2>2. /\ UnitInv' /\ torn \subseteq torn' /\ stage'[w]["main"] = stage[w]["main"]
          /\ \A v \in Writers \ {w} : seen'[v] = seen[v] /\ stage'[v] = stage[v]
          /\ \A v \in Writers \ {w} : v \in torn' <=> v \in torn
      BY <2>1, EnterKeeps DEF Threads
    <2> QED
      BY <1>3, <2>1, <2>2, MonitorKeeps
  <1>4. CASE MonitorReads(w) \/ MonitorRenews(w)
    <2>1. pc' = pc /\ stage[w]["monitor"] = "in"
      BY <1>4 DEF MonitorReads, MonitorRenews
    <2> DEFINE mine == table[Attempt(w)].value = "ours" /\ table[Attempt(w)].version < MaxVersion
    <2>2. CASE TRUE \in U!Tells(w, Attempt(w), mine) /\ U!Read(w, "monitor", Attempt(w))
      <3>1. UnitInv'
        BY <2>2, ReadKeeps, RowsType DEF Threads
      <3>2. UNCHANGED <<stage, torn>> /\ \A v \in Writers \ {w} : seen'[v] = seen[v]
        BY <2>2, ReadUnit, RowsType DEF UnitInv
      <3> QED
        BY <2>1, <3>1, <3>2, MonitorKeeps
    <2>3. CASE \/ U!Leave(w, "monitor")
               \/ U!Commit(w, "monitor", Pending(w)) \/ U!Conflict(w, "monitor", Pending(w))
      <3>1. UnitInv' /\ U!Exit(w, "monitor")
        BY <2>3, EndKeeps DEF Threads
      <3>2. /\ stage'[w]["main"] = stage[w]["main"] /\ torn' = torn
            /\ \A v \in Writers \ {w} : seen'[v] = seen[v] /\ stage'[v] = stage[v]
        BY <3>1, ExitUnit DEF UnitInv, UnitOK, Threads
      <3> QED
        BY <2>1, <3>1, <3>2, MonitorKeeps
    <2> QED
      BY <1>4, <2>2, <2>3 DEF MonitorReads, MonitorRenews
  <1> QED
    BY <1>1, <1>2, <1>3, <1>4

LEMMA NextBlocks == LocalOK /\ Blocks /\ [Next]_vars => Blocks' /\ pc' \in [Writers -> Steps]
  <1> SUFFICES ASSUME LocalOK, Blocks, [Next]_vars
               PROVE  Blocks' /\ pc' \in [Writers -> Steps]
    OBVIOUS
  <1>1. CASE \/ \E d \in Digests : Age(d) \/ Unlink(d)
             \/ Collect \/ UNCHANGED vars
    <2>1. UNCHANGED <<database, pc>>
      BY <1>1 DEF Age, Unlink, Collect, vars
    <2> QED
      BY <2>1, IdleKeeps DEF Blocks, Standing, HasRead, LocalOK, database
  <1> QED
    BY <1>1, WriterBlocks, OtherBlocks DEF Next

-----------------------------------------------------------------------------
(* The store, the artifacts.                                               *)

\* Only two steps may register an artifact.
LEMMA StepArtifacts ==
  ASSUME [Next]_vars
  PROVE  \/ \E w \in Writers : AddArtifact(w) /\ UNCHANGED <<want, store>>
         \/ UNCHANGED artifacts
  BY DEF Next, WriterStep, Begin, EnterBlock, ReadAttempt, ReadMission, ReadOperation, Look,
         Open, Find, Place, Verify, Register, Die, TakeOver, Cancel, Recover, Update,
         MonitorEnters, MonitorReads, MonitorRenews, Age, Unlink, Collect, vars, local

LEMMA NextLocal == LocalOK /\ Blocks /\ [Next]_vars => LocalOK'
  <1> SUFFICES ASSUME LocalOK, Blocks, [Next]_vars
               PROVE  LocalOK'
    OBVIOUS
  <1>1. pc' \in [Writers -> Steps]
    BY NextBlocks
  <1>2. want' = want
    BY DEF Next, WriterStep, Begin, EnterBlock, ReadAttempt, ReadMission, ReadOperation, Look,
           Open, Find, Place, Verify, Register, Die, TakeOver, Cancel, Recover, Update,
           MonitorEnters, MonitorReads, MonitorRenews, Age, Unlink, Collect, vars, local
  <1>3. expected' \in [Writers -> Nat]
    <2>1. \A w \in Writers : table[Attempt(w)].version \in Nat
      BY RowsType DEF Blocks, UnitInv, UnitOK, Row
    <2> QED
      BY <2>1 DEF LocalOK, Next, WriterStep, Begin, EnterBlock, ReadAttempt, ReadMission,
           ReadOperation, Look, Open, Find, Place, Verify, Register, Die, TakeOver, Cancel,
           Recover, Update, MonitorEnters, MonitorReads, MonitorRenews, Age, Unlink, Collect,
           vars, local
  <1>4. blob' \in [Digests -> {"absent", "young", "aged"}] /\ doomed' \subseteq Digests
    BY DEF LocalOK, Next, WriterStep, Begin, EnterBlock, ReadAttempt, ReadMission,
           ReadOperation, Look, Open, Find, Place, Verify, Register, Die, TakeOver, Cancel,
           Recover, Update, MonitorEnters, MonitorReads, MonitorRenews, Age, Unlink, Collect,
           vars, store
  <1>5. registered' \subseteq Writers \X Digests /\ lapsed' \subseteq Digests
    BY StepArtifacts DEF LocalOK, AddArtifact, artifacts
  <1> QED
    BY <1>1, <1>2, <1>3, <1>4, <1>5 DEF LocalOK

\* What is young when it is registered is not doomed, and what is referenced
\* is not doomed later.
LEMMA NextSpared ==
  LocalOK /\ Spared /\ RegisteredKept /\ [Next]_vars => Spared' /\ RegisteredKept'
  <1> SUFFICES ASSUME LocalOK, Spared, RegisteredKept, [Next]_vars
               PROVE  Spared' /\ RegisteredKept'
    OBVIOUS
  <1> USE DEF Spared, RegisteredKept, Referenced
  <1>1. ASSUME NEW w \in Writers, Place(w)
        PROVE  Spared' /\ RegisteredKept'
    BY <1>1 DEF Place, LocalOK, artifacts
  <1>2. ASSUME NEW w \in Writers, AddArtifact(w), UNCHANGED store
        PROVE  Spared' /\ RegisteredKept'
    BY <1>2 DEF AddArtifact, LocalOK, store
  <1>3. ASSUME NEW d \in Digests, Age(d)
        PROVE  Spared' /\ RegisteredKept'
    BY <1>3 DEF Age, LocalOK, artifacts
  <1>4. ASSUME NEW d \in Digests, Unlink(d)
        PROVE  Spared' /\ RegisteredKept'
    BY <1>4 DEF Unlink, LocalOK, artifacts
  <1>5. CASE Collect
    BY <1>5 DEF Collect, LocalOK, artifacts
  <1>6. CASE UNCHANGED <<artifacts, store>>
    BY <1>6 DEF artifacts, store
  <1>7. \/ \E w \in Writers : Place(w) \/ (AddArtifact(w) /\ UNCHANGED store)
        \/ \E d \in Digests : Age(d) \/ Unlink(d)
        \/ Collect \/ UNCHANGED <<artifacts, store>>
    BY DEF Next, WriterStep, Begin, EnterBlock, ReadAttempt, ReadMission, ReadOperation, Look,
           Open, Find, Verify, Register, Die, TakeOver, Cancel, Recover, Update, MonitorEnters,
           MonitorReads, MonitorRenews, vars
  <1> QED
    BY <1>1, <1>2, <1>3, <1>4, <1>5, <1>6, <1>7

-----------------------------------------------------------------------------
(* The steps.                                                              *)

\* A step commits what a thread has pending, or updates a row for another
\* process, or writes nothing.
CommitsIn(w) == \E t \in Threads : U!Commit(w, t, Pending(w))
Updates(w) == TakeOver(w) \/ Cancel(w) \/ Recover(w)

LEMMA StepWrites ==
  ASSUME [Next]_vars
  PROVE  (\E w \in Writers : CommitsIn(w) \/ Updates(w)) \/ table' = table
  <1> DEFINE Goal == (\E w \in Writers : CommitsIn(w) \/ Updates(w)) \/ table' = table
  <1>1. ASSUME NEW w \in Writers,
               Begin(w) \/ EnterBlock(w) \/ Find(w) \/ Place(w) \/ Verify(w) \/ Die(w)
        PROVE  Goal
    BY <1>1 DEF Begin, EnterBlock, Find, Place, Verify, Die, Raise, database,
                U!Test, U!Reset, U!Open, U!Leave
  <1>2. ASSUME NEW w \in Writers, ReadAttempt(w) \/ ReadMission(w) \/ ReadOperation(w)
        PROVE  Goal
    BY <1>2 DEF ReadAttempt, ReadMission, ReadOperation, Look, Raise, database, U!Read, U!Leave
  <1>3. ASSUME NEW w \in Writers, Open(w) \/ Register(w)
        PROVE  Goal
    <2>1. U!Commit(w, "main", Pending(w)) \/ U!Conflict(w, "main", Pending(w))
      BY <1>3 DEF Open, Register, Commits, Fails
    <2> QED
      BY <2>1 DEF U!Conflict, U!Leave, CommitsIn, Threads
  <1>4. ASSUME NEW w \in Writers, MonitorEnters(w) \/ MonitorReads(w) \/ MonitorRenews(w)
        PROVE  Goal
    BY <1>4 DEF MonitorEnters, MonitorReads, MonitorRenews, U!Enter, U!Test, U!Reset, U!Open,
                U!Read, U!Leave, U!Conflict, CommitsIn, Threads
  <1>5. ASSUME NEW w \in Writers, TakeOver(w) \/ Cancel(w) \/ Recover(w)
        PROVE  Goal
    BY <1>5 DEF Updates
  <1>6. ASSUME (\E d \in Digests : Age(d) \/ Unlink(d)) \/ Collect \/ UNCHANGED vars
        PROVE  Goal
    BY <1>6 DEF Age, Unlink, Collect, vars, database
  <1> HIDE DEF Goal
  <1>7. Goal
    BY <1>1, <1>2, <1>3, <1>4, <1>5, <1>6 DEF Next, WriterStep
  <1> QED
    BY <1>7 DEF Goal

\* Whatever a step writes, it counts up.
LEMMA StepCounts ==
  ASSUME Blocks, [Next]_vars
  PROVE  CountsUp
  <1>1. UnitOK
    BY DEF Blocks, UnitInv
  <1>2. ASSUME NEW w \in Writers, CommitsIn(w)
        PROVE  CountsUp
    BY <1>1, <1>2, CommitPending DEF CommitsIn
  <1>3. ASSUME NEW w \in Writers, Updates(w)
        PROVE  CountsUp
    BY <1>1, <1>3, RowsType DEF Updates, TakeOver, Cancel, Recover, Update, UnitOK, CountsUp
  <1> QED
    BY <1>2, <1>3, StepWrites DEF CountsUp

-----------------------------------------------------------------------------
(* The blocks of PersistArtifact happen at once.                           *)

\* From its first commit on a writer has an Operation to finish, and only the
\* writer itself completes it, as long as its threads have not met.
Afterwards == {"resume", "put", "stage", "verify", "enter2"} \union Second
HasOpened(w) == w \notin torn =>
    /\ pc[w] \in Afterwards => table[Operation(w)].value = "prepared"
    /\ pc[w] = "open" => table[Operation(w)].value = "none"
Opened == \A w \in Writers : HasOpened(w)

Value(r) == table[r].value
Current(w) == Value(Attempt(w)) = "ours" /\ Value(Mission(w)) = "running"
Writes(r, x) == Value(r)' = x /\ \A q \in Rows \ {r} : Value(q)' = Value(q)
Keeps == \A q \in Rows : Value(q)' = Value(q)
Adds(w, d) == registered' = registered \union {<<w, d>>}

\* A commit changes no value but that of an Operation its block is changing.
LEMMA CommitValues ==
  ASSUME UnitOK, NEW w \in Writers, NEW t \in Threads, U!Commit(w, t, Pending(w))
  PROVE  /\ torn' = torn
         /\ Keeps \/ (Changing(w) /\ Writes(Operation(w), Pending(w)[Operation(w)]))
         /\ w \notin torn /\ Changing(w) => Writes(Operation(w), Pending(w)[Operation(w)])
  <1>1. torn' = torn
    BY ExitUnit, CommitPending
  <1>2. \A q \in Rows \ {Operation(w)} : Value(q)' = Value(q)
    BY CommitPending DEF Value
  <1> QED
    BY <1>1, <1>2, CommitPending DEF Writes, Keeps, Value

\* A block of the main thread that commits after its assertions is current,
\* unless the monitor has met it.
LEMMA CommitsCurrent ==
  ASSUME Blocks, NEW w \in Writers \ torn, Changing(w), U!Commit(w, "main", Pending(w))
  PROVE  Current(w)
  <1>1. seen[w][Attempt(w)] # 0 /\ seen[w][Mission(w)] # 0
    BY DEF Blocks, Standing, HasRead, Changing, Inside, First, Second
  <1>2. UnitOK /\ "main" \in Threads
    BY DEF Blocks, UnitInv, Threads
  <1>3. seen[w][Attempt(w)] = table[Attempt(w)].version
        /\ seen[w][Mission(w)] = table[Mission(w)].version
    BY <1>1, <1>2, CommitPending, RowsType
  <1> QED
    BY <1>1, <1>3 DEF Blocks, UnitInv, Sound, Asserted, Current, Value

\* What a step of anybody does to the values of the rows and the artifacts.
Prepares(w) ==
    /\ w \notin torn /\ pc[w] = "open" /\ Current(w) /\ Value(Operation(w)) = "none"
    /\ Writes(Operation(w), "prepared") /\ registered' = registered
    /\ pc' = [pc EXCEPT ![w] = "put"]
Succeeds(w) ==
    /\ w \notin torn /\ pc[w] = "register" /\ Current(w) /\ Value(Operation(w)) = "prepared"
    /\ Writes(Operation(w), "succeeded") /\ Adds(w, want[w])
    /\ pc' = [pc EXCEPT ![w] = "done"]
Tears(w) ==
    /\ w \in torn
    /\ Keeps \/ Writes(Operation(w), "prepared") \/ Writes(Operation(w), "succeeded")
    /\ registered' = registered \/ Adds(w, want[w])
Loses(w) == Writes(Attempt(w), "theirs") /\ registered' = registered
Stops(w) == Writes(Mission(w), "cancelling") /\ registered' = registered
Meets(w) == Keeps /\ registered' = registered /\ torn' = torn \union {w}

Effect ==
    \/ Keeps /\ UNCHANGED <<registered, torn>>
    \/ \E w \in Writers : \/ Meets(w)
                          \/ torn' = torn /\ \/ Prepares(w) \/ Succeeds(w) \/ Tears(w)
                                             \/ Loses(w) \/ Stops(w)

LEMMA OpenEffect ==
  ASSUME Blocks, Opened, NEW w \in Writers, Open(w)
  PROVE  Effect
  <1>1. registered' = registered /\ UnitOK /\ "main" \in Threads
    BY DEF Open, artifacts, Blocks, UnitInv, Threads
  <1>2. CASE U!Conflict(w, "main", Pending(w))
    BY <1>1, <1>2, ConflictUnit, ExitUnit DEF Effect, Keeps, Value
  <1>3. CASE U!Commit(w, "main", Pending(w)) /\ w \in torn
    BY <1>1, <1>3, CommitValues, PendingType DEF Effect, Tears
  <1>4. CASE U!Commit(w, "main", Pending(w)) /\ w \notin torn /\ pc[w] = "open"
    <2>1. Changing(w) /\ Pending(w)[Operation(w)] = "prepared"
      BY <1>4, PendingType DEF Changing
    <2>2. Current(w) /\ Value(Operation(w)) = "none"
      BY <1>4, <2>1, CommitsCurrent DEF Opened, HasOpened, Value
    <2>3. pc' = [pc EXCEPT ![w] = "put"] \/ U!Conflict(w, "main", Pending(w))
      BY <1>4 DEF Open, Commits, Fails, Go, At
    <2> QED
      BY <1>1, <1>2, <1>4, <2>1, <2>2, <2>3, CommitValues DEF Effect, Prepares
  <1>5. CASE U!Commit(w, "main", Pending(w)) /\ pc[w] \in {"resume", "return"}
    BY <1>1, <1>5, CommitValues DEF Effect, Changing
  <1>6. /\ U!Commit(w, "main", Pending(w)) \/ U!Conflict(w, "main", Pending(w))
        /\ pc[w] \in {"open", "resume", "return"}
    BY DEF Open, Commits, Fails, At
  <1> QED
    BY <1>2, <1>3, <1>4, <1>5, <1>6

LEMMA RegisterEffect ==
  ASSUME Blocks, Opened, NEW w \in Writers, Register(w)
  PROVE  Effect
  <1>1. UnitOK /\ "main" \in Threads /\ pc[w] = "register"
    BY DEF Register, Blocks, UnitInv, Threads, At
  <1>2. CASE Fails(w) /\ UNCHANGED artifacts
    BY <1>1, <1>2, ConflictUnit, ExitUnit DEF Fails, Effect, Keeps, Value, artifacts
  <1>3. CASE Commits(w, "done") /\ (AddArtifact(w) \/ (w \in torn /\ UNCHANGED artifacts))
    <2>1. U!Commit(w, "main", Pending(w)) /\ Changing(w)
          /\ Pending(w)[Operation(w)] = "succeeded"
      BY <1>1, <1>3, PendingType DEF Commits, Changing
    <2>2. CASE w \in torn
      BY <1>1, <1>3, <2>1, <2>2, CommitValues DEF Effect, Tears, AddArtifact, Adds, artifacts
    <2>3. CASE w \notin torn
      <3>1. Current(w) /\ Value(Operation(w)) = "prepared"
        BY <1>1, <2>1, <2>3, CommitsCurrent DEF Opened, HasOpened, Value, Afterwards, Second
      <3>2. pc' = [pc EXCEPT ![w] = "done"] /\ Adds(w, want[w])
        BY <1>3, <2>3 DEF Commits, Go, AddArtifact, Adds
      <3> QED
        BY <1>1, <2>1, <2>3, <3>1, <3>2, CommitValues DEF Effect, Succeeds
    <2> QED
      BY <2>2, <2>3
  <1> QED
    BY <1>2, <1>3 DEF Register

\* The monitor alone renews the lease; beside the main thread it may commit
\* anything that is pending.
LEMMA MonitorEffect ==
  ASSUME Blocks, NEW w \in Writers, MonitorRenews(w)
  PROVE  Effect
  <1>1. UnitOK /\ "monitor" \in Threads /\ stage[w]["monitor"] = "in"
    BY DEF MonitorRenews, Blocks, UnitInv, Threads
  <1>2. CASE U!Conflict(w, "monitor", Pending(w)) /\ UNCHANGED artifacts
    BY <1>1, <1>2, ConflictUnit, ExitUnit DEF Effect, Keeps, Value, artifacts
  <1>3. CASE U!Commit(w, "monitor", Pending(w)) /\ w \in torn
    BY <1>1, <1>3, CommitValues, PendingType
       DEF MonitorRenews, U!Conflict, Effect, Tears, AddArtifact, Adds, artifacts
  <1>4. CASE U!Commit(w, "monitor", Pending(w)) /\ w \notin torn
    <2>1. pc[w] \notin Inside
      BY <1>1, <1>4 DEF Blocks, UnitInv, Sound, Apart, U!Alone, Threads, Standing
    <2>2. ~Changing(w) /\ ~At(w, "register")
      BY <2>1 DEF Changing, At, Inside, First, Second
    <2> QED
      BY <1>1, <1>4, <2>2, CommitValues DEF MonitorRenews, Effect, artifacts
  <1> QED
    BY <1>2, <1>3, <1>4 DEF MonitorRenews

LEMMA UpdatesEffect ==
  ASSUME Blocks, NEW w \in Writers, Updates(w)
  PROVE  Effect
  <1>1. PICK r \in {Attempt(w), Mission(w), Operation(w)},
             x \in {"theirs", "cancelling", Value(Operation(w))} :
           /\ Update(r, x)
           /\ \/ r = Attempt(w) /\ x = "theirs"
              \/ r = Mission(w) /\ x = "cancelling"
              \/ r = Operation(w) /\ x = Value(r)
    BY DEF Updates, TakeOver, Cancel, Recover, Value
  <1>2. Writes(r, x) /\ UNCHANGED <<registered, torn>>
    BY <1>1, RowsType DEF Update, Writes, Value, Blocks, UnitInv, UnitOK, artifacts
  <1> QED
    BY <1>1, <1>2, RowsType DEF Effect, Loses, Stops, Keeps, Writes

\* A step of a unit before its block ends.
LEMMA EnterEffect ==
  ASSUME Blocks, NEW w \in Writers, NEW t \in Threads, U!Enter(w, t), UNCHANGED artifacts
  PROVE  Effect
  <1>1. table' = table /\ (torn' = torn \/ torn' = torn \union {w})
    BY EnterKeeps DEF Blocks
  <1> QED
    BY <1>1 DEF Effect, Meets, Keeps, Value, artifacts

LEMMA StepEffect ==
  ASSUME Blocks, Opened, [Next]_vars
  PROVE  Effect
  <1> DEFINE Quiet == UNCHANGED <<table, torn, registered>>
             Enters(w) == \E t \in Threads : U!Enter(w, t) /\ UNCHANGED artifacts
  <1>a. ASSUME NEW w, Raise(w), UNCHANGED artifacts
        PROVE  Quiet
    BY <1>a DEF Raise, U!Leave, U!Exit, database, artifacts
  <1>b. ASSUME NEW w, NEW r, NEW test, NEW next, Look(w, r, test, next)
        PROVE  Quiet
    BY <1>a, <1>b DEF Look, U!Read, artifacts
  <1>c. ASSUME NEW w, WriterStep(w)
        PROVE  Open(w) \/ Register(w) \/ Enters(w) \/ Quiet
    <2>1. CASE EnterBlock(w)
      BY <1>a, <2>1 DEF EnterBlock, U!Enter, Threads
    <2>2. CASE ReadAttempt(w) \/ ReadMission(w) \/ ReadOperation(w)
      BY <1>b, <2>2 DEF ReadAttempt, ReadMission, ReadOperation
    <2>3. CASE Begin(w) \/ Find(w) \/ Place(w) \/ Verify(w)
      BY <1>a, <2>3 DEF Begin, Find, Place, Verify, database, artifacts
    <2> QED
      BY <1>c, <2>1, <2>2, <2>3 DEF WriterStep
  <1>d. ASSUME NEW w, MonitorEnters(w) \/ MonitorReads(w)
        PROVE  Enters(w) \/ Quiet
    BY <1>d DEF MonitorEnters, MonitorReads, U!Read, U!Leave, U!Exit, artifacts, Threads
  <1>1. \/ \E w \in Writers : \/ Open(w) \/ Register(w) \/ MonitorRenews(w) \/ Updates(w)
                             \/ \E t \in Threads : U!Enter(w, t) /\ UNCHANGED artifacts
        \/ UNCHANGED <<table, torn, registered>>
    <2>1. CASE \E w \in Writers : WriterStep(w)
      BY <1>c, <2>1
    <2>2. CASE \E w \in Writers : Die(w)
      BY <1>a, <2>2 DEF Die
    <2>3. CASE \E w \in Writers : MonitorEnters(w) \/ MonitorReads(w)
      BY <1>d, <2>3
    <2>4. CASE \E w \in Writers : TakeOver(w) \/ Cancel(w) \/ Recover(w) \/ MonitorRenews(w)
      BY <2>4 DEF Updates
    <2>5. CASE (\E d \in Digests : Age(d) \/ Unlink(d)) \/ Collect \/ UNCHANGED vars
      BY <2>5 DEF Age, Unlink, Collect, vars, database, artifacts
    <2> QED
      BY <2>1, <2>2, <2>3, <2>4, <2>5 DEF Next
  <1>2. CASE UNCHANGED <<table, torn, registered>>
    BY <1>2 DEF Effect, Keeps, Value
  <1> QED
    BY <1>1, <1>2, OpenEffect, RegisterEffect, MonitorEffect, UpdatesEffect, EnterEffect

\* Where a writer comes from: only the read of the Operation takes it to its
\* first commit, and only that read or that commit beyond it.
LEMMA Arrives ==
  ASSUME LocalOK, [Next]_vars, NEW w \in Writers, w \notin torn,
         pc'[w] \in Afterwards \union {"open"}
  PROVE  \/ pc[w] \in Afterwards /\ pc'[w] # "open"
         \/ pc[w] = "open" /\ (pc'[w] = "open" \/ (pc'[w] = "put" /\ Open(w)))
         \/ /\ UNCHANGED table
            /\ \/ pc'[w] = "open" /\ table[Operation(w)].value = "none"
               \/ pc'[w] = "resume" /\ table[Operation(w)].value = "prepared"
  <1> USE DEF Afterwards, Second, At
  <1>1. ASSUME NEW v \in Writers, v # w, NEW step, Go(v, step)
        PROVE  pc'[w] = pc[w]
    BY <1>1 DEF Go, LocalOK
  <1>2. ASSUME NEW v \in Writers, v # w, WriterStep(v) \/ Die(v)
        PROVE  pc'[w] = pc[w]
    BY <1>1, <1>2 DEF WriterStep, Begin, EnterBlock, ReadAttempt, ReadMission, ReadOperation,
       Look, Open, Commits, Fails, Find, Place, Verify, Register, Die, Raise
  <1>3. ASSUME NEW step, Go(w, step)
        PROVE  pc'[w] = step
    BY <1>3 DEF Go, LocalOK
  <1>4. ~Go(w, "failed") /\ ~Go(w, "enter1") /\ ~Go(w, "done") /\ ~Raise(w)
    BY <1>3 DEF Raise
  <1>5. CASE ReadOperation(w)
    <2> DEFINE found == table[Operation(w)].value
               next == IF At(w, "operation2") THEN "mission2"
                       ELSE CASE found = "none" -> "open" [] found = "prepared" -> "resume"
                              [] OTHER -> "return"
    <2>1. pc[w] \in {"operation1", "operation2"} /\ Go(w, next) /\ UNCHANGED table
      BY <1>4, <1>5 DEF ReadOperation, Look, U!Read
    <2>2. pc'[w] = next
      BY <1>3, <2>1
    <2>3. CASE pc[w] = "operation2"
      BY <2>2, <2>3
    <2>4. CASE pc[w] = "operation1"
      BY <2>1, <2>2, <2>4
    <2> QED
      BY <2>1, <2>3, <2>4
  <1>6. CASE Open(w)
    <2>1. Go(w, "put") /\ pc[w] \in {"open", "resume"}
      BY <1>4, <1>6 DEF Open, Commits, Fails
    <2> QED
      BY <1>3, <1>6, <2>1
  <1>7. CASE ReadAttempt(w) \/ ReadMission(w)
    <2>1. \/ pc[w] = "attempt1" /\ Go(w, "mission1")
          \/ pc[w] = "mission1" /\ Go(w, "operation1")
          \/ pc[w] = "attempt2" /\ Go(w, "operation2")
          \/ pc[w] = "mission2" /\ Go(w, "register")
      BY <1>4, <1>7 DEF ReadAttempt, ReadMission, Look
    <2> QED
      BY <1>3, <2>1
  <1>8. CASE \/ EnterBlock(w) \/ Find(w) \/ Place(w) \/ Verify(w)
    <2>1. \/ pc'[w] = pc[w] /\ pc[w] \in {"enter1", "enter2"}
          \/ pc[w] = "enter1" /\ Go(w, "attempt1")
          \/ pc[w] = "enter2" /\ Go(w, "attempt2")
          \/ pc[w] = "put" /\ (Go(w, "stage") \/ Go(w, "verify"))
          \/ pc[w] = "stage" /\ Go(w, "verify")
          \/ pc[w] = "verify" /\ Go(w, "enter2")
      BY <1>4, <1>8 DEF EnterBlock, Find, Place, Verify
    <2> QED
      BY <1>3, <2>1
  <1>9. CASE Begin(w) \/ Register(w) \/ Die(w)
    BY <1>4, <1>9 DEF Begin, Register, Commits, Fails, Die
  <1>10. CASE pc'[w] = pc[w]
    BY <1>10
  <1>11. (\E v \in Writers : WriterStep(v) \/ Die(v)) \/ pc' = pc
    BY DEF Next, TakeOver, Cancel, Recover, Update, MonitorEnters, MonitorReads, MonitorRenews,
           Age, Unlink, Collect, vars
  <1> QED
    BY <1>2, <1>5, <1>6, <1>7, <1>8, <1>9, <1>10, <1>11 DEF WriterStep

\* The first block leaves an Operation that is prepared.
LEMMA OpenPrepares ==
  ASSUME LocalOK, Blocks, NEW w \in Writers \ torn, Open(w), pc[w] = "open", pc'[w] = "put"
  PROVE  Value(Operation(w))' = "prepared"
  <1>1. UnitOK /\ "main" \in Threads /\ pc' # [pc EXCEPT ![w] = "failed"]
    BY DEF LocalOK, Blocks, UnitInv, Threads
  <1>2. U!Commit(w, "main", Pending(w))
    BY <1>1 DEF Open, Commits, Fails, Go, At
  <1>3. Changing(w) /\ Pending(w)[Operation(w)] = "prepared"
    BY PendingType DEF Changing
  <1> QED
    BY <1>1, <1>2, <1>3, CommitValues DEF Writes

\* Nobody else's step changes what a writer's Operation holds.
LEMMA OperationStays ==
  ASSUME Effect, LocalOK, NEW w \in Writers, w \notin torn,
         pc[w] = "open" => pc'[w] # "put", pc'[w] # "done"
  PROVE  Value(Operation(w))' = Value(Operation(w))
  <1>1. Operation(w) \in Rows
    BY RowsType
  <1>2. CASE Keeps
    BY <1>1, <1>2 DEF Keeps
  <1>3. ASSUME NEW v \in Writers, v # w, Prepares(v) \/ Succeeds(v) \/ Tears(v)
        PROVE  Value(Operation(w))' = Value(Operation(w))
    BY <1>1, <1>3, RowsType DEF Prepares, Succeeds, Tears, Writes, Keeps
  <1>4. ASSUME NEW v \in Writers, Loses(v) \/ Stops(v) \/ Meets(v)
        PROVE  Value(Operation(w))' = Value(Operation(w))
    BY <1>1, <1>4, RowsType DEF Loses, Stops, Meets, Writes, Keeps
  <1>5. ~(Prepares(w) \/ Succeeds(w) \/ Tears(w))
    BY DEF Prepares, Succeeds, Tears, LocalOK
  <1> QED
    BY <1>2, <1>3, <1>4, <1>5 DEF Effect

LEMMA NextOpened == LocalOK /\ Blocks /\ Opened /\ [Next]_vars => Opened'
  <1> SUFFICES ASSUME LocalOK, Blocks, Opened, [Next]_vars, NEW w \in Writers, w \notin torn'
               PROVE  HasOpened(w)'
    BY DEF Opened, HasOpened
  <1>1. Effect
    BY StepEffect
  <1>2. w \notin torn /\ HasOpened(w)
    BY <1>1 DEF Effect, Meets, Opened
  <1> SUFFICES ASSUME pc'[w] \in Afterwards \union {"open"}
               PROVE  HasOpened(w)'
    BY DEF HasOpened
  <1>3. pc'[w] # "done" /\ (pc'[w] \in Afterwards <=> pc'[w] # "open")
    BY DEF Afterwards, Second
  <1>4. CASE pc[w] \in Afterwards /\ pc'[w] # "open"
    <2>1. Value(Operation(w))' = Value(Operation(w)) /\ Value(Operation(w)) = "prepared"
      BY <1>1, <1>2, <1>3, <1>4, OperationStays DEF HasOpened, Value, Afterwards, Second
    <2> QED
      BY <1>4, <2>1 DEF HasOpened, Value
  <1>5. CASE pc[w] = "open" /\ pc'[w] = "open"
    <2>1. Value(Operation(w))' = Value(Operation(w)) /\ Value(Operation(w)) = "none"
      BY <1>1, <1>2, <1>5, OperationStays DEF HasOpened, Value
    <2> QED
      BY <1>3, <1>5, <2>1 DEF HasOpened, Value
  <1>6. CASE pc[w] = "open" /\ pc'[w] = "put" /\ Open(w)
    BY <1>2, <1>6, OpenPrepares DEF HasOpened, Value
  <1>7. CASE /\ UNCHANGED table
             /\ \/ pc'[w] = "open" /\ table[Operation(w)].value = "none"
                \/ pc'[w] = "resume" /\ table[Operation(w)].value = "prepared"
    BY <1>3, <1>7 DEF HasOpened
  <1> QED
    BY <1>2, <1>4, <1>5, <1>6, <1>7, Arrives

-----------------------------------------------------------------------------
(* The abstract specification.                                             *)

\* Mission, Attempt and Operation of every writer, as the promise sees them.
MissionOf   == [w \in Writers |-> table[Mission(w)].value]
AttemptOf   == [w \in Writers |-> table[Attempt(w)].value]
OperationOf == [w \in Writers |-> table[Operation(w)].value]

LEMMA EffectAllowed ==
  ASSUME LocalOK, UnitOK, Effect
  PROVE  [P!Next]_<<MissionOf, AttemptOf, OperationOf, registered, torn>>
  <1> USE DEF MissionOf, AttemptOf, OperationOf, Value
  <1>1. Keeps => UNCHANGED <<MissionOf, AttemptOf, OperationOf>>
    BY RowsType DEF Keeps
  <1>2. ASSUME NEW w \in Writers, NEW x, Writes(Operation(w), x)
        PROVE  /\ MissionOf' = MissionOf /\ AttemptOf' = AttemptOf
               /\ OperationOf' = [OperationOf EXCEPT ![w] = x]
    BY <1>2, RowsType DEF Writes
  <1>3. ASSUME NEW w \in Writers, torn' = torn, Prepares(w)
        PROVE  P!Prepare(w)
    BY <1>2, <1>3 DEF Prepares, P!Prepare, P!Current, Current
  <1>4. ASSUME NEW w \in Writers, torn' = torn, Succeeds(w)
        PROVE  P!Finalize(w)
    <2>1. want[w] \in Digests
      BY DEF LocalOK
    <2> QED
      BY <1>2, <1>4, <2>1 DEF Succeeds, Adds, P!Finalize, P!Current, Current
  <1>5. ASSUME NEW w \in Writers, torn' = torn, Tears(w)
        PROVE  P!Tear(w)
    <2>1. want[w] \in Digests
      BY DEF LocalOK
    <2>2. /\ MissionOf' = MissionOf /\ AttemptOf' = AttemptOf
          /\ \/ OperationOf' = OperationOf
             \/ OperationOf' = [OperationOf EXCEPT ![w] = "prepared"]
             \/ OperationOf' = [OperationOf EXCEPT ![w] = "succeeded"]
      BY <1>1, <1>2, <1>5 DEF Tears
    <2>3. registered' \in {registered} \union {registered \union {<<w, d>>} : d \in Digests}
      BY <1>5, <2>1 DEF Tears, Adds
    <2> QED
      BY <1>5, <2>2, <2>3 DEF Tears, P!Tear
  <1>6. ASSUME NEW w \in Writers, torn' = torn, Loses(w)
        PROVE  P!TakeOver(w)
    <2>1. MissionOf' = MissionOf /\ OperationOf' = OperationOf
      BY <1>6, RowsType DEF Loses, Writes
    <2>2. AttemptOf' = [AttemptOf EXCEPT ![w] = "theirs"]
      BY <1>6, RowsType DEF Loses, Writes
    <2> QED
      BY <1>6, <2>1, <2>2 DEF Loses, P!TakeOver
  <1>7. ASSUME NEW w \in Writers, torn' = torn, Stops(w)
        PROVE  P!Cancel(w)
    <2>1. AttemptOf' = AttemptOf /\ OperationOf' = OperationOf
      BY <1>7, RowsType DEF Stops, Writes
    <2>2. MissionOf' = [MissionOf EXCEPT ![w] = "cancelling"]
      BY <1>7, RowsType DEF Stops, Writes
    <2> QED
      BY <1>7, <2>1, <2>2 DEF Stops, P!Cancel
  <1>8. ASSUME NEW w \in Writers, Meets(w)
        PROVE  P!Meet(w)
    BY <1>1, <1>8 DEF Meets, P!Meet
  <1>9. CASE Keeps /\ UNCHANGED <<registered, torn>>
    BY <1>1, <1>9
  <1> HIDE DEF MissionOf, AttemptOf, OperationOf, Value
  <1> QED
    BY <1>3, <1>4, <1>5, <1>6, <1>7, <1>8, <1>9
       DEF Effect, P!Next, MissionOf, AttemptOf, OperationOf

\* Each Operation that succeeded has one artifact, by the promise alone.
LEMMA PromiseKeepsOne ==
  ASSUME P!OneArtifact, [P!Next]_P!vars
  PROVE  P!OneArtifact'
  <1> USE DEF P!OneArtifact, P!vars
  <1>1. CASE UNCHANGED <<registered, OperationOf, torn>>
    BY <1>1 DEF OperationOf
  <1>2. ASSUME NEW w \in Writers, P!Prepare(w)
        PROVE  P!OneArtifact'
    BY <1>2 DEF P!Prepare
  <1>3. ASSUME NEW w \in Writers, P!Finalize(w)
        PROVE  P!OneArtifact'
    BY <1>3 DEF P!Finalize
  <1>4. ASSUME NEW w \in Writers, P!Meet(w)
        PROVE  P!OneArtifact'
    BY <1>4 DEF P!Meet
  <1>5. ASSUME NEW w \in Writers, P!Tear(w)
        PROVE  P!OneArtifact'
    <2> SUFFICES ASSUME NEW v \in Writers \ torn
                 PROVE  /\ OperationOf'[v] = OperationOf[v]
                        /\ \A d \in Digests : <<v, d>> \in registered' <=> <<v, d>> \in registered
      BY <1>5 DEF P!Tear, OperationOf
    <2>1. v # w
      BY <1>5 DEF P!Tear
    <2>2. OperationOf' = OperationOf \/ \E s : OperationOf' = [OperationOf EXCEPT ![w] = s]
      BY <1>5 DEF P!Tear, OperationOf
    <2>3. OperationOf'[v] = OperationOf[v]
      BY <2>1, <2>2 DEF OperationOf
    <2>4. registered' = registered \/ \E d \in Digests : registered' = registered \union {<<w, d>>}
      BY <1>5 DEF P!Tear
    <2> QED
      BY <2>1, <2>3, <2>4
  <1> QED
    BY <1>1, <1>2, <1>3, <1>4, <1>5 DEF P!Next, P!TakeOver, P!Cancel, OperationOf

-----------------------------------------------------------------------------
(* Theorems.                                                               *)

LEMMA InitSound == Init => IInv
  <1> SUFFICES ASSUME Init
               PROVE  IInv
    OBVIOUS
  <1>1. /\ table = [r \in Rows |-> Born(r)] /\ seen = [u \in Writers |-> [r \in Rows |-> 0]]
        /\ session = [u \in Writers |-> FALSE] /\ torn = {}
        /\ stage = [u \in Writers |-> [t \in Threads |-> "out"]]
    BY DEF Init, U!Start, U!Unread, U!Nothing
  <1>2. \A r \in Rows : Born(r) \in Row
    BY DEF Born, Rows, Row, Values
  <1>3. UnitOK
    BY <1>1, <1>2 DEF UnitOK, U!Stages
  <1>4. ASSUME NEW w \in Writers
        PROVE  Sound(w) /\ Standing(w)
    <2>1. /\ table[Mission(w)].value = "running" /\ table[Attempt(w)].value = "ours"
          /\ table[Mission(w)].version = 1 /\ table[Attempt(w)].version = 1
      BY <1>1, RowsType DEF Born, Mission, Attempt
    <2>2. \A r \in Rows : seen[w][r] = 0 /\ table[r].version \in Nat
      BY <1>1, <1>3 DEF UnitOK, Row
    <2>3. Exists(w)
      BY <2>1 DEF Exists
    <2>4. Reads(w) /\ Asserted(w)
      BY <2>1, <2>2, RowsType DEF Reads, Asserted
    <2>5. Session(w) /\ Apart(w)
      BY <1>1, <2>2 DEF Session, Apart
    <2>6. Standing(w)
      BY <1>1 DEF Init, Standing, HasRead, Inside, First, Second, Threads
    <2> QED
      BY <2>3, <2>4, <2>5, <2>6 DEF Sound
  <1>5. LocalOK
    BY DEF Init, LocalOK, Steps
  <1>6. Spared /\ RegisteredKept
    BY DEF Init, Spared, RegisteredKept, Referenced
  <1> QED
    BY <1>3, <1>4, <1>5, <1>6 DEF IInv, Blocks, UnitInv

\* The strengthened invariant.
LEMMA Invariance == Spec => []IInv
  <1>1. IInv /\ [Next]_vars => IInv'
    BY NextLocal, NextBlocks, NextSpared DEF IInv
  <1> QED
    BY <1>1, InitSound, PTL DEF Spec

\* Rows, units, writers, blobs and artifacts keep their types, the main thread
\* is inside its unit exactly at the steps of a block, and no session outlives
\* the blocks of its unit.
THEOREM StoreTypeCorrect == Spec => []TypeOK
  <1> QED
    BY TypeIs, Invariance, PTL

\* Registered bytes stay, if they were young when they were registered.
THEOREM RegisteredBytesKept == Spec => []RegisteredKept
  <1>1. IInv => RegisteredKept
    BY DEF IInv
  <1> QED
    BY <1>1, Invariance, PTL

\* No block loses the update of another one, whatever overlaps, and even if
\* two threads share the buffers of one unit.
THEOREM NoUpdateLost == Spec => VersionsCount
  <1>1. IInv /\ [Next]_vars => [\A r \in Rows :
            table'[r] # table[r] => table'[r].version = table[r].version + 1]_table
    BY StepCounts DEF IInv, CountsUp
  <1> QED
    BY <1>1, Invariance, PTL DEF Spec, VersionsCount, U!VersionsCount

\* The invariant, with what a writer has opened.
LEMMA OpenedInvariance == Spec => [](IInv /\ Opened)
  <1>1. Init => Opened
    BY DEF Init, Opened, HasOpened, Afterwards, Second
  <1>2. IInv /\ Opened /\ [Next]_vars => Opened'
    BY NextOpened DEF IInv
  <1> QED
    BY <1>1, <1>2, Invariance, PTL DEF Spec

\* The two blocks of PersistArtifact happen at once, however the reads and the
\* commits of writers, monitors and other processes interleave: the unit of
\* work makes them what BaselineMission and RepairFlow take them for.  What it
\* does not survive is two threads of a process that meet in __enter__: from
\* then on nothing is claimed of that writer.
THEOREM PersistenceAtomic == Spec => BlocksAtomic
  <1>1. Init => P!Init
    <2> SUFFICES ASSUME Init
                 PROVE  P!Init
      OBVIOUS
    <2>1. table = [r \in Rows |-> Born(r)] /\ registered = {} /\ torn = {}
      BY DEF Init, U!Start
    <2>2. \A w \in Writers : /\ table[Mission(w)].value = "running"
                             /\ table[Attempt(w)].value = "ours"
                             /\ table[Operation(w)].value = "none"
      BY <2>1, RowsType DEF Born, Mission, Attempt, Operation
    <2> QED
      BY <2>1, <2>2 DEF P!Init
  <1>2. IInv /\ Opened /\ [Next]_vars => [P!Next]_P!vars
    BY StepEffect, EffectAllowed
       DEF IInv, Blocks, UnitInv, P!vars, MissionOf, AttemptOf, OperationOf
  <1> QED
    BY <1>1, <1>2, OpenedInvariance, PTL DEF Spec, BlocksAtomic, P!Spec

\* So an Operation of any writer whose threads have not met has one artifact
\* exactly when it succeeded, which follows from the promise alone.
THEOREM OneArtifactEach == Spec => []P!OneArtifact
  <1>1. P!Init => P!OneArtifact
    BY DEF P!Init, P!OneArtifact
  <1>2. P!OneArtifact /\ [P!Next]_P!vars => P!OneArtifact'
    BY PromiseKeepsOne
  <1> QED
    BY <1>1, <1>2, PersistenceAtomic, PTL DEF BlocksAtomic, P!Spec
=============================================================================
