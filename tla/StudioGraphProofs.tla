--------------------------- MODULE StudioGraphProofs ---------------------------
(***************************************************************************)
(* The safety of StudioGraph for every setting, list of reviewers, list    *)
(* that a model selects, number of sandbox runs and number of runs on a    *)
(* thread.  A step either stays in its node or returns a patch and goes to *)
(* a later node, and the invariant says what a node may find.              *)
(***************************************************************************)
EXTENDS StudioGraph, FiniteSetTheorems, WellFoundedInduction, TLAPS

-----------------------------------------------------------------------------
(* Selections.                                                             *)

\* A set of numbers has a least one.
LEMMA Least ==
  ASSUME NEW T, T \subseteq Nat, T # {}
  PROVE  \E x \in T : \A y \in T : x <= y
  <1>1. \E x \in T : \A y \in T : ~ (<<y, x>> \in OpToRel(<, Nat))
    BY WFMin, NatLessThanWellFounded, Zenon
  <1>2. PICK x \in T : \A y \in T : ~ (<<y, x>> \in OpToRel(<, Nat))
    BY <1>1
  <1>3. \A y \in T : ~ (y < x)
    <2> SUFFICES ASSUME NEW y \in T
                 PROVE  ~ (y < x)
      OBVIOUS
    <2>1. <<y, x>> \in Nat \X Nat /\ <<y, x>>[1] = y /\ <<y, x>>[2] = x
      OBVIOUS
    <2> QED
      BY <1>2, <2>1 DEF OpToRel
  <1> QED
    BY <1>3

\* A part of the registry has as many names as places.
LEMMA PartOfOrder ==
  ASSUME NEW I \in SUBSET DOMAIN Order
  PROVE  LET T == {Order[i] : i \in I}
         IN  IsFiniteSet(I) /\ IsFiniteSet(T) /\ Cardinality(T) = Cardinality(I)
  <1> DEFINE T == {Order[i] : i \in I}
             b == [i \in I |-> Order[i]]
  <1>1. IsFiniteSet(DOMAIN Order)
    BY FS_Interval, StudioGraphAssumption
  <1>2. IsFiniteSet(I)
    BY <1>1, FS_Subset
  <1>3. b \in Bijection(I, T)
    BY StudioGraphAssumption DEF Bijection, Injection, Surjection, IsInjective
  <1>4. ExistsBijection(I, T)
    BY <1>3 DEF ExistsBijection
  <1> QED
    BY <1>2, <1>4, FS_Bijection

\* The registry fits the roundtable.
LEMMA AllFit ==
  /\ IsFiniteSet(Reviewers) /\ Cardinality(Reviewers) \in MinReviewers..MaxReviewers
  <1>1. Reviewers = {Order[i] : i \in DOMAIN Order}
    BY DEF Reviewers, ToSet
  <1>2. IsFiniteSet(Reviewers) /\ Cardinality(Reviewers) = Cardinality(DOMAIN Order)
    BY <1>1, PartOfOrder
  <1>3. Len(Order) \in Nat /\ DOMAIN Order = 1..Len(Order)
    BY StudioGraphAssumption
  <1>4. Cardinality(DOMAIN Order) = Len(Order)
    <2> DEFINE n == Len(Order)
    <2>1. Cardinality(1..n) = IF 1 > n THEN 0 ELSE n - 1 + 1
      <3>1. 1 \in Int /\ n \in Int
        BY <1>3
      <3> QED
        BY <3>1, FS_Interval
    <2> QED
      BY <1>3, <2>1
  <1> QED
    BY <1>2, <1>3, <1>4, StudioGraphAssumption

\* Padding stops when there are enough names, or no more.
LEMMA PadEnough ==
  ASSUME NEW names \in SUBSET Reviewers
  PROVE  /\ names \subseteq Pad(names) /\ Pad(names) \subseteq Reviewers
         /\ Cardinality(Pad(names)) \in MinReviewers..MaxReviewers
  <1> DEFINE M == Missing(names)
             A == Added(names)
             New == {Order[i] : i \in A}
  <1>1. M \subseteq DOMAIN Order /\ A \subseteq M
    BY DEF Missing, Added
  <1>2. Reviewers = {Order[i] : i \in DOMAIN Order} /\ DOMAIN Order \subseteq Nat
    BY StudioGraphAssumption DEF Reviewers, ToSet
  <1>3. names \subseteq Pad(names) /\ Pad(names) = names \union New /\ New \subseteq Reviewers
    BY <1>1, <1>2 DEF Pad
  <1>4. IsFiniteSet(names) /\ IsFiniteSet(Pad(names)) /\ IsFiniteSet(M) /\ IsFiniteSet(New)
        /\ IsFiniteSet(A)
    <2>1. IsFiniteSet(names) /\ IsFiniteSet(Pad(names))
      BY <1>3, AllFit, FS_Subset
    <2> QED
      BY <1>1, <2>1, PartOfOrder
  <1>5. /\ Cardinality(names) \in Nat /\ Cardinality(A) \in Nat /\ Cardinality(Pad(names)) \in Nat
        /\ Cardinality(Reviewers) \in Nat
    BY <1>4, AllFit, FS_CardinalityType
  <1>6. Cardinality(Pad(names)) <= MaxReviewers
    BY <1>3, <1>5, AllFit, FS_Subset, StudioGraphAssumption
  <1>7. Cardinality(Pad(names)) = Cardinality(names) + Cardinality(A)
    <2>1. Cardinality(New) = Cardinality(A)
      BY <1>1, PartOfOrder
    <2>2. names \intersect New = {}
      BY <1>1 DEF Missing
    <2>3. Cardinality({}) = 0
      BY FS_EmptySet
    <2>4. Cardinality(names \union New)
             = Cardinality(names) + Cardinality(New) - Cardinality(names \intersect New)
      BY <1>4, FS_Union
    <2>5. Cardinality(names \intersect New) = 0
      BY <2>2, <2>3
    <2>6. Cardinality(Pad(names)) = Cardinality(names \union New)
      BY <1>3
    <2> HIDE DEF A, New
    <2> QED
      BY <1>5, <2>1, <2>4, <2>5, <2>6
  <1>8. Cardinality(Pad(names)) >= MinReviewers
    <2>1. CASE A = M
      <3>1. names \union {Order[i] : i \in M} = Reviewers
        BY <1>2 DEF Missing
      <3>2. Pad(names) = Reviewers
        BY <1>3, <2>1, <3>1
      <3> QED
        BY <3>2, AllFit, StudioGraphAssumption
    <2>2. CASE A # M
      <3>1. PICK i \in M \ A : \A j \in M \ A : i <= j
        BY <1>1, <1>2, <2>2, Least
      <3> DEFINE B == {j \in M : j < i}
      <3>2. B \subseteq A
        BY <1>1, <1>2, <3>1
      <3>3. ~ (Cardinality(B) < MinReviewers - Cardinality(names))
        BY <3>1 DEF Added
      <3>4. Cardinality(B) <= Cardinality(A) /\ Cardinality(B) \in Nat
        BY <1>4, <3>2, FS_Subset, FS_CardinalityType
      <3> QED
        BY <1>5, <1>7, <3>3, <3>4, StudioGraphAssumption
    <2> QED
      BY <2>1, <2>2
  <1> QED
    BY <1>3, <1>5, <1>6, <1>8, StudioGraphAssumption

\* Whatever a model selects, the devil and enough others are invited.
LEMMA Selected ==
  ASSUME NEW raw
  PROVE  /\ Sanitize(raw) \subseteq Reviewers /\ Devil \in Sanitize(raw)
         /\ Cardinality(Sanitize(raw)) \in MinReviewers..MaxReviewers
  BY PadEnough, StudioGraphAssumption DEF Sanitize, Known

-----------------------------------------------------------------------------
(* The order of the nodes.                                                 *)

NodeSet == {"appendix_recall", "m0", "user_select_topic", "m1", "m2", "m2.5", "m3", "m4",
            "m5", "m5.5", "m6a", "m6b", "m7", "appendix_reflect"}
Places == NodeSet \union {"paused", "end"}
\* Before the design is there, and before the verdict.
Undesigned == {"appendix_recall", "m0", "user_select_topic", "m1", "m2", "m2.5", "m3", "m4", "m5"}
Unjudged == Undesigned \union {"m5.5", "m6a", "m6b"}
Unwritten == Undesigned \union {"m5.5", "m6a"}

\* The nodes are fourteen, and the three sets are the first nine, eleven, twelve.
LEMMA NodesAre ==
  /\ DOMAIN Nodes = 1..14 /\ ToSet(Nodes) = NodeSet
  /\ \A i \in 1..14 : Nodes[i] \in NodeSet
  /\ \A i \in 1..14 : Nodes[i] \in Undesigned <=> i <= 9
  /\ \A i \in 1..14 : Nodes[i] \in Unwritten <=> i <= 11
  /\ \A i \in 1..14 : Nodes[i] \in Unjudged <=> i <= 12
  /\ \A i, j \in 1..14 : Nodes[i] = Nodes[j] => i = j
  <1>1. DOMAIN Nodes = 1..14
    BY DEF Nodes
  <1>2. /\ Nodes[1] = "appendix_recall" /\ Nodes[2] = "m0" /\ Nodes[3] = "user_select_topic"
        /\ Nodes[4] = "m1" /\ Nodes[5] = "m2" /\ Nodes[6] = "m2.5" /\ Nodes[7] = "m3"
        /\ Nodes[8] = "m4" /\ Nodes[9] = "m5" /\ Nodes[10] = "m5.5" /\ Nodes[11] = "m6a"
        /\ Nodes[12] = "m6b" /\ Nodes[13] = "m7" /\ Nodes[14] = "appendix_reflect"
    BY DEF Nodes
  <1>3. \A i \in 1..14 : \/ i = 1 \/ i = 2 \/ i = 3 \/ i = 4 \/ i = 5 \/ i = 6 \/ i = 7
                         \/ i = 8 \/ i = 9 \/ i = 10 \/ i = 11 \/ i = 12 \/ i = 13 \/ i = 14
    OBVIOUS
  <1> HIDE DEF Nodes
  <1>4. \A i \in 1..14 : Nodes[i] \in NodeSet
    BY <1>2, <1>3 DEF NodeSet
  <1>5. \A i \in 1..14 : Nodes[i] \in Undesigned <=> i <= 9
    BY <1>2, <1>3 DEF Undesigned
  <1>6. \A i \in 1..14 : Nodes[i] \in Unwritten <=> i <= 11
    BY <1>2, <1>3 DEF Undesigned, Unwritten
  <1>7. \A i \in 1..14 : Nodes[i] \in Unjudged <=> i <= 12
    BY <1>2, <1>3 DEF Undesigned, Unjudged
  <1>8. \A i, j \in 1..14 : Nodes[i] = Nodes[j] => i = j
    BY <1>2, <1>3
  <1>9. ToSet(Nodes) = NodeSet
    <2>1. ToSet(Nodes) \subseteq NodeSet
      BY <1>1, <1>4 DEF ToSet
    <2>2. \A n \in NodeSet : \E i \in 1..14 : Nodes[i] = n
      BY <1>2 DEF NodeSet
    <2> QED
      BY <1>1, <2>1, <2>2 DEF ToSet
  <1> QED
    BY <1>1, <1>4, <1>5, <1>6, <1>7, <1>8, <1>9

\* The next node is a later one, or there is none.
LEMMA Forward ==
  ASSUME NEW c \in {s.config : s \in Starts}, NEW n \in NodeSet
  PROVE  /\ Edges[c][n] \in Places
         /\ Edges[c][n] \in {"paused", "end"} \/ Index(Edges[c][n]) > Index(n)
         /\ Edges[c][n] \in Undesigned => n \in Undesigned \ {"m5"}
         /\ Edges[c][n] \in Unwritten => n \in Unwritten \ {"m6a"}
         /\ Edges[c][n] \in Unjudged => n \in Unjudged \ {"m6b"}
  <1>1. PICK i \in 1..14 : Nodes[i] = n
    BY NodesAre DEF ToSet
  <1>2. Index(n) = i
    BY <1>1, NodesAre DEF Index
  <1>3. Edges[c][n] = After(c, n)
    BY NodesAre DEF Edges
  <1>4. CASE Later(c, n) = {}
    BY <1>3, <1>4 DEF After, Places, Undesigned, Unwritten, Unjudged
  <1>5. CASE Later(c, n) # {}
    <2>1. Later(c, n) \subseteq 1..14 /\ \A k \in Later(c, n) : k > i
      BY <1>2, NodesAre DEF Later
    <2>2. PICK k \in Later(c, n) : \A j \in Later(c, n) : k <= j
      BY <1>5, <2>1, Least
    <2>3. Min(Later(c, n)) \in Later(c, n)
      BY <2>2 DEF Min
    <2> DEFINE k2 == Min(Later(c, n))
    <2>4. k2 \in 1..14 /\ k2 > i
      BY <2>1, <2>3
    <2>5. Edges[c][n] \in {Nodes[k2], "paused"}
      BY <1>3, <1>5 DEF After
    <2>8. Index(Nodes[k2]) = k2
      BY <2>4, NodesAre DEF Index
    <2>6. /\ Nodes[k2] \in Places
          /\ Nodes[k2] \in Undesigned => n \in Undesigned /\ i < 9
          /\ Nodes[k2] \in Unwritten => n \in Unwritten /\ i < 11
          /\ Nodes[k2] \in Unjudged => n \in Unjudged /\ i < 12
      <3> HIDE DEF k2
      <3> QED
        BY <1>1, <2>4, NodesAre DEF Places
    <2>7. (i < 9 => n # "m5") /\ (i < 11 => n # "m6a") /\ (i < 12 => n # "m6b")
      <3>1. Nodes[9] = "m5" /\ Nodes[11] = "m6a" /\ Nodes[12] = "m6b"
        BY DEF Nodes
      <3> QED
        BY <1>1, <3>1, NodesAre
    <2>9. Edges[c][n] \in {"paused", "end"} \/ Index(Edges[c][n]) > Index(n)
      BY <1>2, <2>4, <2>5, <2>8
    <2> QED
      BY <2>5, <2>6, <2>7, <2>9 DEF Places, Undesigned, Unwritten, Unjudged
  <1> QED
    BY <1>4, <1>5

-----------------------------------------------------------------------------
(* Questions.                                                              *)

\* The node, its event loop and its threads have contexts.
LEMMA ContextsAre == {"run", "node", "loop"} \subseteq Contexts /\ Reviewers \subseteq Contexts
                     /\ Papers \subseteq Contexts /\ Sections \subseteq Contexts
  BY StudioGraphAssumption DEF Jobs

\* A question that is put, an attempt that is charged, settled or tried again.
LEMMA AskType ==
  ASSUME LlmOK, NEW C, NEW kind \in Kinds, AskAll(C, kind)
  PROVE  call' \in [Contexts -> Calls] /\ answer' \in [Contexts -> Answers] /\ keyed' \in BOOLEAN
  <1>1. [kind |-> kind, tries |-> 1, turn |-> 1] \in Calls
    BY LlmCallAssumption DEF Calls
  <1> QED
    BY <1>1 DEF AskAll, LlmOK, Answers

LEMMA TotalType ==
  ASSUME LlmOK, NEW c \in Contexts, NEW cost \in Nat
  PROVE  Total(c, cost) \in 0..Budget + 1
  BY LlmCallAssumption DEF LlmOK, Total, Exceeds

LEMMA SettleType ==
  ASSUME LlmOK, NEW c \in Contexts, NEW cost \in Nat, NEW a \in Answers, Settle(c, cost, a)
  PROVE  LlmOK'
  BY TotalType, LlmCallAssumption DEF LlmOK, Settle, Calls

LEMMA AgainType ==
  ASSUME LlmOK, NEW c \in Contexts, NEW cost \in Nat, NEW next \in Calls, Again(c, cost, next)
  PROVE  LlmOK'
  BY TotalType DEF LlmOK, Again

\* Whatever the provider does, questions and counters keep their types.
LEMMA ProviderType ==
  ASSUME LlmOK, NEW c \in Contexts, Provider(c)
  PROVE  LlmOK'
  <1> USE LlmCallAssumption DEF Answers
  <1>1. CASE RateLimited(c)
    <2>1. CASE Again(c, 0, [call[c] EXCEPT !.tries = @ + 1]) /\ call[c].tries < MaxTries
               /\ call[c] # Idle
      <3>1. [call[c] EXCEPT !.tries = @ + 1] \in Calls
        BY <2>1 DEF LlmOK, Calls
      <3> QED
        BY <2>1, <3>1, AgainType
    <2>2. CASE Settle(c, 0, "failed")
      BY <2>2, SettleType
    <2> QED
      BY <1>1, <2>1, <2>2 DEF RateLimited
  <1>2. CASE Fails(c)
    BY <1>2, SettleType DEF Fails
  <1>3. ASSUME NEW cost \in Costs, TooLate(c, cost)
        PROVE  LlmOK'
    BY <1>3, SettleType DEF TooLate
  <1>4. ASSUME NEW cost \in Costs, Replies(c, cost)
        PROVE  LlmOK'
    BY <1>4, SettleType DEF Replies
  <1>5. ASSUME NEW cost \in Costs, Garbled(c, cost)
        PROVE  LlmOK'
    <2>1. CASE Again(c, cost, [call[c] EXCEPT !.turn = @ + 1, !.tries = 1])
               /\ call[c].turn < MaxTurns /\ call[c].kind = "json"
      <3>1. call[c] \in [kind : Kinds, tries : 1..MaxTries, turn : 1..MaxTurns]
        BY <2>1 DEF LlmOK, Calls, Idle
      <3>2. [call[c] EXCEPT !.turn = @ + 1, !.tries = 1]
              \in [kind : Kinds, tries : 1..MaxTries, turn : 1..MaxTurns]
        <4> DEFINE turn == call[c].turn + 1
        <4>1. turn \in 1..MaxTurns /\ 1 \in 1..MaxTries
          BY <2>1, <3>1
        <4>2. [call[c] EXCEPT !.turn = turn]
                \in [kind : Kinds, tries : 1..MaxTries, turn : 1..MaxTurns]
          BY <3>1, <4>1
        <4>3. [[call[c] EXCEPT !.turn = turn] EXCEPT !.tries = 1]
                \in [kind : Kinds, tries : 1..MaxTries, turn : 1..MaxTurns]
          BY <4>1, <4>2
        <4>4. [[call[c] EXCEPT !.turn = turn] EXCEPT !.tries = 1]
                = [call[c] EXCEPT !.turn = @ + 1, !.tries = 1]
          BY <3>1
        <4> QED
          BY <4>3, <4>4
      <3>3. [call[c] EXCEPT !.turn = @ + 1, !.tries = 1] \in Calls
        BY <3>2 DEF Calls
      <3> QED
        BY <2>1, <3>3, AgainType
    <2>2. CASE Settle(c, cost, "failed")
      BY <2>2, SettleType
    <2> QED
      BY <1>5, <2>1, <2>2 DEF Garbled
  <1> QED
    BY <1>1, <1>2, <1>3, <1>4, <1>5 DEF Provider

\* Leaving a node keeps its counter or goes back to the run's.
LEMMA LeaveType ==
  ASSUME LlmOK, Leave
  PROVE  LlmOK'
  <1> DEFINE kept == IF config.shared THEN spent["node"] ELSE spent["run"]
  <1>1. kept \in 0..Budget + 1 /\ 0 \in 0..Budget + 1
    BY ContextsAre, LlmCallAssumption DEF LlmOK
  <1>2. spent' = [c \in Contexts |-> IF c \in {"run", "node"} THEN kept ELSE 0]
    BY DEF Leave
  <1>3. answer' \in [Contexts -> Answers] /\ call' = call /\ keyed' = keyed
    BY DEF Leave, Answers
  <1> HIDE DEF kept
  <1> QED
    BY <1>1, <1>2, <1>3 DEF LlmOK

\* A question leaves node, state and loop counter as they are.
LEMMA QuestionType ==
  ASSUME LlmOK, NEW kind \in Kinds, NEW s \in Steps,
         Question(kind, s) \/ LoopQuestion(kind, s) \/ EnterLoop(kind, s)
  PROVE  LlmOK' /\ Stay /\ step' = s /\ UNCHANGED <<count, locals>>
  <1>1. PICK c \in Contexts : Ask(c, kind)
    BY ContextsAre DEF Question, LoopQuestion, EnterLoop
  <1>2. call' \in [Contexts -> Calls] /\ answer' \in [Contexts -> Answers] /\ keyed' \in BOOLEAN
    BY <1>1, AskType DEF Ask
  <1>3. spent' \in [Contexts -> 0..Budget + 1]
    <2>1. spent' = spent \/ spent' = [spent EXCEPT !["loop"] = spent["node"]]
      BY DEF Question, LoopQuestion, EnterLoop
    <2> QED
      BY <2>1, ContextsAre DEF LlmOK
  <1> QED
    BY <1>2, <1>3 DEF LlmOK, Question, LoopQuestion, EnterLoop

\* So do the questions of the threads.
LEMMA FanOutType ==
  ASSUME LlmOK, NEW J \in SUBSET Jobs, NEW kind \in Kinds, NEW s \in Steps, FanOut(J, kind, s)
  PROVE  LlmOK' /\ Stay /\ step' = s /\ jobs' = J /\ UNCHANGED count
  <1> DEFINE base == IF step = "start" \/ at # "m4" THEN spent["node"] ELSE spent["loop"]
  <1>1. AskAll(J, kind) /\ Stay /\ step' = s /\ jobs' = J /\ UNCHANGED count
        /\ spent' = [c \in Contexts |-> IF c \in J \union {"loop"} THEN base ELSE spent[c]]
    BY DEF FanOut
  <1>2. base \in 0..Budget + 1
    BY ContextsAre DEF LlmOK
  <1> HIDE DEF base
  <1>3. spent' \in [Contexts -> 0..Budget + 1]
    BY <1>1, <1>2 DEF LlmOK
  <1> QED
    BY <1>1, <1>3, AskType DEF LlmOK

-----------------------------------------------------------------------------
(* A node returns.                                                         *)

Fields == {"blank", "rating", "experiment", "code", "validated", "papers", "metadata"}
Typed(p) ==
    /\ "blank" \in DOMAIN p => p["blank"] \in BOOLEAN
    /\ "rating" \in DOMAIN p => p["rating"] \in Ratings
    /\ "experiment" \in DOMAIN p => p["experiment"] \in BOOLEAN
    /\ "code" \in DOMAIN p => p["code"] \in BOOLEAN
    /\ "validated" \in DOMAIN p => p["validated"] \in {"none", "ok", "failed"}
    /\ "papers" \in DOMAIN p => p["papers"] \in BOOLEAN
    /\ "metadata" \in DOMAIN p => p["metadata"] \in Metadata

\* The state, field by field.
LEMMA StateAccess ==
  ASSUME NEW s
  PROVE  s \in ResearchState <=>
           /\ s = [f \in Fields |-> s[f]]
           /\ s["blank"] \in BOOLEAN /\ s["rating"] \in Ratings /\ s["experiment"] \in BOOLEAN
           /\ s["code"] \in BOOLEAN /\ s["validated"] \in {"none", "ok", "failed"}
           /\ s["papers"] \in BOOLEAN /\ s["metadata"] \in Metadata
  BY DEF ResearchState, Fields

\* After a return the next node has the patched state.
LEMMA Returned ==
  ASSUME LlmOK, at \in NodeSet, config \in {s.config : s \in Starts}, state \in ResearchState,
         NEW p, Typed(p), Return(p)
  PROVE  /\ LlmOK' /\ at' = Edges[config][at] /\ at' \in Places
         /\ step' = "start" /\ count' = 0 /\ jobs' = {} /\ UNCHANGED inputs
         /\ state' \in ResearchState
         /\ \A f \in {"rating", "validated", "papers", "metadata"} :
               state'[f] = IF f \in DOMAIN p THEN p[f] ELSE state[f]
         /\ state'["code"] => IF "code" \in DOMAIN p THEN p["code"] ELSE state["code"]
  <1> DEFINE let == Unread[Following(at)]
  <1>1. at' = Edges[config][at] /\ at' \in Places
    BY Forward DEF Return, Following
  <1>2. let \subseteq {"blank", "experiment", "code"}
    <2>1. at' = Following(at) /\ ToSet(Nodes) = NodeSet
      BY <1>1, NodesAre DEF Following
    <2>2. at' \in ToSet(Nodes) \union {"paused", "end"}
      BY <1>1, <2>1 DEF Places
    <2>3. DOMAIN LastReader = {"blank", "experiment", "code"}
      BY DEF LastReader
    <2> QED
      BY <2>1, <2>2, <2>3 DEF Unread
  <1>3. state' = [f \in DOMAIN state |->
           IF f \in let THEN Unrated(request)[f] ELSE IF f \in DOMAIN p THEN p[f] ELSE state[f]]
    BY DEF Return
  <1>4. DOMAIN state = Fields
    BY StateAccess
  <1>5. \A f \in {"blank", "experiment", "code"} : Unrated(request)[f] = FALSE
    BY DEF Unrated
  <1> HIDE DEF let
  <1>6. \A f \in {"rating", "validated", "papers", "metadata"} :
           state'[f] = IF f \in DOMAIN p THEN p[f] ELSE state[f]
    BY <1>2, <1>3, <1>4 DEF Fields
  <1>7. \A f \in {"blank", "experiment", "code"} : state'[f] \in BOOLEAN
    BY <1>2, <1>3, <1>4, <1>5, StateAccess DEF Fields, Typed
  <1>a. state'["code"] => IF "code" \in DOMAIN p THEN p["code"] ELSE state["code"]
    BY <1>3, <1>4, <1>5 DEF Fields
  <1>8. state' = [f \in Fields |-> state'[f]]
    BY <1>3, <1>4
  <1>9. state' \in ResearchState
    <2>1. /\ state'["rating"] \in Ratings /\ state'["validated"] \in {"none", "ok", "failed"}
          /\ state'["papers"] \in BOOLEAN /\ state'["metadata"] \in Metadata
      BY <1>6, StateAccess DEF Typed
    <2> QED
      BY <1>7, <1>8, <2>1, StateAccess
  <1> QED
    BY <1>1, <1>6, <1>9, <1>a, LeaveType DEF Return

-----------------------------------------------------------------------------
(* The inductive invariant.                                                *)

\* The rating that the state carries is this run's, and so is the variant.
Scoring ==
    /\ state.rating = rated /\ used \in Variants \union {NoVariant}
    /\ state.metadata.variant \in {NoVariant, used}
    /\ at \in Undesigned => state.metadata.variant = NoVariant

\* What M6 has written and run, place by place.
Filing ==
    /\ at \in Unjudged => state.validated = "none"
    /\ at \in Unwritten => ~state.code
    /\ at = "m6b" =>
          \/ /\ step = "start" /\ count < MaxRuns
             /\ state.code => disk = ran + 1 /\ disk <= count + 1
          \/ step = "ran" /\ ran = disk /\ disk <= count /\ count > 0
          \/ step = "repair" /\ ran = disk /\ disk <= count /\ count > 0 /\ count < MaxRuns

\* What the roundtable knows, step by step.
Meeting ==
    at = "m4" =>
        /\ step \in {"start", "selection", "reviews", "second round", "meta", "reasoner", "decision"}
        /\ DOMAIN round = {"chosen", "cards", "again", "rating"} \/ step \in {"start", "selection"}
        /\ step \notin {"start", "selection"} =>
              /\ Devil \in round.chosen /\ round.chosen \subseteq Reviewers
              /\ Cardinality(round.chosen) \in MinReviewers..MaxReviewers
        /\ step = "reviews" => round.again = FALSE
        /\ step \in {"second round", "meta", "reasoner", "decision"} =>
              DOMAIN round.cards = round.chosen /\ round.again = Split(round.cards)
        /\ step = "decision" => round.rating \in Ratings

IInv == TypeOK /\ Scoring /\ Filing /\ FilesRan /\ Meeting

-----------------------------------------------------------------------------
(* What a step can be.                                                     *)

\* A node asks, other than M4 and M6.
Works ==
    /\ Stay /\ Keep /\ at \notin {"m4", "m6b"}
    /\ LlmOK' /\ count' \in Nat /\ step' \in Steps /\ jobs' \subseteq Jobs

Scores(v) ==
    /\ v = state.metadata.variant /\ state.rating > 0
    /\ prompts'[v] = [runs |-> prompts[v].runs + 1, total |-> prompts[v].total + state.rating]

\* A node returns a patch.
Moves(p) ==
    /\ at \in NodeSet /\ Typed(p) /\ Return(p) /\ UNCHANGED used
    /\ rated' = IF "rating" \in DOMAIN p THEN p["rating"] ELSE rated
    /\ "metadata" \in DOMAIN p =>
          \/ p["metadata"].variant \in {NoVariant, state.metadata.variant}
          \/ at = "m5" /\ p["metadata"].variant = used
    /\ "validated" \in DOMAIN p =>
          /\ at = "m6b"
          /\ request.mode = "full_execute" =>
                disk' = ran' \/ (broke' /\ disk' = ran' + 1 /\ p["validated"] = "failed")
    /\ "code" \in DOMAIN p => at = "m6a" /\ disk' = 1 /\ ran' = 0
    /\ \/ UNCHANGED files
       \/ at = "m6a" /\ disk' = 1 /\ ran' = 0 /\ broke' = FALSE
       \/ at = "m6b" /\ disk' \in 0..MaxRuns /\ UNCHANGED ran /\ broke' \in BOOLEAN
    /\ \A v \in Variants : prompts'[v] = prompts[v] \/ Scores(v)

\* M5 has picked the variant of its prompt.
Picks ==
    /\ at = "m5" /\ Stay /\ UNCHANGED <<files, prompts, rated>>
    /\ used' \in Variants \union {NoVariant}
    /\ LlmOK' /\ step' \in Steps /\ UNCHANGED <<count, jobs>>

\* M4 goes on, and M6.
Meets ==
    /\ at = "m4" /\ Stay /\ Keep
    /\ LlmOK' /\ step' \in Steps /\ UNCHANGED count /\ jobs' \subseteq Jobs /\ Meeting'
Executes ==
    /\ at = "m6b" /\ Stay /\ UNCHANGED <<prompts, history, jobs>>
    /\ LlmOK' /\ step' \in Steps /\ count' \in 0..MaxRuns
    /\ disk' \in 0..MaxRuns /\ ran' \in 0..MaxRuns /\ broke' = broke /\ Filing'

\* A node that returns nothing moves on.
LEMMA Moved ==
  ASSUME at \in NodeSet, Return(Nothing), Keep
  PROVE  \E p : Moves(p)
  <1>1. DOMAIN Nothing = {}
    BY DEF Nothing
  <1>2. Moves(Nothing)
    BY <1>1 DEF Moves, Typed, Keep, files, history
  <1> QED
    BY <1>2

LEMMA QuitMoves ==
  ASSUME NEW n \in NodeSet, NEW s, NEW results, Quit(n, s, results, Nothing)
  PROVE  \E p : Moves(p)
  BY Moved DEF Quit, In

\* A node that asks works, unless it is M4 or M6.
LEMMA Asking ==
  ASSUME LlmOK, count \in Nat, jobs \subseteq Jobs, at \notin {"m4", "m6b"}, Keep,
         NEW kind \in Kinds, NEW s \in Steps,
         Question(kind, s) \/ LoopQuestion(kind, s) \/ EnterLoop(kind, s)
  PROVE  Works
  BY QuestionType DEF Works, locals

\* The nodes before M4.
LEMMA EarlySteps ==
  ASSUME IInv,
         \/ Recall \/ Recalled \/ Discover \/ Discovered \/ SelectTopic
         \/ Refine \/ Clarify \/ BuildPico \/ Refined
         \/ Retrieve \/ SearchSources \/ Retrieved \/ AccessStatus \/ ExtractTriples \/ BuildKg
  PROVE  Works \/ \E p : Moves(p)
  <1>1. LlmOK /\ count \in Nat /\ jobs \subseteq Jobs
    BY DEF IInv, TypeOK
  <1>2. "embed" \in Kinds /\ "json" \in Kinds
    BY DEF Kinds
  <1> USE DEF Steps
  <1>3. CASE Recall
    BY <1>1, <1>2, <1>3, Moved, Asking DEF Recall, In, NodeSet
  <1>4. CASE Recalled
    BY <1>4, QuitMoves DEF Recalled, NodeSet
  <1>5. CASE Discover
    BY <1>1, <1>2, <1>5, Moved, Asking DEF Discover, In, NodeSet
  <1>6. CASE Discovered
    BY <1>6, QuitMoves DEF Discovered, NodeSet
  <1>7. CASE SelectTopic
    BY <1>7, Moved DEF SelectTopic, In, NodeSet
  <1>8. CASE Refine
    BY <1>1, <1>2, <1>8, Asking DEF Refine, In
  <1>9. CASE Clarify
    <2>1. "node" \in Contexts /\ Ask("node", "json") /\ UNCHANGED spent
      BY <1>9, ContextsAre DEF Clarify
    <2>2. LlmOK'
      BY <1>1, <1>2, <2>1, AskType DEF LlmOK, Ask
    <2>3. count' \in Nat /\ step' = "specific" /\ Stay /\ Keep /\ UNCHANGED jobs /\ at = "m1"
      BY <1>1, <1>9 DEF Clarify, In, locals
    <2> QED
      BY <1>1, <2>2, <2>3 DEF Works
  <1>10. CASE BuildPico
    BY <1>1, <1>2, <1>10, Asking DEF BuildPico, In
  <1>11. CASE Refined
    <2>1. ASSUME NEW b \in BOOLEAN, Quit("m1", "pico", {"ok"}, [blank |-> b])
          PROVE  \E p : Moves(p)
      <3> DEFINE p == [blank |-> b]
      <3>1. DOMAIN p = {"blank"} /\ p["blank"] = b
        OBVIOUS
      <3> HIDE DEF p
      <3>2. at = "m1" /\ Return(p) /\ Keep
        BY <2>1 DEF Quit, In, p
      <3>3. Moves(p)
        BY <3>1, <3>2 DEF Moves, Typed, Keep, files, history, NodeSet
      <3> QED
        BY <3>3
    <2>2. "m1" \in NodeSet
      BY DEF NodeSet
    <2>3. CASE \E b \in BOOLEAN : Quit("m1", "pico", {"ok"}, [blank |-> b])
      BY <2>1, <2>3
    <2>4. CASE Quit("m1", "pico", {"failed", "bad"}, Nothing)
      BY <2>2, <2>4, QuitMoves
    <2>5. CASE Quit("m1", "specific", {"failed", "bad"}, Nothing)
      BY <2>2, <2>5, QuitMoves
    <2> QED
      BY <1>11, <2>3, <2>4, <2>5 DEF Refined
  <1>12. CASE Retrieve
    BY <1>1, <1>2, <1>12, Moved, Asking DEF Retrieve, In, NodeSet
  <1>13. CASE SearchSources
    BY <1>1, <1>2, <1>13, Moved, Asking DEF SearchSources, In, NodeSet
  <1>14. CASE Retrieved
    <2> DEFINE p == [papers |-> TRUE]
    <2>1. DOMAIN p = {"papers"} /\ p["papers"] = TRUE
      OBVIOUS
    <2> HIDE DEF p
    <2>2. at = "m2" /\ Return(p) /\ Keep
      BY <1>14 DEF Retrieved, In, p
    <2>3. Moves(p)
      BY <2>1, <2>2 DEF Moves, Typed, Keep, files, history, NodeSet
    <2> QED
      BY <2>3
  <1>15. CASE AccessStatus
    BY <1>15, Moved DEF AccessStatus, In, NodeSet
  <1>16. CASE ExtractTriples
    <2>1. CASE Return(Nothing)
      BY <1>16, <2>1, Moved DEF ExtractTriples, In, NodeSet
    <2>2. CASE FanOut(Papers, "json", "triples")
      <3>1. Papers \in SUBSET Jobs
        BY DEF Jobs
      <3>2. LlmOK' /\ Stay /\ step' = "triples" /\ jobs' = Papers /\ UNCHANGED count
        BY <1>1, <1>2, <2>2, <3>1, FanOutType
      <3> QED
        BY <1>1, <1>16, <3>1, <3>2 DEF ExtractTriples, In, Works
    <2> QED
      BY <1>16, <2>1, <2>2 DEF ExtractTriples
  <1>17. CASE BuildKg
    BY <1>1, <1>2, <1>17, Moved, QuitMoves, Asking DEF BuildKg, Gathered, In, NodeSet
  <1> QED
    BY <1>3, <1>4, <1>5, <1>6, <1>7, <1>8, <1>9, <1>10, <1>11, <1>12, <1>13, <1>14, <1>15,
       <1>16, <1>17

\* A comparison of variances is true or false.
LEMMA SplitType == \A cards : Split(cards) \in BOOLEAN
  BY DEF Split

\* Whoever is invited, the devil and enough others are.
LEMMA Invited ==
  ASSUME LlmOK, at = "m4", count \in Nat,
         NEW names \in SUBSET Reviewers, Devil \in names,
         Cardinality(names) \in MinReviewers..MaxReviewers, Invite(names)
  PROVE  Meets
  <1>1. LlmOK' /\ Stay /\ step' = "reviews" /\ jobs' = names /\ UNCHANGED count /\ names \subseteq Jobs
    <2>1. "json" \in Kinds /\ "reviews" \in Steps /\ names \in SUBSET Jobs
      BY DEF Kinds, Steps, Jobs
    <2>2. FanOut(names, "json", "reviews")
      BY DEF Invite
    <2> QED
      BY <2>1, <2>2, FanOutType
  <1>2. round' = [NoRound EXCEPT !.chosen = names] /\ Keep
    BY DEF Invite
  <1>3. DOMAIN round' = {"chosen", "cards", "again", "rating"} /\ round'.chosen = names
        /\ round'.again = FALSE
    BY <1>2 DEF NoRound
  <1> QED
    BY <1>1, <1>2, <1>3 DEF Meets, Meeting, Steps, Stay

\* The steps of M4.
LEMMA RoundtableSteps ==
  ASSUME IInv,
         \/ Critique \/ InviteAll \/ InviteSelected \/ NoSelection \/ RoundtableRaises
         \/ SecondRound \/ MetaDecide \/ MetaFallback \/ Undecided \/ Decided \/ BuildDecisionCard
  PROVE  Meets \/ \E p : Moves(p)
  <1>1. /\ LlmOK /\ count \in Nat /\ jobs \subseteq Jobs /\ Meeting /\ "json" \in Kinds
        /\ "m4" \in NodeSet /\ "loop" \in Contexts /\ "node" \in Contexts /\ Devil \in Contexts
        /\ Devil \in Jobs
    BY ContextsAre, StudioGraphAssumption DEF IInv, TypeOK, Kinds, NodeSet, Jobs
  <1> USE DEF Steps
  <1>2. ASSUME at = "m4", Raise, Keep
        PROVE  \E p : Moves(p)
    BY <1>1, <1>2, Moved DEF Raise
  <1>3. CASE Critique
    <2>1. CASE Return(Nothing)
      BY <1>1, <1>3, <2>1, Moved DEF Critique, In
    <2>2. CASE EnterLoop("json", "selection")
      <3>1. LlmOK' /\ Stay /\ step' = "selection" /\ UNCHANGED <<count, locals>>
        BY <1>1, <2>2, QuestionType
      <3> QED
        BY <1>1, <1>3, <3>1 DEF Critique, In, Meets, Meeting, locals, Stay
    <2> QED
      BY <1>3, <2>1, <2>2 DEF Critique
  <1>4. CASE InviteAll
    <2>1. at = "m4" /\ Invite(Reviewers)
      BY <1>4 DEF InviteAll, In
    <2>2. Reviewers \in SUBSET Reviewers /\ Devil \in Reviewers
      BY StudioGraphAssumption
    <2> QED
      BY <1>1, <2>1, <2>2, AllFit, Invited
  <1>5. CASE InviteSelected
    <2>1. PICK raw \in Selections : at = "m4" /\ Invite(Sanitize(raw))
      BY <1>5 DEF InviteSelected, In
    <2> QED
      BY <1>1, <2>1, Selected, Invited
  <1>6. CASE NoSelection
    BY <1>2, <1>6 DEF NoSelection, In
  <1>7. CASE RoundtableRaises
    BY <1>2, <1>7 DEF RoundtableRaises, Gathered, In
  <1>8. CASE SecondRound
    <2>1. PICK cards \in Cards : Split(cards) /\ round' = [round EXCEPT !.cards = cards, !.again = TRUE]
      BY <1>8 DEF SecondRound
    <2>2. at = "m4" /\ step = "reviews" /\ DOMAIN cards = round.chosen
      BY <1>8 DEF SecondRound, Gathered, In, Cards
    <2>3. /\ DOMAIN round = {"chosen", "cards", "again", "rating"}
          /\ Devil \in round.chosen /\ round.chosen \subseteq Reviewers
          /\ Cardinality(round.chosen) \in MinReviewers..MaxReviewers
      BY <1>1, <2>2 DEF Meeting
    <2>4. /\ DOMAIN round' = {"chosen", "cards", "again", "rating"} /\ round'.chosen = round.chosen
          /\ round'.cards = cards /\ round'.again = TRUE
      BY <2>1, <2>3
    <2>5. LlmOK'
      <3>1. spent' = [spent EXCEPT ![Devil] = spent["loop"]] /\ Ask(Devil, "json")
        BY <1>8 DEF SecondRound
      <3>2. spent' \in [Contexts -> 0..Budget + 1]
        BY <1>1, <3>1 DEF LlmOK
      <3> QED
        BY <1>1, <3>1, <3>2, AskType DEF LlmOK, Ask
    <2>6. Stay /\ Keep /\ step' = "second round" /\ UNCHANGED count /\ jobs' \subseteq Jobs
      BY <1>1, <1>8 DEF SecondRound
    <2>7. round'.again = Split(round'.cards)
      BY <2>1, <2>4, SplitType
    <2> QED
      BY <2>2, <2>3, <2>4, <2>5, <2>6, <2>7, <2>2 DEF Meets, Meeting, Stay
  <1>9. CASE MetaDecide
    <2>1. /\ Ask("loop", "json") /\ step' = "meta" /\ UNCHANGED <<spent, count, jobs>>
          /\ Stay /\ Keep /\ at = "m4" /\ step \in {"reviews", "second round"}
      BY <1>9 DEF MetaDecide, Gathered, In
    <2>2. LlmOK'
      BY <1>1, <2>1, AskType DEF LlmOK, Ask
    <2>3. /\ DOMAIN round = {"chosen", "cards", "again", "rating"}
          /\ Devil \in round.chosen /\ round.chosen \subseteq Reviewers
          /\ Cardinality(round.chosen) \in MinReviewers..MaxReviewers
          /\ step = "reviews" => round.again = FALSE
          /\ step = "second round" =>
                DOMAIN round.cards = round.chosen /\ round.again = Split(round.cards)
      BY <1>1, <2>1 DEF Meeting
    <2>4. /\ DOMAIN round' = {"chosen", "cards", "again", "rating"} /\ round'.chosen = round.chosen
          /\ DOMAIN round'.cards = round.chosen /\ round'.again = Split(round'.cards)
      <3>1. CASE step = "reviews"
        <4>1. PICK cards \in Cards : ~Split(cards) /\ round' = [round EXCEPT !.cards = cards]
          BY <1>9, <3>1 DEF MetaDecide, Gathered, In
        <4>2. DOMAIN cards = round.chosen
          BY DEF Cards
        <4>3. Split(cards) = FALSE
          BY <4>1, SplitType
        <4> QED
          BY <2>3, <3>1, <4>1, <4>2, <4>3
      <3>2. CASE step = "second round"
        <4>1. round' = round
          BY <1>9, <3>2 DEF MetaDecide, Gathered, In
        <4> QED
          BY <2>3, <3>2, <4>1
      <3> QED
        BY <2>1, <3>1, <3>2
    <2> QED
      BY <1>1, <2>1, <2>2, <2>3, <2>4 DEF Meets, Meeting, Stay
  <1>10. CASE MetaFallback
    <2>1. LlmOK' /\ Stay /\ step' = "reasoner" /\ UNCHANGED <<count, locals>>
      BY <1>1, <1>10, QuestionType DEF MetaFallback
    <2> QED
      BY <1>1, <1>10, <2>1 DEF MetaFallback, In, Meets, Meeting, locals, Stay
  <1>11. CASE Undecided
    BY <1>2, <1>11 DEF Undecided, In
  <1>12. CASE Decided
    <2>1. /\ Ask("node", "json") /\ step' = "decision" /\ UNCHANGED <<spent, count, jobs>>
          /\ Stay /\ Keep /\ at = "m4" /\ step \in {"meta", "reasoner"}
      BY <1>12 DEF Decided, In
    <2>2. LlmOK'
      BY <1>1, <2>1, AskType DEF LlmOK, Ask
    <2>3. /\ DOMAIN round = {"chosen", "cards", "again", "rating"}
          /\ Devil \in round.chosen /\ round.chosen \subseteq Reviewers
          /\ Cardinality(round.chosen) \in MinReviewers..MaxReviewers
          /\ DOMAIN round.cards = round.chosen /\ round.again = Split(round.cards)
      BY <1>1, <2>1 DEF Meeting
    <2>4. PICK r \in Ratings : round' = [round EXCEPT !.rating = r]
      BY <1>12 DEF Decided
    <2>5. /\ DOMAIN round' = {"chosen", "cards", "again", "rating"} /\ round'.chosen = round.chosen
          /\ round'.cards = round.cards /\ round'.again = round.again /\ round'.rating = r
      BY <2>3, <2>4
    <2> QED
      BY <1>1, <2>1, <2>2, <2>3, <2>5 DEF Meets, Meeting, Stay
  <1>13. CASE BuildDecisionCard
    <2>1. at = "m4" /\ step = "decision" /\ UNCHANGED <<files, prompts, used>>
      BY <1>13 DEF BuildDecisionCard, In
    <2>2. CASE Raise /\ UNCHANGED rated
      BY <1>2, <2>1, <2>2 DEF Keep, history
    <2>3. CASE rated' = round.rating /\ Return([rating |-> round.rating])
      <3> DEFINE p == [rating |-> round.rating]
      <3>1. DOMAIN p = {"rating"} /\ p["rating"] = round.rating /\ round.rating \in Ratings
        BY <1>1, <2>1 DEF Meeting
      <3>2. Return(p)
        BY <2>3
      <3> HIDE DEF p
      <3>3. Moves(p)
        BY <1>1, <2>1, <2>3, <3>1, <3>2 DEF Moves, Typed, files
      <3> QED
        BY <3>3
    <2> QED
      BY <1>13, <2>2, <2>3 DEF BuildDecisionCard
  <1> QED
    BY <1>3, <1>4, <1>5, <1>6, <1>7, <1>8, <1>9, <1>10, <1>11, <1>12, <1>13

\* Metadata made anew name no variant.
LEMMA BlankMetadata == NoMetadata \in Metadata /\ NoMetadata.variant = NoVariant
  BY DEF NoMetadata, Metadata

\* A node that leaves nothing but metadata, which name no variant.
LEMMA Forgets ==
  ASSUME at \in NodeSet, Return([metadata |-> NoMetadata]), Keep
  PROVE  \E p : Moves(p)
  <1> DEFINE p == [metadata |-> NoMetadata]
  <1>1. DOMAIN p = {"metadata"} /\ p["metadata"] = NoMetadata
    OBVIOUS
  <1> HIDE DEF p
  <1>2. Return(p)
    BY DEF p
  <1>3. Typed(p) /\ p["metadata"].variant = NoVariant
    BY <1>1, BlankMetadata DEF Typed
  <1>4. Moves(p)
    BY <1>1, <1>2, <1>3 DEF Moves, Keep, files, history
  <1> QED
    BY <1>4

\* The nodes after M4, without the sandbox.
LEMMA LateSteps ==
  ASSUME IInv,
         \/ Design \/ Designed \/ Gate \/ GateAnswered \/ Generate \/ Generated
         \/ Write \/ WriteSections \/ Polish
         \/ Reflect \/ Remember \/ Score \/ NotReflected
  PROVE  Works \/ Picks \/ \E p : Moves(p)
  <1>1. /\ LlmOK /\ count \in Nat /\ jobs \subseteq Jobs /\ {"embed", "json", "chat"} \subseteq Kinds
        /\ {"m5", "m5.5", "m6a", "m7", "appendix_reflect"} \subseteq NodeSet
    BY DEF IInv, TypeOK, Kinds, NodeSet
  <1>2. used \in Variants \union {NoVariant} /\ state.metadata \in Metadata /\ state \in ResearchState
    BY StateAccess DEF IInv, TypeOK, Scoring
  <1> USE DEF Steps
  <1>3. CASE Design
    <2>1. at = "m5" /\ UNCHANGED <<files, prompts, rated>>
      BY <1>3 DEF Design, In
    <2>2. CASE Return(Nothing) /\ UNCHANGED used
      BY <1>1, <2>1, <2>2, Moved DEF Keep, history
    <2>3. CASE Question("json", "plan") /\ used' \in BestFor
      <3>1. LlmOK' /\ Stay /\ step' = "plan" /\ UNCHANGED <<count, locals>>
        BY <1>1, <2>3, QuestionType
      <3>2. used' \in Variants \union {NoVariant}
        BY <2>3 DEF BestFor, Best, Scored
      <3> QED
        BY <2>1, <3>1, <3>2 DEF Picks, locals
    <2> QED
      BY <1>3, <2>2, <2>3 DEF Design
  <1>4. CASE Designed
    <2>1. CASE Quit("m5", "plan", {"failed", "bad"}, Nothing)
      BY <1>1, <2>1, QuitMoves
    <2> DEFINE m == IF used = NoVariant THEN state.metadata ELSE [NoMetadata EXCEPT !.variant = used]
               p == [experiment |-> TRUE, metadata |-> m]
    <2>2. CASE Quit("m5", "plan", {"ok"}, p)
      <3>1. m \in Metadata /\ (m = state.metadata \/ m.variant = used)
        <4> DEFINE named == [NoMetadata EXCEPT !.variant = used]
        <4>1. named \in Metadata /\ named.variant = used
          BY <1>2, BlankMetadata DEF Metadata
        <4> QED
          BY <1>2, <4>1
      <3> HIDE DEF m
      <3>2. DOMAIN p = {"experiment", "metadata"} /\ p["experiment"] = TRUE /\ p["metadata"] = m
        OBVIOUS
      <3> HIDE DEF p
      <3>3. at = "m5" /\ Return(p) /\ Keep
        BY <2>2 DEF Quit, In
      <3>4. Typed(p) /\ p["metadata"].variant \in {state.metadata.variant, used}
        BY <3>1, <3>2 DEF Typed
      <3>5. Moves(p)
        BY <1>1, <3>2, <3>3, <3>4 DEF Moves, Keep, files, history
      <3> QED
        BY <3>5
    <2> QED
      BY <1>4, <2>1, <2>2 DEF Designed
  <1>5. CASE Gate
    BY <1>1, <1>5, Forgets, Asking DEF Gate, In, Decide
  <1>6. CASE GateAnswered
    BY <1>1, <1>6, Forgets DEF GateAnswered, Quit, In, Decide
  <1>7. CASE Generate
    BY <1>1, <1>7, Moved, Asking DEF Generate, In
  <1>8. CASE Generated
    <2>1. CASE Quit("m6a", "files", {"failed", "bad"}, Nothing)
      BY <1>1, <2>1, QuitMoves
    <2>2. CASE /\ In("m6a", "files") /\ disk' = 1 /\ ran' = 0 /\ broke' = FALSE
               /\ UNCHANGED <<prompts, history>>
               /\ \/ Return([code |-> TRUE])
                  \/ Return([code |-> TRUE, metadata |-> NoMetadata])
                  \/ Raise
      <3>1. /\ at = "m6a" /\ UNCHANGED <<used, rated, prompts>>
            /\ disk' = 1 /\ ran' = 0 /\ broke' = FALSE
        BY <2>2 DEF In, history
      <3>2. ASSUME NEW p, Typed(p), Return(p), DOMAIN p \subseteq {"code", "metadata"},
                   "metadata" \in DOMAIN p => p["metadata"].variant = NoVariant
            PROVE  Moves(p)
        BY <1>1, <3>1, <3>2 DEF Moves
      <3>3. CASE Return([code |-> TRUE])
        <4> DEFINE p == [code |-> TRUE]
        <4>1. DOMAIN p = {"code"} /\ p["code"] = TRUE /\ Return(p)
          BY <3>3
        <4> HIDE DEF p
        <4> QED
          BY <3>2, <4>1 DEF Typed
      <3>4. CASE Return([code |-> TRUE, metadata |-> NoMetadata])
        <4> DEFINE p == [code |-> TRUE, metadata |-> NoMetadata]
        <4>1. DOMAIN p = {"code", "metadata"} /\ p["code"] = TRUE /\ p["metadata"] = NoMetadata
              /\ Return(p)
          BY <3>4
        <4> HIDE DEF p
        <4>2. Typed(p) /\ p["metadata"].variant = NoVariant
          BY <4>1, BlankMetadata DEF Typed
        <4> QED
          BY <3>2, <4>1, <4>2
      <3>5. CASE Raise
        <4>1. DOMAIN Nothing = {} /\ Return(Nothing)
          BY <3>5 DEF Nothing, Raise
        <4> QED
          BY <3>2, <4>1 DEF Typed
      <3> QED
        BY <2>2, <3>3, <3>4, <3>5
    <2> QED
      BY <1>8, <2>1, <2>2 DEF Generated
  <1>9. CASE Write
    BY <1>1, <1>9, Moved, Asking DEF Write, In
  <1>10. CASE WriteSections
    <2>1. Sections \in SUBSET Jobs
      BY DEF Jobs
    <2>2. FanOut(Sections, "chat", "sections") /\ Keep /\ at = "m7"
      BY <1>10 DEF WriteSections, In
    <2>3. LlmOK' /\ Stay /\ step' = "sections" /\ jobs' = Sections /\ UNCHANGED count
      BY <1>1, <2>1, <2>2, FanOutType
    <2> QED
      BY <1>1, <2>1, <2>2, <2>3 DEF Works
  <1>11. CASE Polish
    BY <1>1, <1>11, Moved, QuitMoves, Asking DEF Polish, Gathered, In, Raise
  <1>12. CASE Reflect
    BY <1>1, <1>12, Asking DEF Reflect, In
  <1>13. CASE Remember
    BY <1>1, <1>13, Asking DEF Remember, In
  <1>14. CASE Score
    <2> DEFINE p == [metadata |-> NoMetadata]
    <2>1. DOMAIN p = {"metadata"} /\ p["metadata"] = NoMetadata
      OBVIOUS
    <2> HIDE DEF p
    <2>2. Typed(p) /\ p["metadata"].variant = NoVariant
      BY <2>1, BlankMetadata DEF Typed
    <2>3. Return(p) /\ UNCHANGED <<files, used, rated>> /\ at = "appendix_reflect"
      BY <1>14 DEF Score, In, p, history
    <2>4. \A v \in Variants : prompts'[v] = prompts[v] \/ Scores(v)
      BY <1>14 DEF Score, Scores
    <2>5. Moves(p)
      BY <1>1, <2>1, <2>2, <2>3, <2>4 DEF Moves, files
    <2> QED
      BY <2>5
  <1>15. CASE NotReflected
    BY <1>1, <1>15, QuitMoves DEF NotReflected
  <1> QED
    BY <1>3, <1>4, <1>5, <1>6, <1>7, <1>8, <1>9, <1>10, <1>11, <1>12, <1>13, <1>14, <1>15

\* The sandbox.
LEMMA SandboxSteps ==
  ASSUME IInv, Skip \/ Run \/ NotRun \/ RunOk \/ RunFails \/ AskRepair \/ Repair
  PROVE  Executes \/ \E p : Moves(p)
  <1>1. /\ LlmOK /\ count \in Nat /\ Filing
        /\ disk \in 0..MaxRuns /\ ran \in 0..MaxRuns /\ broke \in BOOLEAN
        /\ "json" \in Kinds /\ "m6b" \in NodeSet /\ MaxRuns \in Nat \ {0}
        /\ at = "m6b" => count <= MaxRuns
    BY StudioGraphAssumption DEF IInv, TypeOK, Kinds, NodeSet
  <1> USE DEF Steps
  <1>2. ASSUME NEW p, at = "m6b", Typed(p), Return(p), UNCHANGED <<disk, ran, prompts, history>>,
               DOMAIN p \subseteq {"validated", "metadata"}, broke' \in BOOLEAN,
               "metadata" \in DOMAIN p => p["metadata"].variant = NoVariant,
               request.mode = "full_execute" =>
                   disk = ran \/ (broke' /\ disk = ran + 1 /\ p["validated"] = "failed")
        PROVE  \E q : Moves(q)
    <2>1. Moves(p)
      BY <1>1, <1>2 DEF Moves, history
    <2> QED
      BY <2>1
  <1>3. ASSUME NEW v \in {"ok", "failed"}, at = "m6b", Return([validated |-> v]),
               UNCHANGED <<disk, ran, prompts, history>>, broke' \in BOOLEAN,
               request.mode = "full_execute" =>
                   disk = ran \/ (broke' /\ disk = ran + 1 /\ v = "failed")
        PROVE  \E q : Moves(q)
    <2> DEFINE p == [validated |-> v]
    <2>1. DOMAIN p = {"validated"} /\ p["validated"] = v /\ Return(p)
      BY <1>3
    <2> HIDE DEF p
    <2>2. Typed(p)
      BY <2>1 DEF Typed
    <2> QED
      BY <1>2, <1>3, <2>1, <2>2
  <1>k. Keep => UNCHANGED <<disk, ran, prompts, history>> /\ broke' \in BOOLEAN
    BY <1>1 DEF Keep, files
  <1>4. CASE Skip
    <2>1. at = "m6b" /\ Keep
      BY <1>4 DEF Skip, In
    <2>2. \/ Return(Nothing)
          \/ request.mode = "dry_run" /\ \E v \in {"ok", "failed"} : Return([validated |-> v])
      BY <1>4 DEF Skip, Raise
    <2> QED
      BY <1>1, <1>3, <1>k, <2>1, <2>2, Moved
  <1>5. CASE Run
    <2>1. /\ at = "m6b" /\ step = "start" /\ count' = count + 1 /\ ran' = disk /\ step' = "ran"
          /\ UNCHANGED <<llm, locals, disk, broke, prompts, history>> /\ Stay /\ state.code
      BY <1>5 DEF Run, In
    <2>2. disk <= count + 1 /\ count < MaxRuns
      BY <1>1, <2>1 DEF Filing
    <2>3. LlmOK'
      BY <1>1, <2>1 DEF LlmOK, llm
    <2>4. Filing'
      BY <1>1, <2>1, <2>2 DEF Filing, Stay
    <2> QED
      BY <1>1, <2>1, <2>2, <2>3, <2>4 DEF Executes, locals
  <1>n. CASE NotRun
    <2>1. /\ at = "m6b" /\ disk = ran + 1 /\ broke' = TRUE /\ Return([validated |-> "failed"])
          /\ UNCHANGED <<disk, ran, prompts, history>>
      BY <1>1, <1>n DEF NotRun, In, Filing
    <2> QED
      BY <1>3, <2>1
  <1>6. CASE RunOk
    <2>1. /\ at = "m6b" /\ ran = disk
          /\ UNCHANGED <<disk, ran, prompts, history>> /\ broke' \in BOOLEAN
      BY <1>1, <1>6, <1>k DEF RunOk, In, Filing
    <2>2. CASE Return([validated |-> "ok"])
      BY <1>3, <2>1, <2>2
    <2>3. CASE Return([validated |-> "ok", metadata |-> NoMetadata])
      <3> DEFINE p == [validated |-> "ok", metadata |-> NoMetadata]
      <3>1. DOMAIN p = {"validated", "metadata"} /\ p["validated"] = "ok" /\ p["metadata"] = NoMetadata
            /\ Return(p)
        BY <2>3
      <3> HIDE DEF p
      <3>2. Typed(p) /\ p["metadata"].variant = NoVariant
        BY <3>1, BlankMetadata DEF Typed
      <3> QED
        BY <1>2, <2>1, <3>1, <3>2
    <2> QED
      BY <1>6, <2>2, <2>3 DEF RunOk
  <1>7. CASE RunFails
    <2>1. at = "m6b" /\ Keep /\ ran = disk /\ Return([validated |-> "failed"])
      BY <1>1, <1>7 DEF RunFails, In, Filing
    <2> QED
      BY <1>3, <1>k, <2>1
  <1>8. CASE AskRepair
    <2>1. /\ at = "m6b" /\ step = "ran" /\ count < MaxRuns /\ Question("json", "repair") /\ Keep
          /\ ran = disk /\ disk <= count
      BY <1>1, <1>8 DEF AskRepair, In, Filing
    <2>2. LlmOK' /\ Stay /\ step' = "repair" /\ UNCHANGED <<count, locals>>
      BY <1>1, <2>1, QuestionType
    <2>3. Filing'
      BY <1>1, <2>1, <2>2 DEF Filing, Keep, files, Stay
    <2> QED
      BY <1>1, <2>1, <2>2, <2>3 DEF Executes, Keep, files, locals
  <1>9. CASE Repair
    <2>1. at = "m6b" /\ step = "repair"
      BY <1>9 DEF Repair, Quit, In
    <2>2. ran = disk /\ disk <= count /\ count < MaxRuns
      BY <1>1, <2>1 DEF Filing
    <2>3. CASE Quit("m6b", "repair", {"ok", "failed"}, [validated |-> "failed"])
      BY <1>3, <1>k, <2>1, <2>2, <2>3 DEF Quit
    <2>4. CASE Quit("m6b", "repair", {"bad"}, Nothing)
      BY <1>1, <2>4, QuitMoves
    <2>5. CASE /\ disk' = disk + 1 /\ UNCHANGED <<ran, broke, prompts, history>>
               /\ step' = "start" /\ UNCHANGED <<llm, count, locals>> /\ Stay
      <3>1. LlmOK'
        BY <1>1, <2>5 DEF LlmOK, llm
      <3>2. count # 0
        BY <1>1, <2>2, <2>1 DEF Filing
      <3>3. Filing'
        BY <1>1, <2>1, <2>2, <2>5, <3>2 DEF Filing, Stay, Unwritten, Undesigned
      <3> QED
        BY <1>1, <2>1, <2>2, <2>5, <3>1, <3>3 DEF Executes, locals
    <2>6. CASE disk' = disk + 1 /\ UNCHANGED <<ran, broke, prompts, history>> /\ Raise
      <3>1. DOMAIN Nothing = {} /\ Return(Nothing)
        BY <2>6 DEF Nothing, Raise
      <3>2. Moves(Nothing)
        BY <1>1, <2>1, <2>2, <2>6, <3>1 DEF Moves, Typed, history
      <3> QED
        BY <3>2
    <2> QED
      BY <1>9, <2>3, <2>4, <2>5, <2>6 DEF Repair
  <1> QED
    BY <1>4, <1>5, <1>n, <1>6, <1>7, <1>8, <1>9

-----------------------------------------------------------------------------
(* Init, and every kind of step.                                           *)

\* A new run's state, whatever of the thread's comes back.
LEMMA FreshState ==
  ASSUME NEW r \in Requests, NEW s,
         DOMAIN s \subseteq Fields, "papers" \in DOMAIN s, s["papers"] \in BOOLEAN
  PROVE  LET new == Updated(s, Fresh(r))
         IN  new \in ResearchState /\ new["rating"] = 0 /\ new["validated"] = "none"
             /\ new["code"] = FALSE /\ new["metadata"].variant = NoVariant
  <1> DEFINE new == Updated(s, Fresh(r))
             named == Fields \ {"papers"}
  <1>1. DOMAIN Fresh(r) = named
    BY DEF Updated, Fresh, Unrated, Fields
  <1>2. /\ Fresh(r)["rating"] = 0 /\ Fresh(r)["validated"] = "none"
        /\ \A f \in {"blank", "experiment", "code"} : Fresh(r)[f] = FALSE
        /\ Fresh(r)["metadata"] = [NoMetadata EXCEPT !.skip = r.skip, !.clarified = r.clarified]
    BY DEF Updated, Fresh, Unrated
  <1>3. r.skip \in BOOLEAN /\ r.clarified \in 0..3
    BY StudioGraphAssumption DEF Requests
  <1>4. Fresh(r)["metadata"] \in Metadata /\ Fresh(r)["metadata"].variant = NoVariant
    <2> DEFINE one == [NoMetadata EXCEPT !.skip = r.skip]
    <2>1. one \in Metadata /\ one.variant = NoVariant
      BY <1>3, BlankMetadata DEF Metadata
    <2>2. [one EXCEPT !.clarified = r.clarified] \in Metadata
          /\ [one EXCEPT !.clarified = r.clarified].variant = NoVariant
      BY <1>3, <2>1 DEF Metadata
    <2>3. [one EXCEPT !.clarified = r.clarified]
            = [NoMetadata EXCEPT !.skip = r.skip, !.clarified = r.clarified]
      BY DEF NoMetadata
    <2> QED
      BY <1>2, <2>2, <2>3
  <1>5. \A f \in Fields : new[f] = IF f \in named THEN Fresh(r)[f] ELSE s[f]
    BY <1>1 DEF Updated, Fields
  <1>6. new = [f \in Fields |-> new[f]]
    BY <1>1 DEF Updated, Fields
  <1> HIDE DEF new
  <1>7. /\ new["rating"] = 0 /\ new["validated"] = "none" /\ new["papers"] = s["papers"]
        /\ new["metadata"] = Fresh(r)["metadata"]
        /\ \A f \in {"blank", "experiment", "code"} : new[f] = FALSE
    BY <1>2, <1>5 DEF Fields
  <1>8. new \in ResearchState
    BY <1>4, <1>6, <1>7, StateAccess, StudioGraphAssumption
  <1> QED
    BY <1>4, <1>7, <1>8 DEF new

\* A process starts in the invariant.
LEMMA Initial == Init => IInv
  <1> SUFFICES ASSUME Init
               PROVE  IInv
    OBVIOUS
  <1>1. PICK s \in Starts : /\ config = s.config /\ request = s.request
                            /\ keyed = s.keyed /\ prompts = s.prompts
    BY DEF Init
  <1>2. LlmOK
    BY <1>1, LlmCallAssumption, StudioGraphAssumption DEF Init, LlmInit, LlmOK, Calls, Answers
  <1>3. request \in Requests
    BY <1>1 DEF Requests
  <1>4. state \in ResearchState /\ state["rating"] = 0 /\ state["validated"] = "none"
        /\ state["code"] = FALSE /\ state["metadata"].variant = NoVariant
    <2> DEFINE old == [papers |-> FALSE, rating |-> 0]
    <2>1. DOMAIN old \subseteq Fields /\ "papers" \in DOMAIN old /\ old["papers"] \in BOOLEAN
      BY DEF Fields
    <2>2. state = Updated(old, Fresh(request))
      BY DEF Init
    <2> HIDE DEF old
    <2> QED
      BY <1>3, <2>1, <2>2, FreshState
  <1>5. /\ ask = 1 /\ at = "appendix_recall" /\ step = "start" /\ count = 0 /\ jobs = {}
        /\ disk = 0 /\ ran = 0 /\ broke = FALSE /\ used = NoVariant /\ rated = 0
    BY DEF Init
  <1>6. \A v \in Variants : prompts[v].runs \in Nat /\ prompts[v].total \in Nat
    BY <1>1, StudioGraphAssumption
  <1>7. TypeOK
    <2>1. at \in ToSet(Nodes) /\ step \in Steps /\ ask \in 1..MaxAsks
      BY <1>5, NodesAre, StudioGraphAssumption DEF NodeSet, Steps
    <2>2. disk \in 0..MaxRuns /\ ran \in 0..MaxRuns /\ count \in Nat /\ jobs \subseteq Jobs
      BY <1>5, StudioGraphAssumption
    <2>3. broke \in BOOLEAN
      BY <1>5
    <2> QED
      BY <1>1, <1>2, <1>3, <1>4, <1>5, <1>6, <2>1, <2>2, <2>3, StudioGraphAssumption DEF TypeOK
  <1>8. Scoring /\ Filing /\ FilesRan /\ Meeting
    BY <1>4, <1>5 DEF Scoring, Filing, FilesRan, Meeting
  <1> QED
    BY <1>7, <1>8 DEF IInv

\* A return keeps it: what the next nodes may find is what is left there.
LEMMA MovesKeep ==
  ASSUME IInv, NEW p, Moves(p)
  PROVE  IInv'
  <1>1. /\ LlmOK /\ config \in {s.config : s \in Starts} /\ state \in ResearchState
        /\ at \in NodeSet /\ Typed(p) /\ Return(p)
    BY DEF IInv, TypeOK, Moves
  <1>2. /\ LlmOK' /\ at' = Edges[config][at] /\ at' \in Places
        /\ step' = "start" /\ count' = 0 /\ jobs' = {} /\ UNCHANGED inputs
        /\ state' \in ResearchState
        /\ \A f \in {"rating", "validated", "papers", "metadata"} :
              state'[f] = IF f \in DOMAIN p THEN p[f] ELSE state[f]
        /\ state'["code"] => IF "code" \in DOMAIN p THEN p["code"] ELSE state["code"]
    BY <1>1, Returned
  <1>3. /\ at' \in Undesigned => at \in Undesigned \ {"m5"}
        /\ at' \in Unwritten => at \in Unwritten \ {"m6a"}
        /\ at' \in Unjudged => at \in Unjudged \ {"m6b"}
    BY <1>1, <1>2, Forward
  <1>4. /\ UNCHANGED used
        /\ rated' = IF "rating" \in DOMAIN p THEN p["rating"] ELSE rated
        /\ "metadata" \in DOMAIN p =>
              \/ p["metadata"].variant \in {NoVariant, state.metadata.variant}
              \/ at = "m5" /\ p["metadata"].variant = used
        /\ "validated" \in DOMAIN p =>
              /\ at = "m6b"
              /\ request.mode = "full_execute" =>
                    disk' = ran' \/ (broke' /\ disk' = ran' + 1 /\ p["validated"] = "failed")
        /\ "code" \in DOMAIN p => at = "m6a" /\ disk' = 1 /\ ran' = 0
        /\ \/ UNCHANGED files
           \/ at = "m6a" /\ disk' = 1 /\ ran' = 0 /\ broke' = FALSE
           \/ at = "m6b" /\ disk' \in 0..MaxRuns /\ UNCHANGED ran /\ broke' \in BOOLEAN
        /\ \A v \in Variants : prompts'[v] = prompts[v] \/ Scores(v)
    BY DEF Moves
  <1>5. /\ Scoring /\ Filing /\ FilesRan
        /\ disk \in 0..MaxRuns /\ ran \in 0..MaxRuns /\ broke \in BOOLEAN
        /\ MaxRuns \in Nat \ {0}
    BY StudioGraphAssumption DEF IInv, TypeOK
  <1>6. TypeOK'
    <2>1. (\E s \in Starts : config' = s.config) /\ request' \in Requests /\ ask' \in 1..MaxAsks
      BY <1>2 DEF IInv, TypeOK, inputs
    <2>2. at' \in ToSet(Nodes) \union {"paused", "end"} /\ step' \in Steps
      BY <1>2, NodesAre DEF Places, Steps
    <2>3. disk' \in 0..MaxRuns /\ ran' \in 0..MaxRuns /\ broke' \in BOOLEAN
      <3>1. 0 \in 0..MaxRuns /\ 1 \in 0..MaxRuns
        BY <1>5
      <3>2. CASE UNCHANGED files
        BY <1>5, <3>2 DEF files
      <3>3. CASE disk' = 1 /\ ran' = 0 /\ broke' = FALSE
        BY <3>1, <3>3
      <3>4. CASE disk' \in 0..MaxRuns /\ UNCHANGED ran /\ broke' \in BOOLEAN
        BY <1>5, <3>4
      <3> QED
        BY <1>4, <3>2, <3>3, <3>4
    <2>4. \A v \in Variants : prompts'[v].runs \in Nat /\ prompts'[v].total \in Nat
      <3> SUFFICES ASSUME NEW v \in Variants
                   PROVE  prompts'[v].runs \in Nat /\ prompts'[v].total \in Nat
        OBVIOUS
      <3>1. prompts[v].runs \in Nat /\ prompts[v].total \in Nat /\ state.rating \in Nat
        BY StateAccess, StudioGraphAssumption DEF IInv, TypeOK
      <3>2. CASE prompts'[v] = prompts[v]
        BY <3>1, <3>2
      <3>3. CASE Scores(v)
        <4>1. prompts'[v] = [runs |-> prompts[v].runs + 1, total |-> prompts[v].total + state.rating]
          BY <3>3 DEF Scores
        <4> QED
          BY <3>1, <4>1
      <3> QED
        BY <1>4, <3>2, <3>3
    <2> QED
      BY <1>2, <1>5, <2>1, <2>2, <2>3, <2>4 DEF TypeOK
  <1>7. Scoring'
    BY <1>2, <1>3, <1>4, <1>5 DEF Scoring
  <1>8. Filing'
    <2>1. at' \in Unjudged => state'.validated = "none"
      BY <1>2, <1>3, <1>4, <1>5 DEF Filing
    <2>2. at' \in Unwritten => ~state'.code
      BY <1>2, <1>3, <1>4, <1>5 DEF Filing
    <2>3. at' = "m6b" /\ state'.code => disk' = 1 /\ ran' = 0
      <3>1. at' = "m6b" => at \in Unwritten
        BY <1>3 DEF Unjudged, Unwritten
      <3> QED
        BY <1>2, <1>4, <1>5, <3>1 DEF Filing
    <2> QED
      BY <1>2, <1>5, <2>1, <2>2, <2>3 DEF Filing
  <1>9. FilesRan'
    <2>1. CASE "validated" \in DOMAIN p
      BY <1>2, <1>4, <2>1 DEF FilesRan, inputs
    <2>2. CASE "validated" \notin DOMAIN p /\ UNCHANGED files
      BY <1>2, <1>5, <2>2 DEF FilesRan, files, inputs
    <2>3. CASE "validated" \notin DOMAIN p /\ at \in {"m6a", "m6b"}
      BY <1>2, <1>5, <2>3 DEF FilesRan, Filing, Unjudged
    <2> QED
      BY <1>4, <2>1, <2>2, <2>3
  <1>10. Meeting'
    BY <1>2 DEF Meeting
  <1> QED
    BY <1>6, <1>7, <1>8, <1>9, <1>10 DEF IInv

\* What a step does that leaves node and state alone.
LEMMA StaysKeep ==
  ASSUME IInv, Works \/ Picks \/ Meets \/ Executes \/ (\E c \in Contexts : Asked(c))
  PROVE  IInv'
  <1>1. Stay /\ UNCHANGED <<prompts, rated>>
    BY DEF Works, Picks, Meets, Executes, Asked, Stay, Keep, place, history
  <1>2. MaxRuns \in Nat \ {0}
    BY StudioGraphAssumption
  <1>3. LlmOK' /\ step' \in Steps /\ jobs' \subseteq Jobs
        /\ count' \in Nat /\ (at = "m6b" => count' <= MaxRuns)
    <2>1. CASE \E c \in Contexts : Asked(c)
      BY <2>1, ProviderType DEF Asked, IInv, TypeOK, place, locals
    <2>2. CASE Works \/ Picks \/ Meets \/ Executes
      BY <1>2, <2>2 DEF Works, Picks, Meets, Executes, IInv, TypeOK
    <2> QED
      BY <2>1, <2>2
  <1>4. disk' \in 0..MaxRuns /\ ran' \in 0..MaxRuns /\ broke' \in BOOLEAN
    BY DEF Works, Picks, Meets, Executes, Asked, Keep, files, IInv, TypeOK
  <1>5. TypeOK'
    BY <1>1, <1>3, <1>4 DEF IInv, TypeOK, Stay, inputs
  <1>6. Scoring'
    <2>1. CASE UNCHANGED used
      BY <1>1, <2>1 DEF IInv, Scoring, Stay
    <2>2. CASE Picks
      <3>1. "m5" \in Undesigned
        BY DEF Undesigned
      <3> QED
        BY <1>1, <2>2, <3>1 DEF IInv, Scoring, Stay, Picks
    <2> QED
      BY <2>1, <2>2 DEF Works, Meets, Executes, Asked, Keep, history
  <1>7. Filing'
    <2>1. CASE Executes
      BY <2>1 DEF Executes
    <2>2. CASE at # "m6b" /\ UNCHANGED files
      BY <1>1, <2>2 DEF IInv, Filing, Stay, files
    <2>3. CASE \E c \in Contexts : Asked(c)
      BY <1>1, <2>3 DEF IInv, Filing, Stay, Asked, place, Keep, files
    <2> QED
      BY <2>1, <2>2, <2>3 DEF Works, Picks, Meets, Keep, files
  <1>8. FilesRan'
    <2>1. CASE at = "m6b"
      BY <1>1, <2>1 DEF IInv, FilesRan, Filing, Stay, Unjudged
    <2>2. CASE at # "m6b"
      <3>1. UNCHANGED files
        BY <2>2 DEF Works, Picks, Meets, Executes, Asked, Keep, files
      <3> QED
        BY <1>1, <3>1 DEF IInv, FilesRan, Stay, files, inputs
    <2> QED
      BY <2>1, <2>2
  <1>9. Meeting'
    <2>1. CASE Meets
      BY <2>1 DEF Meets
    <2>2. CASE at # "m4"
      BY <1>1, <2>2 DEF Meeting, Stay
    <2>3. CASE \E c \in Contexts : Asked(c)
      BY <1>1, <2>3 DEF IInv, Meeting, Stay, Asked, place, locals
    <2> QED
      BY <2>1, <2>2, <2>3 DEF Works, Picks, Executes
  <1> QED
    BY <1>5, <1>6, <1>7, <1>8, <1>9 DEF IInv

\* A run begins anew, on a thread that is new or not.
LEMMA PipelineKeeps == IInv /\ RunPipeline => IInv'
  <1> SUFFICES ASSUME IInv, RunPipeline
               PROVE  IInv'
    OBVIOUS
  <1>1. /\ at' = "appendix_recall" /\ step' = "start" /\ count' = 0 /\ ask' = ask + 1 /\ ask < MaxAsks
        /\ disk' \in {0, disk} /\ ran' = 0 /\ broke' = FALSE /\ used' = NoVariant /\ rated' = 0
        /\ spent' = [c \in Contexts |-> 0]
        /\ UNCHANGED <<call, answer, keyed, config, jobs, prompts>>
    BY DEF RunPipeline, locals
  <1>2. PICK r \in Requests : /\ request' = r
                              /\ \/ state' = Updated(state, Fresh(r))
                                 \/ state' = Updated([state EXCEPT !.papers = FALSE], Fresh(r))
    BY DEF RunPipeline
  <1>3. state' \in ResearchState /\ state'["rating"] = 0 /\ state'["validated"] = "none"
        /\ state'["code"] = FALSE /\ state'["metadata"].variant = NoVariant
    <2> DEFINE left == [state EXCEPT !.papers = FALSE]
    <2>1. state \in ResearchState
      BY DEF IInv, TypeOK
    <2>2. DOMAIN state = Fields /\ state["papers"] \in BOOLEAN
      BY <2>1, StateAccess
    <2>3. DOMAIN left = Fields /\ left["papers"] \in BOOLEAN
      BY <2>2 DEF Fields
    <2>4. "papers" \in Fields
      BY DEF Fields
    <2> HIDE DEF left
    <2>5. state' = Updated(state, Fresh(r)) \/ state' = Updated(left, Fresh(r))
      BY <1>2 DEF left
    <2>6. CASE state' = Updated(state, Fresh(r))
      BY <2>2, <2>4, <2>6, FreshState
    <2>7. CASE state' = Updated(left, Fresh(r))
      BY <2>3, <2>4, <2>7, FreshState
    <2> QED
      BY <2>5, <2>6, <2>7
  <1>4. LlmOK'
    BY <1>1, LlmCallAssumption DEF IInv, TypeOK, LlmOK
  <1>5. at' \in ToSet(Nodes) /\ step' \in Steps /\ ask' \in 1..MaxAsks
    <2>1. ask \in 1..MaxAsks /\ MaxAsks \in Nat
      BY StudioGraphAssumption DEF IInv, TypeOK
    <2>2. ask' \in 1..MaxAsks
      BY <1>1, <2>1
    <2> QED
      BY <1>1, <2>2, NodesAre DEF NodeSet, Steps
  <1>6. TypeOK'
    <2>1. disk' \in 0..MaxRuns /\ ran' \in 0..MaxRuns
      BY <1>1, StudioGraphAssumption DEF IInv, TypeOK
    <2>2. broke' \in BOOLEAN
      BY <1>1
    <2> QED
      BY <1>1, <1>2, <1>3, <1>4, <1>5, <2>1, <2>2, StudioGraphAssumption DEF IInv, TypeOK
  <1> QED
    BY <1>1, <1>3, <1>6 DEF IInv, Scoring, Filing, FilesRan, Meeting

\* Every step is one of these.
LEMMA StepKinds ==
  ASSUME IInv, Next
  PROVE  \/ RunPipeline \/ (\E p : Moves(p))
         \/ Works \/ Picks \/ Meets \/ Executes \/ (\E c \in Contexts : Asked(c))
  BY EarlySteps, RoundtableSteps, LateSteps, SandboxSteps, Zenon DEF Next, Advance, ContainerEnds

\* The invariant is inductive.
LEMMA NextKeeps == IInv /\ [Next]_vars => IInv'
  <1> SUFFICES ASSUME IInv, [Next]_vars
               PROVE  IInv'
    OBVIOUS
  <1>1. CASE Next
    BY <1>1, StepKinds, MovesKeep, StaysKeep, PipelineKeeps
  <1>2. CASE UNCHANGED vars
    <2>1. UNCHANGED <<call, answer, spent, keyed, config, request, ask, at, step, count, state,
                      jobs, round, disk, ran, broke, prompts, used, rated>>
      BY <1>2 DEF vars, llm, inputs, place, locals, files, history
    <2>2. LlmOK'
      BY <2>1 DEF IInv, TypeOK, LlmOK
    <2>3. TypeOK'
      BY <2>1, <2>2 DEF IInv, TypeOK
    <2>4. Scoring' /\ Filing' /\ FilesRan' /\ Meeting'
      BY <2>1 DEF IInv, Scoring, Filing, FilesRan, Meeting
    <2> QED
      BY <2>3, <2>4 DEF IInv
  <1> QED
    BY <1>1, <1>2

\* It holds in every state.
LEMMA Holds == Spec => []IInv
  BY Initial, NextKeeps, PTL DEF Spec

-----------------------------------------------------------------------------
(* No step goes back.                                                      *)

\* What a node asks next is of a later stage.
LEMMA StagesRise ==
  /\ Stage("appendix_recall", "recalled") > Stage("appendix_recall", "start")
  /\ Stage("m0", "topics") > Stage("m0", "start")
  /\ Stage("m1", "specific") > Stage("m1", "start")
  /\ Stage("m1", "pico") > Stage("m1", "specific")
  /\ Stage("m2", "queries") > Stage("m2", "start")
  /\ Stage("m2", "rerank") > Stage("m2", "queries")
  /\ Stage("m3", "triples") > Stage("m3", "start")
  /\ Stage("m3", "gap cards") > Stage("m3", "triples")
  /\ Stage("m4", "selection") > Stage("m4", "start")
  /\ Stage("m4", "reviews") > Stage("m4", "start")
  /\ Stage("m4", "reviews") > Stage("m4", "selection")
  /\ Stage("m4", "second round") > Stage("m4", "reviews")
  /\ Stage("m4", "meta") > Stage("m4", "reviews")
  /\ Stage("m4", "meta") > Stage("m4", "second round")
  /\ Stage("m4", "reasoner") > Stage("m4", "meta")
  /\ Stage("m4", "decision") > Stage("m4", "meta")
  /\ Stage("m4", "decision") > Stage("m4", "reasoner")
  /\ Stage("m5", "plan") > Stage("m5", "start")
  /\ Stage("m5.5", "gate") > Stage("m5.5", "start")
  /\ Stage("m6a", "files") > Stage("m6a", "start")
  /\ Stage("m6b", "repair") > Stage("m6b", "ran")
  /\ Stage("m6b", "start") > Stage("m6b", "repair")
  /\ Stage("m7", "style") > Stage("m7", "start")
  /\ Stage("m7", "sections") > Stage("m7", "style")
  /\ Stage("m7", "polish") > Stage("m7", "sections")
  /\ Stage("appendix_reflect", "reflected") > Stage("appendix_reflect", "start")
  /\ Stage("appendix_reflect", "remembered") > Stage("appendix_reflect", "reflected")
  BY DEF Stage

\* A step from one stage to a later one.
LEMMA StepForward ==
  ASSUME NEW n, NEW s, NEW t, at = n, step = s, step' = t, UNCHANGED <<at, count>>,
         Stage(n, t) > Stage(n, s)
  PROVE  StageForward
  BY DEF StageForward

\* A question is such a step, by the node, its loop or its threads.
LEMMA AsksForward ==
  ASSUME NEW kind, NEW J, NEW n, NEW s, NEW t, In(n, s), Stage(n, t) > Stage(n, s),
         Question(kind, t) \/ LoopQuestion(kind, t) \/ EnterLoop(kind, t) \/ FanOut(J, kind, t)
  PROVE  StageForward
  BY StepForward DEF Question, LoopQuestion, EnterLoop, FanOut, Stay, In

\* A return goes to the next node.
LEMMA Goes == ASSUME NEW p, Return(p) PROVE at' = Following(at)
  BY DEF Return

LEMMA Quits ==
  ASSUME NEW n, NEW s, NEW results, NEW p, Quit(n, s, results, p)
  PROVE  at' = Following(at)
  BY Goes DEF Quit

\* The nodes before M4; M1 asks for what is not specific, twice at most.
LEMMA EarlyForward ==
  ASSUME IInv,
         \/ Recall \/ Recalled \/ Discover \/ Discovered \/ SelectTopic
         \/ Refine \/ Clarify \/ BuildPico \/ Refined
         \/ Retrieve \/ SearchSources \/ Retrieved \/ AccessStatus \/ ExtractTriples \/ BuildKg
  PROVE  StageForward \/ at' = Following(at)
  <1>1. CASE Recall \/ Recalled
    BY <1>1, StagesRise, AsksForward, Goes, Quits DEF Recall, Recalled
  <1>2. CASE Discover \/ Discovered \/ SelectTopic
    BY <1>2, StagesRise, AsksForward, Goes, Quits DEF Discover, Discovered, SelectTopic
  <1>3. CASE Refine \/ BuildPico
    BY <1>3, StagesRise, AsksForward DEF Refine, BuildPico
  <1>4. CASE Clarify
    <2>1. at = "m1" /\ count < 2 /\ count' = count + 1 /\ at' = at
      BY <1>4 DEF Clarify, In, Stay
    <2>2. count \in Nat
      BY DEF IInv, TypeOK
    <2> QED
      BY <2>1, <2>2 DEF StageForward, Passes
  <1>5. CASE Refined
    BY <1>5, Quits DEF Refined
  <1>6. CASE Retrieve
    BY <1>6, StagesRise, AsksForward, Goes DEF Retrieve
  <1>7. CASE SearchSources
    BY <1>7, StagesRise, AsksForward, Goes DEF SearchSources
  <1>8. CASE Retrieved \/ AccessStatus
    BY <1>8, Goes DEF Retrieved, AccessStatus
  <1>9. CASE ExtractTriples
    BY <1>9, StagesRise, AsksForward, Goes DEF ExtractTriples
  <1>10. CASE BuildKg
    BY <1>10, StagesRise, AsksForward, Goes, Quits DEF BuildKg, Gathered
  <1> QED
    BY <1>1, <1>2, <1>3, <1>4, <1>5, <1>6, <1>7, <1>8, <1>9, <1>10

\* The roundtable has one second round, and one other model to decide.
LEMMA RoundtableForward ==
  ASSUME \/ Critique \/ InviteAll \/ InviteSelected \/ NoSelection \/ RoundtableRaises
         \/ SecondRound \/ MetaDecide \/ MetaFallback \/ Undecided \/ Decided \/ BuildDecisionCard
  PROVE  StageForward \/ at' = Following(at)
  <1>1. CASE Critique
    BY <1>1, StagesRise, AsksForward, Goes DEF Critique
  <1>2. CASE InviteAll \/ InviteSelected
    BY <1>2, StagesRise, AsksForward DEF InviteAll, InviteSelected, Invite
  <1>3. CASE NoSelection \/ RoundtableRaises \/ Undecided
    BY <1>3, Goes DEF NoSelection, RoundtableRaises, Undecided, Raise
  <1>4. CASE SecondRound
    <2>1. at = "m4" /\ step = "reviews" /\ step' = "second round" /\ UNCHANGED <<at, count>>
      BY <1>4 DEF SecondRound, Gathered, In, Stay
    <2> QED
      BY <2>1, StagesRise, StepForward
  <1>5. CASE MetaDecide
    <2>1. /\ at = "m4" /\ step \in {"reviews", "second round"} /\ step' = "meta"
          /\ UNCHANGED <<at, count>>
      BY <1>5 DEF MetaDecide, Gathered, In, Stay
    <2> QED
      BY <2>1, StagesRise, StepForward
  <1>6. CASE MetaFallback
    BY <1>6, StagesRise, AsksForward DEF MetaFallback
  <1>7. CASE Decided
    <2>1. /\ at = "m4" /\ step \in {"meta", "reasoner"} /\ step' = "decision"
          /\ UNCHANGED <<at, count>>
      BY <1>7 DEF Decided, In, Stay
    <2> QED
      BY <2>1, StagesRise, StepForward
  <1>8. CASE BuildDecisionCard
    BY <1>8, Goes DEF BuildDecisionCard, Raise
  <1> QED
    BY <1>1, <1>2, <1>3, <1>4, <1>5, <1>6, <1>7, <1>8

\* The nodes after M4; the sandbox runs while runs are left.
LEMMA LateForward ==
  ASSUME IInv,
         \/ Design \/ Designed \/ Gate \/ GateAnswered \/ Generate \/ Generated
         \/ Skip \/ Run \/ NotRun \/ ContainerEnds \/ Repair
         \/ Write \/ WriteSections \/ Polish
         \/ Reflect \/ Remember \/ Score \/ NotReflected
  PROVE  StageForward \/ at' = Following(at)
  <1>1. CASE Design \/ Designed
    BY <1>1, StagesRise, AsksForward, Goes, Quits DEF Design, Designed
  <1>2. CASE Gate \/ GateAnswered
    BY <1>2, StagesRise, AsksForward, Goes, Quits DEF Gate, GateAnswered
  <1>3. CASE Generate \/ Generated
    BY <1>3, StagesRise, AsksForward, Goes, Quits DEF Generate, Generated, Raise
  <1>4. CASE Skip \/ NotRun \/ RunOk \/ RunFails
    BY <1>4, Goes DEF Skip, NotRun, RunOk, RunFails, Raise
  <1>5. CASE Run
    <2>1. at = "m6b" /\ step = "start" /\ count' = count + 1 /\ at' = at
      BY <1>5 DEF Run, In, Stay
    <2>2. count \in Nat /\ count < MaxRuns /\ MaxRuns \in Nat
      BY <2>1, StudioGraphAssumption DEF IInv, TypeOK, Filing
    <2> QED
      BY <2>1, <2>2 DEF StageForward, Passes
  <1>6. CASE AskRepair
    BY <1>6, StagesRise, AsksForward DEF AskRepair
  <1>7. CASE Repair
    <2>1. at = "m6b" /\ step = "repair"
      BY <1>7 DEF Repair, Quit, In
    <2>2. \/ at' = Following(at)
          \/ step' = "start" /\ UNCHANGED <<at, count>>
      BY <1>7, Goes, Quits DEF Repair, Raise, Stay
    <2> QED
      BY <2>1, <2>2, StagesRise, StepForward
  <1>8. CASE Write \/ WriteSections \/ Polish
    BY <1>8, StagesRise, AsksForward, Goes, Quits
       DEF Write, WriteSections, Polish, Gathered, Raise
  <1>9. CASE Reflect \/ Remember \/ Score \/ NotReflected
    BY <1>9, StagesRise, AsksForward, Goes, Quits DEF Reflect, Remember, Score, NotReflected
  <1> QED
    BY <1>1, <1>2, <1>3, <1>4, <1>5, <1>6, <1>7, <1>8, <1>9 DEF ContainerEnds

\* Where a run waits, no node acts.
LEMMA Acting ==
  ASSUME Advance \/ ContainerEnds, ~ \E c \in Contexts : Asked(c)
  PROVE  at \in NodeSet
  <1> USE DEF NodeSet, In, Quit, Gathered
  <1>1. CASE \/ Recall \/ Recalled \/ Discover \/ Discovered \/ SelectTopic
             \/ Refine \/ Clarify \/ BuildPico \/ Refined
             \/ Retrieve \/ SearchSources \/ Retrieved \/ AccessStatus \/ ExtractTriples \/ BuildKg
    BY <1>1 DEF Recall, Recalled, Discover, Discovered, SelectTopic, Refine, Clarify, BuildPico,
                Refined, Retrieve, SearchSources, Retrieved, AccessStatus, ExtractTriples, BuildKg
  <1>2. CASE \/ Critique \/ InviteAll \/ InviteSelected \/ NoSelection \/ RoundtableRaises
             \/ SecondRound \/ MetaDecide \/ MetaFallback \/ Undecided \/ Decided
             \/ BuildDecisionCard
    BY <1>2 DEF Critique, InviteAll, InviteSelected, NoSelection, RoundtableRaises, SecondRound,
                MetaDecide, MetaFallback, Undecided, Decided, BuildDecisionCard
  <1>3. CASE \/ Design \/ Designed \/ Gate \/ GateAnswered \/ Generate \/ Generated
             \/ Skip \/ Run \/ NotRun \/ ContainerEnds \/ Repair
    BY <1>3 DEF Design, Designed, Gate, GateAnswered, Generate, Generated,
                Skip, Run, NotRun, ContainerEnds, RunOk, RunFails, AskRepair, Repair
  <1>4. CASE \/ Write \/ WriteSections \/ Polish
             \/ Reflect \/ Remember \/ Score \/ NotReflected
    BY <1>4 DEF Write, WriteSections, Polish, Reflect, Remember, Score, NotReflected
  <1> QED
    BY <1>1, <1>2, <1>3, <1>4, Zenon DEF Advance

\* Each attempt ends the question or is a later one.
LEMMA AttemptForward ==
  ASSUME LlmOK, NEW c \in Contexts, Asked(c)
  PROVE  CallForward
  <1>1. UNCHANGED place /\ Provider(c)
    BY DEF Asked
  <1>2. /\ call \in [Contexts -> Calls]
        /\ call[c] # Idle => /\ call[c] \in [kind : Kinds, tries : 1..MaxTries, turn : 1..MaxTurns]
                             /\ call[c].tries \in Nat /\ call[c].turn \in Nat
    BY LlmCallAssumption DEF LlmOK, Calls
  <1>3. call[c] # Idle
    BY <1>1 DEF Provider, RateLimited, Fails, TooLate, Replies, Garbled, Idle, Kinds
  <1>4. SUFFICES ASSUME NEW next, call' = [call EXCEPT ![c] = next],
                        \/ next = Idle
                        \/ next = [call[c] EXCEPT !.tries = @ + 1]
                        \/ next = [call[c] EXCEPT !.turn = @ + 1, !.tries = 1]
                 PROVE  CallForward
    BY <1>1 DEF Provider, RateLimited, Fails, TooLate, Replies, Garbled, Settle, Again
  <1>5. call'[c] = next /\ \A d \in Contexts \ {c} : call'[d] = call[d]
    BY <1>2, <1>4
  <1>6. \/ next = Idle
        \/ next.turn > call[c].turn
        \/ next.turn = call[c].turn /\ next.tries > call[c].tries
    <2>1. CASE next = Idle
      BY <2>1
    <2>2. CASE next = [call[c] EXCEPT !.tries = @ + 1]
      <3>1. next.turn = call[c].turn /\ next.tries = call[c].tries + 1
        BY <1>2, <1>3, <2>2
      <3> QED
        BY <1>2, <1>3, <3>1
    <2>3. CASE next = [call[c] EXCEPT !.turn = @ + 1, !.tries = 1]
      <3>1. next.turn = call[c].turn + 1
        BY <1>2, <1>3, <2>3
      <3> QED
        BY <1>2, <1>3, <3>1
    <2> QED
      BY <1>4, <2>1, <2>2, <2>3
  <1> QED
    BY <1>1, <1>3, <1>5, <1>6 DEF CallForward

-----------------------------------------------------------------------------
(* Theorems.                                                               *)

\* The types, for every setting, list of reviewers and number of sandbox runs
\* (graph.py; MAX_RETRIES of code_gen.py).
THEOREM StudioTypeCorrect == Spec => []TypeOK
  <1>1. IInv => TypeOK
    BY DEF IInv
  <1> QED
    BY <1>1, Holds, PTL

\* The decision is of a whole roundtable, with the devil in it (roundtable.py).
THEOREM RoundtableIsWhole == Spec => []RoundtableWhole
  <1>1. IInv => RoundtableWhole
    BY DEF IInv, Meeting, RoundtableWhole
  <1> QED
    BY <1>1, Holds, PTL

\* After full_execute the files beside a verdict are the files that ran last; one
\* version more lies there only with a verdict of failed, where an attempt came
\* to no run (code_gen.py, full_execute_sandbox).
THEOREM VerdictIsOfFiles == Spec => []FilesRan
  <1>1. IInv => FilesRan
    BY DEF IInv
  <1> QED
    BY <1>1, Holds, PTL

\* A run scores the variant that it used, with the rating that it got
\* (graph.py, appendix_reflect_node).
THEOREM RunScoresItself == Spec => ScoresOwnRun
  <1> DEFINE Own == \A v \in Variants : prompts'[v] # prompts[v] =>
                       /\ v = used /\ rated > 0
                       /\ prompts'[v] = [runs |-> prompts[v].runs + 1,
                                         total |-> prompts[v].total + rated]
  <1>1. IInv /\ [Next]_vars => [Own]_vars
    <2> SUFFICES ASSUME IInv, Next
                 PROVE  Own
      OBVIOUS
    <2>1. CASE \E p : Moves(p)
      <3>1. \A v \in Variants : prompts'[v] = prompts[v] \/ Scores(v)
        BY <2>1 DEF Moves
      <3>2. /\ state.rating = rated /\ state.metadata.variant \in {NoVariant, used}
            /\ NoVariant \notin Variants
        BY StudioGraphAssumption DEF IInv, Scoring
      <3> QED
        BY <3>1, <3>2 DEF Scores
    <2>2. CASE UNCHANGED prompts
      BY <2>2
    <2> QED
      BY <2>1, <2>2, StepKinds
         DEF RunPipeline, Works, Picks, Meets, Executes, Asked, Keep
  <1> QED
    BY <1>1, Holds, PTL DEF Spec, ScoresOwnRun

\* A run only goes forward: to later nodes, passes, stages and attempts, of
\* which there are so many (graph.py, code_gen.py, base.py).
THEOREM RunGoesForward == Spec => GoesForward
  <1> DEFINE Onward == ask' = ask => NodeForward \/ StageForward \/ CallForward
  <1>1. IInv /\ [Next]_vars => [Onward]_vars
    <2> SUFFICES ASSUME IInv, Next, ask' = ask
                 PROVE  NodeForward \/ StageForward \/ CallForward
      OBVIOUS
    <2>1. ~ RunPipeline
      BY DEF RunPipeline, IInv, TypeOK
    <2>2. Advance \/ ContainerEnds
      BY <2>1 DEF Next
    <2>3. CASE \E c \in Contexts : Asked(c)
      BY <2>3, AttemptForward DEF IInv, TypeOK
    <2>4. CASE ~ \E c \in Contexts : Asked(c)
      <3>1. StageForward \/ at' = Following(at)
        BY <2>2, <2>4, EarlyForward, RoundtableForward, LateForward, Zenon DEF Advance
      <3>2. at \in NodeSet
        BY <2>2, <2>4, Acting
      <3> QED
        BY <3>1, <3>2, Forward DEF NodeForward, Following, IInv, TypeOK
    <2> QED
      BY <2>3, <2>4
  <1> QED
    BY <1>1, Holds, PTL DEF Spec, GoesForward
=============================================================================
