------------------------ MODULE SandboxBrokerProofs ------------------------
(***************************************************************************)
(* For any number of requests, Operations and results: the broker's types, *)
(* the exclusion of leaders, no second run of a recorded Operation, and    *)
(* that the broker implements OperationResult.                             *)
(*                                                                         *)
(* A leader's claim is what excludes others from running the container and *)
(* writing the record (Leads); everything the broker remembers or is about *)
(* to answer is backed by the record (Backed); and a leader that got past  *)
(* its second look knows that there is none (Fresh).                       *)
(***************************************************************************)
EXTENDS SandboxBroker, TLAPS

Leads ==
    /\ \A r \in Requests : pc[r] \in Leading => inflight[OpOf[r]] = r
    /\ \A o \in Operations : inflight[o] # None => OpOf[inflight[o]] = o
    /\ \A r \in Requests : pc[r] = "await" =>
          follows[r] \in Requests /\ OpOf[follows[r]] = OpOf[r]

Backed ==
    /\ \A o \in Operations : cache[o] # None => cache[o] = record[o]
    /\ \A r \in Requests : future[r] \in Contents => future[r] = record[OpOf[r]]
    /\ \A r \in Requests : answer[r] \in Contents => answer[r] = record[OpOf[r]]
    /\ \A r \in Requests : pc[r] = "publish" =>
          output[r] \in Contents /\ output[r] = record[OpOf[r]]

Fresh == \A r \in Requests :
    /\ pc[r] \in {"launch", "register", "communicate", "put"} => record[OpOf[r]] = None
    /\ pc[r] = "put" => output[r] \in Contents

IInv == TypeOK /\ Leads /\ ClaimsReleased /\ Backed /\ Fresh

\* Using a cache entry moves the others down by one and keeps Capacity of them.
LEMMA RememberType ==
    ASSUME TypeOK, NEW o \in Operations, NEW c \in Contents, Remember(o, c)
    PROVE  /\ cache' \in [Operations -> Contents \union {None}]
           /\ age' \in [Operations -> 0..Capacity]
<1>1. \A p \in Operations : Aged(o, p) \in Nat
  BY BrokerAssumption DEF TypeOK, Aged
<1>2. cache' \in [Operations -> Contents \union {None}]
  BY DEF Remember, TypeOK
<1>3. \A p \in Operations : (IF Aged(o, p) > Capacity THEN 0 ELSE Aged(o, p)) \in 0..Capacity
  <2>1. \A n \in Nat : (IF n > Capacity THEN 0 ELSE n) \in 0..Capacity
    BY BrokerAssumption
  <2> QED BY <1>1, <2>1
<1>4. age' \in [Operations -> 0..Capacity]
  BY <1>3 DEF Remember
<1> QED BY <1>2, <1>4

\* What a first or second look found is cached, answered, and by a leader
\* passed on to its followers.
LEMMA FoundType ==
    ASSUME TypeOK, NEW r \in Requests, NEW c \in Contents, Found(r, c)
    PROVE  /\ cache' \in [Operations -> Contents \union {None}]
           /\ age' \in [Operations -> 0..Capacity]
           /\ future' \in [Requests -> Contents \union {Unset, Failed}]
           /\ answer' \in [Requests -> Contents \union {None, Failed}]
           /\ pc' \in [Requests -> Labels]
<1>1. OpOf[r] \in Operations
  BY BrokerAssumption
<1>2. Remember(OpOf[r], c)
  BY DEF Found
<1>3. /\ cache' \in [Operations -> Contents \union {None}]
      /\ age' \in [Operations -> 0..Capacity]
  BY <1>1, <1>2, RememberType
<1>4. /\ future' \in [Requests -> Contents \union {Unset, Failed}]
      /\ answer' \in [Requests -> Contents \union {None, Failed}]
      /\ pc' \in [Requests -> Labels]
  BY DEF Found, Answer, SetFuture, Goto, TypeOK, Labels, Leading
<1> QED BY <1>3, <1>4

\* Every step keeps the types.
LEMMA NextType == ASSUME TypeOK, Leads, Backed, [Next]_vars PROVE TypeOK'
<1> USE BrokerAssumption
<1>1. ASSUME NEW r \in Requests, Arrive(r) PROVE TypeOK'
  BY <1>1 DEF TypeOK, Arrive, Goto, Labels, disk, memory
<1>2. ASSUME NEW r \in Requests, Lookup(r) PROVE TypeOK'
  <2>1. CASE cache[OpOf[r]] # None
    <3>1. cache[OpOf[r]] \in Contents /\ Found(r, cache[OpOf[r]])
      BY <1>2, <2>1 DEF Lookup, TypeOK
    <3> QED BY <1>2, <3>1, FoundType DEF Lookup, TypeOK, disk
  <2>2. CASE cache[OpOf[r]] = None
    <3>1. pc' \in [Requests -> Labels]
      BY <1>2, <2>2 DEF Lookup, TypeOK, Goto, Labels, Leading
    <3> QED BY <1>2, <2>2, <3>1 DEF Lookup, TypeOK, disk
  <2> QED BY <2>1, <2>2
<1>3. ASSUME NEW r \in Requests, Read(r) PROVE TypeOK'
  <2>1. CASE OpOf[r] \notin corrupt /\ record[OpOf[r]] # None
    <3>1. record[OpOf[r]] \in Contents /\ Found(r, record[OpOf[r]])
      BY <1>3, <2>1 DEF Read, TypeOK
    <3> QED BY <1>3, <3>1, FoundType DEF Read, TypeOK, disk
  <2>2. CASE OpOf[r] \in corrupt
    BY <1>3, <2>2 DEF Read, Reject, Answer, Goto, TypeOK, disk, Labels
  <2>3. CASE OpOf[r] \notin corrupt /\ record[OpOf[r]] = None
    <3>1. pc' \in [Requests -> Labels]
      BY <1>3, <2>3 DEF Read, TypeOK, Goto, Labels, Leading
    <3> QED BY <1>3, <2>3, <3>1 DEF Read, TypeOK, disk
  <2> QED BY <2>1, <2>2, <2>3
<1>4. ASSUME NEW r \in Requests, Claim(r) PROVE TypeOK'
  BY <1>4 DEF TypeOK, Claim, Goto, Labels, Leading, disk
<1>5. ASSUME NEW r \in Requests, Launch(r) PROVE TypeOK'
  BY <1>5 DEF TypeOK, Launch, FailRun, SetFuture, Answer, Goto, Labels, Leading, disk, memory
<1>6. ASSUME NEW r \in Requests, Register(r) PROVE TypeOK'
  BY <1>6 DEF TypeOK, Register, Goto, Labels, Leading, disk
<1>7. ASSUME NEW r \in Requests, Communicate(r) PROVE TypeOK'
  BY <1>7 DEF TypeOK, Communicate, FailRun, SetFuture, Answer, Goto, Labels, Leading, disk
<1>8. ASSUME NEW r \in Requests, TimeOut(r) PROVE TypeOK'
  BY <1>8 DEF TypeOK, TimeOut, FailRun, SetFuture, Answer, Goto, Labels, Leading, disk
<1>9. ASSUME NEW r \in Requests, Put(r) PROVE TypeOK'
  BY <1>9 DEF TypeOK, Put, Answer, Goto, Labels, Leading, memory
<1>10. ASSUME NEW r \in Requests, Publish(r) PROVE TypeOK'
  <2>1. output[r] \in Contents
    BY <1>10 DEF Publish, Backed
  <2>2. /\ cache' \in [Operations -> Contents \union {None}]
        /\ age' \in [Operations -> 0..Capacity]
    BY <1>10, <2>1, RememberType DEF Publish
  <2> QED BY <1>10, <2>1, <2>2
       DEF TypeOK, Publish, SetFuture, Answer, Goto, Labels, Leading, disk
<1>11. ASSUME NEW r \in Requests, Release(r) PROVE TypeOK'
  BY <1>11 DEF TypeOK, Release, Goto, Labels, Leading, disk
<1>12. ASSUME NEW r \in Requests, Await(r) PROVE TypeOK'
  <2>1. pc' \in [Requests -> Labels]
    BY <1>12 DEF TypeOK, Await, Goto, Labels
  <2>2. CASE future[follows[r]] # Unset
    <3>1. future[follows[r]] \in Contents \union {Failed}
      BY <1>12, <2>2 DEF TypeOK, Await, Leads
    <3> QED BY <1>12, <2>1, <2>2, <3>1 DEF TypeOK, Await, Answer, disk, memory
  <2>3. CASE future[follows[r]] = Unset
    BY <1>12, <2>1, <2>3 DEF TypeOK, Await, Answer, disk, memory
  <2> QED BY <2>2, <2>3
<1>13. ASSUME NEW r \in Requests, ExitContainer(r) PROVE TypeOK'
  BY <1>13 DEF TypeOK, ExitContainer, disk, memory, thread
<1>14. ASSUME NEW o \in Operations, Cancel(o) PROVE TypeOK'
  BY <1>14 DEF TypeOK, Cancel, disk, memory, thread
<1>15. ASSUME NEW o \in Operations, Corrupt(o) PROVE TypeOK'
  BY <1>15 DEF TypeOK, Corrupt, memory, thread
<1>16. CASE Restart
  BY <1>16 DEF TypeOK, Restart, disk, Labels
<1>17. CASE UNCHANGED vars
  BY <1>17 DEF TypeOK, vars, disk, memory, thread
<1> QED
  BY <1>1, <1>2, <1>3, <1>4, <1>5, <1>6, <1>7, <1>8, <1>9, <1>10, <1>11, <1>12,
     <1>13, <1>14, <1>15, <1>16, <1>17 DEF Next, Step, Rest

-----------------------------------------------------------------------------
\* Only the leader of an Operation gives up its claim.
LEMMA NextLeads == ASSUME TypeOK, Leads, [Next]_vars PROVE Leads' /\ (ClaimsReleased => ClaimsReleased')
<1> USE BrokerAssumption DEF Leads, ClaimsReleased
<1>1. ASSUME NEW r \in Requests, Arrive(r) PROVE Leads' /\ (ClaimsReleased => ClaimsReleased')
  BY <1>1 DEF TypeOK, Arrive, Goto, Leading, disk, memory
<1>2. ASSUME NEW r \in Requests, Lookup(r) PROVE Leads' /\ (ClaimsReleased => ClaimsReleased')
  BY <1>2 DEF TypeOK, Lookup, Found, Goto, Leading, disk
<1>3. ASSUME NEW r \in Requests, Read(r) PROVE Leads' /\ (ClaimsReleased => ClaimsReleased')
  BY <1>3 DEF TypeOK, Read, Found, Reject, Goto, Leading, disk
<1>4. ASSUME NEW r \in Requests, Claim(r) PROVE Leads' /\ (ClaimsReleased => ClaimsReleased')
  BY <1>4 DEF TypeOK, Claim, Goto, Leading, disk
<1>5. ASSUME NEW r \in Requests, Launch(r) PROVE Leads' /\ (ClaimsReleased => ClaimsReleased')
  BY <1>5 DEF TypeOK, Launch, FailRun, Goto, Leading, disk, memory
<1>6. ASSUME NEW r \in Requests, Register(r) PROVE Leads' /\ (ClaimsReleased => ClaimsReleased')
  BY <1>6 DEF TypeOK, Register, Goto, Leading, disk
<1>7. ASSUME NEW r \in Requests, Communicate(r) PROVE Leads' /\ (ClaimsReleased => ClaimsReleased')
  BY <1>7 DEF TypeOK, Communicate, FailRun, Goto, Leading, disk
<1>8. ASSUME NEW r \in Requests, TimeOut(r) PROVE Leads' /\ (ClaimsReleased => ClaimsReleased')
  BY <1>8 DEF TypeOK, TimeOut, FailRun, Goto, Leading, disk
<1>9. ASSUME NEW r \in Requests, Put(r) PROVE Leads' /\ (ClaimsReleased => ClaimsReleased')
  BY <1>9 DEF TypeOK, Put, Goto, Leading, memory
<1>10. ASSUME NEW r \in Requests, Publish(r) PROVE Leads' /\ (ClaimsReleased => ClaimsReleased')
  BY <1>10 DEF TypeOK, Publish, Goto, Leading, disk
<1>11. ASSUME NEW r \in Requests, Release(r) PROVE Leads' /\ (ClaimsReleased => ClaimsReleased')
  BY <1>11 DEF TypeOK, Release, Goto, Leading, disk
<1>12. ASSUME NEW r \in Requests, Await(r) PROVE Leads' /\ (ClaimsReleased => ClaimsReleased')
  BY <1>12 DEF TypeOK, Await, Goto, Leading, disk, memory
<1>13. ASSUME NEW r \in Requests, ExitContainer(r) PROVE Leads' /\ (ClaimsReleased => ClaimsReleased')
  BY <1>13 DEF TypeOK, ExitContainer, disk, memory, thread
<1>14. ASSUME NEW o \in Operations, Cancel(o) PROVE Leads' /\ (ClaimsReleased => ClaimsReleased')
  BY <1>14 DEF TypeOK, Cancel, disk, memory, thread
<1>15. ASSUME NEW o \in Operations, Corrupt(o) PROVE Leads' /\ (ClaimsReleased => ClaimsReleased')
  BY <1>15 DEF TypeOK, Corrupt, memory, thread
<1>16. CASE Restart
  BY <1>16 DEF TypeOK, Restart, disk, Leading
<1>17. CASE UNCHANGED vars
  BY <1>17 DEF TypeOK, vars, disk, memory, thread
<1> QED
  BY <1>1, <1>2, <1>3, <1>4, <1>5, <1>6, <1>7, <1>8, <1>9, <1>10, <1>11, <1>12,
     <1>13, <1>14, <1>15, <1>16, <1>17 DEF Next, Step, Rest

-----------------------------------------------------------------------------
\* What Found caches, answers and hands on is backed by the record it was.
LEMMA FoundBacked ==
    ASSUME TypeOK, Backed, UNCHANGED <<record, output>>,
           NEW r \in Requests, pc[r] # "publish", Found(r, record[OpOf[r]]),
           record[OpOf[r]] # None
    PROVE  Backed'
<1> USE BrokerAssumption
<1>1. \A o \in Operations : cache'[o] # None => cache'[o] = record'[o]
  BY DEF Found, Remember, Backed, TypeOK
<1>2. \A s \in Requests : future'[s] \in Contents => future'[s] = record'[OpOf[s]]
  BY DEF Found, SetFuture, Goto, Backed, TypeOK
<1>3. \A s \in Requests : answer'[s] \in Contents => answer'[s] = record'[OpOf[s]]
  BY DEF Found, Answer, Backed, TypeOK
<1>4. \A s \in Requests : pc'[s] = "publish" =>
          output'[s] \in Contents /\ output'[s] = record'[OpOf[s]]
  BY DEF Found, Goto, Backed, TypeOK
<1> QED BY <1>1, <1>2, <1>3, <1>4 DEF Backed

\* The broker remembers and answers what is recorded.
LEMMA NextBacked == ASSUME TypeOK, Leads, Fresh, Backed, [Next]_vars PROVE Backed'
<1> USE BrokerAssumption
<1>1. ASSUME NEW r \in Requests, Arrive(r) PROVE Backed'
  BY <1>1 DEF Backed, TypeOK, Arrive, Goto, disk, memory
<1>2. ASSUME NEW r \in Requests, Lookup(r) PROVE Backed'
  <2>1. CASE cache[OpOf[r]] # None
    <3>1. cache[OpOf[r]] = record[OpOf[r]]
      BY <2>1 DEF Backed
    <3> QED BY <1>2, <2>1, <3>1, FoundBacked DEF Lookup, disk
  <2>2. CASE cache[OpOf[r]] = None
    BY <1>2, <2>2 DEF Backed, TypeOK, Lookup, Goto, disk
  <2> QED BY <2>1, <2>2
<1>3. ASSUME NEW r \in Requests, Read(r) PROVE Backed'
  <2>1. CASE OpOf[r] \notin corrupt /\ record[OpOf[r]] # None
    BY <1>3, <2>1, FoundBacked DEF Read, disk
  <2>2. CASE OpOf[r] \in corrupt
    BY <1>3, <2>2 DEF Backed, TypeOK, Read, Reject, Answer, Goto, disk
  <2>3. CASE OpOf[r] \notin corrupt /\ record[OpOf[r]] = None
    BY <1>3, <2>3 DEF Backed, TypeOK, Read, Goto, disk
  <2> QED BY <2>1, <2>2, <2>3
<1>4. ASSUME NEW r \in Requests, Claim(r) PROVE Backed'
  BY <1>4 DEF Backed, TypeOK, Claim, Goto, disk
<1>5. ASSUME NEW r \in Requests, Launch(r) PROVE Backed'
  BY <1>5 DEF Backed, TypeOK, Launch, FailRun, SetFuture, Answer, Goto, disk, memory
<1>6. ASSUME NEW r \in Requests, Register(r) PROVE Backed'
  BY <1>6 DEF Backed, TypeOK, Register, Goto, disk
<1>7. ASSUME NEW r \in Requests, Communicate(r) PROVE Backed'
  BY <1>7 DEF Backed, TypeOK, Communicate, FailRun, SetFuture, Answer, Goto, disk
<1>8. ASSUME NEW r \in Requests, TimeOut(r) PROVE Backed'
  BY <1>8 DEF Backed, TypeOK, TimeOut, FailRun, SetFuture, Answer, Goto, disk
<1>9. ASSUME NEW r \in Requests, Put(r) PROVE Backed'
  <2>1. record[OpOf[r]] = None /\ output[r] \in Contents
    BY <1>9 DEF Put, Fresh
  <2>2. \A s \in Requests : pc'[s] = "publish" =>
            output'[s] \in Contents /\ output'[s] = record'[OpOf[s]]
    BY <1>9, <2>1 DEF Backed, TypeOK, Put, Goto
  <2>3. \A o \in Operations : cache'[o] # None => cache'[o] = record'[o]
    BY <1>9, <2>1 DEF Backed, TypeOK, Put, memory
  <2>4. \A s \in Requests : future'[s] \in Contents => future'[s] = record'[OpOf[s]]
    BY <1>9, <2>1 DEF Backed, TypeOK, Put
  <2>5. \A s \in Requests : answer'[s] \in Contents => answer'[s] = record'[OpOf[s]]
    BY <1>9, <2>1 DEF Backed, TypeOK, Put, Answer
  <2> QED BY <2>2, <2>3, <2>4, <2>5 DEF Backed
<1>10. ASSUME NEW r \in Requests, Publish(r) PROVE Backed'
  <2>1. output[r] \in Contents /\ output[r] = record[OpOf[r]]
    BY <1>10 DEF Publish, Backed
  <2>2. \A o \in Operations : cache'[o] # None => cache'[o] = record'[o]
    BY <1>10, <2>1 DEF Publish, Remember, Backed, TypeOK, disk
  <2>3. \A s \in Requests : pc'[s] = "publish" =>
            output'[s] \in Contents /\ output'[s] = record'[OpOf[s]]
    BY <1>10 DEF Publish, Goto, Backed, TypeOK, disk
  <2>4. \A s \in Requests : future'[s] \in Contents => future'[s] = record'[OpOf[s]]
    BY <1>10, <2>1 DEF Publish, SetFuture, Backed, TypeOK, disk
  <2>5. \A s \in Requests : answer'[s] \in Contents => answer'[s] = record'[OpOf[s]]
    BY <1>10, <2>1 DEF Publish, Answer, Backed, TypeOK, disk
  <2> QED BY <2>2, <2>3, <2>4, <2>5 DEF Backed
<1>11. ASSUME NEW r \in Requests, Release(r) PROVE Backed'
  BY <1>11 DEF Backed, TypeOK, Release, Goto, disk
<1>12. ASSUME NEW r \in Requests, Await(r) PROVE Backed'
  <2>1. follows[r] \in Requests /\ OpOf[follows[r]] = OpOf[r]
    BY <1>12 DEF Await, Leads
  <2>2. \A s \in Requests : answer'[s] \in Contents => answer'[s] = record'[OpOf[s]]
    BY <1>12, <2>1 DEF Await, Answer, Backed, TypeOK, disk
  <2> QED BY <1>12, <2>2 DEF Backed, TypeOK, Await, Goto, disk, memory
<1>13. ASSUME NEW r \in Requests, ExitContainer(r) PROVE Backed'
  BY <1>13 DEF Backed, ExitContainer, disk, memory, thread
<1>14. ASSUME NEW o \in Operations, Cancel(o) PROVE Backed'
  BY <1>14 DEF Backed, Cancel, disk, memory, thread
<1>15. ASSUME NEW o \in Operations, Corrupt(o) PROVE Backed'
  BY <1>15 DEF Backed, Corrupt, memory, thread
<1>16. CASE Restart
  BY <1>16 DEF Backed, TypeOK, Restart, disk
<1>17. CASE UNCHANGED vars
  BY <1>17 DEF Backed, vars, disk, memory, thread
<1> QED
  BY <1>1, <1>2, <1>3, <1>4, <1>5, <1>6, <1>7, <1>8, <1>9, <1>10, <1>11, <1>12,
     <1>13, <1>14, <1>15, <1>16, <1>17 DEF Next, Step, Rest

\* Nobody but the leader writes the record between its second look and Put.
LEMMA NextFresh == ASSUME TypeOK, Leads, Fresh, [Next]_vars PROVE Fresh'
<1> USE BrokerAssumption
<1>1. ASSUME NEW r \in Requests, Arrive(r) PROVE Fresh'
  BY <1>1 DEF Fresh, TypeOK, Arrive, Goto, disk, memory
<1>2. ASSUME NEW r \in Requests, Lookup(r) PROVE Fresh'
  BY <1>2 DEF Fresh, TypeOK, Lookup, Found, Goto, disk
<1>3. ASSUME NEW r \in Requests, Read(r) PROVE Fresh'
  BY <1>3 DEF Fresh, TypeOK, Read, Found, Reject, Goto, disk
<1>4. ASSUME NEW r \in Requests, Claim(r) PROVE Fresh'
  BY <1>4 DEF Fresh, TypeOK, Claim, Goto, disk
<1>5. ASSUME NEW r \in Requests, Launch(r) PROVE Fresh'
  BY <1>5 DEF Fresh, TypeOK, Launch, FailRun, Goto, disk, memory
<1>6. ASSUME NEW r \in Requests, Register(r) PROVE Fresh'
  BY <1>6 DEF Fresh, TypeOK, Register, Goto, disk
<1>7. ASSUME NEW r \in Requests, Communicate(r) PROVE Fresh'
  BY <1>7 DEF Fresh, TypeOK, Communicate, FailRun, Goto, disk
<1>8. ASSUME NEW r \in Requests, TimeOut(r) PROVE Fresh'
  BY <1>8 DEF Fresh, TypeOK, TimeOut, FailRun, Goto, disk
<1>9. ASSUME NEW r \in Requests, Put(r) PROVE Fresh'
  <2>1. \A s \in Requests : s # r /\ OpOf[s] = OpOf[r] => pc[s] \notin Leading
    BY <1>9 DEF Put, Leads, Leading
  <2> QED BY <1>9, <2>1 DEF Fresh, TypeOK, Put, Goto, Leading
<1>10. ASSUME NEW r \in Requests, Publish(r) PROVE Fresh'
  BY <1>10 DEF Fresh, TypeOK, Publish, Goto, disk
<1>11. ASSUME NEW r \in Requests, Release(r) PROVE Fresh'
  BY <1>11 DEF Fresh, TypeOK, Release, Goto, disk
<1>12. ASSUME NEW r \in Requests, Await(r) PROVE Fresh'
  BY <1>12 DEF Fresh, TypeOK, Await, Goto, disk, memory
<1>13. ASSUME NEW r \in Requests, ExitContainer(r) PROVE Fresh'
  BY <1>13 DEF Fresh, ExitContainer, disk, memory, thread
<1>14. ASSUME NEW o \in Operations, Cancel(o) PROVE Fresh'
  BY <1>14 DEF Fresh, Cancel, disk, memory, thread
<1>15. ASSUME NEW o \in Operations, Corrupt(o) PROVE Fresh'
  BY <1>15 DEF Fresh, Corrupt, memory, thread
<1>16. CASE Restart
  BY <1>16 DEF Fresh, TypeOK, Restart, disk
<1>17. CASE UNCHANGED vars
  BY <1>17 DEF Fresh, vars, disk, memory, thread
<1> QED
  BY <1>1, <1>2, <1>3, <1>4, <1>5, <1>6, <1>7, <1>8, <1>9, <1>10, <1>11, <1>12,
     <1>13, <1>14, <1>15, <1>16, <1>17 DEF Next, Step, Rest

-----------------------------------------------------------------------------
LEMMA InitInv == Init => IInv
BY BrokerAssumption
   DEF Init, IInv, TypeOK, Leads, ClaimsReleased, Backed, Fresh, Labels, Leading

LEMMA Invariance == Spec => []IInv
<1>1. IInv /\ [Next]_vars => IInv'
  BY NextType, NextLeads, NextBacked, NextFresh DEF IInv
<1> QED BY InitInv, <1>1, PTL DEF Spec

\* Every variable of the broker keeps its type.
THEOREM BrokerTypeCorrect == Spec => []TypeOK
<1>1. IInv => TypeOK
  BY DEF IInv
<1> QED BY Invariance, <1>1, PTL

\* However many threads ask at once, one leads: a claim is exclusive.
THEOREM LeadersExclude == Spec => []OneLeader
<1>1. IInv => OneLeader
  BY DEF IInv, Leads, OneLeader
<1> QED BY Invariance, <1>1, PTL

\* Whatever exception ends a leader, its claim goes with it, except when the
\* record it published has since become unreadable.
THEOREM ClaimsDoNotLeak == Spec => []ClaimsReleased
<1>1. IInv => ClaimsReleased
  BY DEF IInv
<1> QED BY Invariance, <1>1, PTL

\* No container is started for an Operation that has a record.
THEOREM RecordedNotRerun == Spec => NoRerun
<1>1. IInv /\ [Next]_vars => [~Rerun]_vars
  <2> SUFFICES ASSUME IInv, [Next]_vars, NEW r \in Requests,
                      box[r] = "none", box'[r] = "running"
               PROVE  record[OpOf[r]] = None
    BY DEF Rerun
  <2>1. ASSUME NEW s \in Requests, Launch(s) PROVE record[OpOf[r]] = None
    <3>1. s = r
      BY <2>1 DEF Launch, IInv, TypeOK
    <3> QED BY <2>1, <3>1 DEF Launch, IInv, Fresh
  <2>2. ASSUME NEW s \in Requests,
               Arrive(s) \/ Lookup(s) \/ Read(s) \/ Claim(s) \/ Register(s)
               \/ Communicate(s) \/ Put(s) \/ Publish(s) \/ Release(s) \/ Await(s)
        PROVE  FALSE
    BY <2>2 DEF Arrive, Lookup, Read, Claim, Register, Communicate, Put, Publish,
                Release, Await
  <2>3. ASSUME NEW s \in Requests, TimeOut(s) \/ ExitContainer(s) PROVE FALSE
    BY <2>3 DEF TimeOut, ExitContainer, IInv, TypeOK
  <2>4. ASSUME NEW o \in Operations, Cancel(o) \/ Corrupt(o) PROVE FALSE
    BY <2>4 DEF Cancel, Corrupt, IInv, TypeOK
  <2>5. CASE Restart \/ UNCHANGED vars
    BY <2>5 DEF Restart, vars
  <2> QED BY <2>1, <2>2, <2>3, <2>4, <2>5 DEF Next, Step, Rest
<1> QED BY Invariance, <1>1, PTL DEF Spec, NoRerun

-----------------------------------------------------------------------------
(* The broker implements OperationResult: Put decides, and a thread's last *)
(* step answers.                                                           *)

\* A thread's last step answers its client.
LEMMA ToldNow ==
    ASSUME NEW r \in Requests, TypeOK, IInv', pc[r] # "done", pc'[r] = "done",
           UNCHANGED record,
           \A s \in Requests : s # r => pc'[s] = pc[s] /\ answer'[s] = answer[s]
    PROVE  Promise!Answer(r) \/ (UNCHANGED record /\ Told' = Told)
<1>1. Told[r] = None /\ Told'[r] = answer'[r] /\ Told' = [Told EXCEPT ![r] = answer'[r]]
  BY DEF Told
<1>2. CASE answer'[r] \in Contents
  <2>1. record[OpOf[r]] = answer'[r] /\ answer'[r] # None
    BY <1>2, BrokerAssumption DEF IInv, Backed
  <2> QED BY <1>1, <2>1 DEF Promise!Answer, Promise!None, None
<1>3. CASE answer'[r] = Failed
  BY <1>1, <1>3 DEF Promise!Answer, Promise!None, None, Promise!Failed, Failed
<1>4. CASE answer'[r] = None
  BY <1>1, <1>4 DEF Told
<1> QED BY <1>2, <1>3, <1>4 DEF IInv, TypeOK

LEMMA StepImplements ==
    ASSUME IInv, IInv', [Next]_vars
    PROVE  [Promise!Next]_<<record, Told>>
<1> USE DEF IInv
<1>1. ASSUME NEW r \in Requests, Put(r) PROVE [Promise!Next]_<<record, Told>>
  <2>1. Told' = Told
    BY <1>1 DEF Put, Answer, Goto, Told, TypeOK
  <2>2. CASE record' = record
    BY <2>1, <2>2
  <2>3. CASE record' # record
    <3>1. /\ record[OpOf[r]] = None /\ output[r] \in Contents
          /\ record' = [record EXCEPT ![OpOf[r]] = output[r]]
      BY <1>1, <2>3 DEF Put, Fresh
    <3>2. Promise!Decide(OpOf[r])
      BY <2>1, <3>1 DEF Promise!Decide, Promise!None, None
    <3> QED BY <3>2, BrokerAssumption DEF Promise!Next
  <2> QED BY <2>2, <2>3
<1>2. ASSUME NEW r \in Requests, Arrive(r) \/ Claim(r) \/ Launch(r) \/ Register(r)
             \/ Communicate(r) \/ TimeOut(r) \/ Publish(r)
      PROVE  UNCHANGED <<record, Told>>
  <2>1. UNCHANGED record
    BY <1>2 DEF Arrive, Claim, Launch, Register, Communicate, TimeOut, Publish, disk
  <2>2. \A s \in Requests : /\ pc[s] = "done" <=> pc'[s] = "done"
                            /\ pc[s] = "done" => answer'[s] = answer[s]
    BY <1>2 DEF Arrive, Claim, Launch, Register, Communicate, TimeOut, Publish,
                FailRun, Answer, Goto, TypeOK
  <2> QED BY <2>1, <2>2 DEF Told
<1>3. ASSUME NEW r \in Requests, Lookup(r) \/ Read(r) \/ Release(r) \/ Await(r)
      PROVE  [Promise!Next]_<<record, Told>>
  <2>1. UNCHANGED record /\ pc[r] # "done"
    BY <1>3 DEF Lookup, Read, Release, Await, disk
  <2>2. \A s \in Requests : s # r => pc'[s] = pc[s] /\ answer'[s] = answer[s]
    BY <1>3 DEF Lookup, Read, Release, Await, Found, Reject, Answer, Goto, TypeOK
  <2>3. CASE pc'[r] = "done"
    BY <2>1, <2>2, <2>3, ToldNow DEF Promise!Next
  <2>4. CASE pc'[r] # "done"
    BY <2>1, <2>2, <2>4 DEF Told
  <2> QED BY <2>3, <2>4
<1>4. ASSUME NEW r \in Requests, ExitContainer(r) PROVE UNCHANGED <<record, Told>>
  BY <1>4 DEF ExitContainer, disk, thread, Told
<1>5. ASSUME NEW o \in Operations, Cancel(o) \/ Corrupt(o) PROVE UNCHANGED <<record, Told>>
  BY <1>5 DEF Cancel, Corrupt, disk, thread, Told
<1>6. CASE Restart
  BY <1>6 DEF Restart, disk, Told, TypeOK
<1>7. CASE UNCHANGED vars
  BY <1>7 DEF vars, disk, thread, Told
<1> QED
  BY <1>1, <1>2, <1>3, <1>4, <1>5, <1>6, <1>7 DEF Next, Step, Rest

\* Each Operation gets one result for good, and every client that is answered
\* is answered with it: the broker implements OperationResult.
THEOREM OneResultForAll == Spec => OneResult
<1>1. Init => Promise!Init
  BY DEF Init, Promise!Init, Told, Promise!None, None
<1>2. IInv /\ IInv' /\ [Next]_vars => [Promise!Next]_<<record, Told>>
  BY StepImplements
<1> QED BY Invariance, <1>1, <1>2, PTL DEF Spec, OneResult, Promise!Spec
=============================================================================
