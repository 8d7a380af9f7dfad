------------------------ MODULE IngestPipelineProofs ------------------------
(***************************************************************************)
(* Proofs about IngestPipeline, for any bodies, keys, numbers of requests, *)
(* workers and retry calls, attempts, crashes and expired locks.           *)
(*                                                                         *)
(* One inductive invariant, IndInv, carries everything:                    *)
(*   1. a job id that anyone holds is the id of a job that was added, and  *)
(*      from then on its delivery is known and fixed (JobsAreKnown);       *)
(*   2. so an order that a job's execution has seen stays the order of     *)
(*      that execution (WorkersSeeOrder), and reported successes are real; *)
(*   3. the unique constraint lets one execution per business order commit,*)
(*      and that one alone may publish (OnePublisher);                     *)
(*   4. rows are written only where there are rows (RowsExist), which is   *)
(*      what makes every step a step of Intake or none.                    *)
(***************************************************************************)
EXTENDS IngestPipeline, TLAPS

-----------------------------------------------------------------------------
(* Jobs, deliveries and types.                                             *)

\* A job that was added has a delivery.
LEMMA KnownDelivery ==
  ASSUME JobsAreKnown, NEW j \in JobIds, jobState[j] # "absent"
  PROVE  DeliveryOf(j) \in Events
BY DEF JobsAreKnown, CallsKnown, DeliveryOf, JobIds

\* An execution under way has a job, and the job a delivery.
LEMMA WorkerDelivery ==
  ASSUME TypeOK, JobsAreKnown, NEW w \in Workers, worker[w].pc # "idle"
  PROVE  /\ worker[w].job \in JobIds
         /\ jobState[worker[w].job] # "absent"
         /\ DeliveryOf(worker[w].job) \in Events
<1>1. worker[w].job \in JobIds /\ jobState[worker[w].job] # "absent"
  BY DEF JobsAreKnown, WorkersKnown, Idle
<1>2. QED
  BY <1>1, KnownDelivery

\* What the death of a process leaves has its type.
LEMMA DeadIsTyped ==
  ASSUME TypeOK, NEW w \in Workers, Dies(w)
  PROVE  /\ worker' \in [Workers -> Execution]
         /\ listeners' \subseteq Listener
         /\ lock' \in [JobIds -> Workers \cup {None}]
         /\ orphaned' \subseteq JobIds
<1>1. worker' \in [Workers -> Execution]
  BY DEF Dies, TypeOK, Idle, Execution, WorkerPoints
<1>2. listeners' \subseteq Listener
  BY DEF Dies, TypeOK
<1>3. lock' \in [JobIds -> Workers \cup {None}]
  BY DEF Dies, TypeOK
<1>4. orphaned' \subseteq JobIds
  BY DEF Dies, TypeOK, Listener
<1>5. QED
  BY <1>1, <1>2, <1>3, <1>4

\* A listener leaves an execution alone, unless it ends the process.
LEMMA ListenersLeaveWorkers ==
  ASSUME TypeOK, NEW l \in listeners, Listen(l), NEW w \in Workers
  PROVE  worker'[w] \in {worker[w], Idle}
BY DEF Listen, MarkFailed, Park, ParkRefused, MarkDead, Dies, TypeOK, Listener

\* Every step keeps the types.
LEMMA TypeStep ==
  ASSUME TypeOK, JobsAreKnown, [Next]_vars
  PROVE  TypeOK'
<1>1. ASSUME NEW r \in Requests, NEW e \in Events, StoreDelivery(r, e)
      PROVE  TypeOK'
  BY <1>1 DEF StoreDelivery, TypeOK, Statuses, RequestState, RequestPoints, database, queue,
     history
<1>2. ASSUME NEW r \in Requests, NEW e \in Events, AckDuplicate(r, e)
      PROVE  TypeOK'
  BY <1>2 DEF AckDuplicate, TypeOK, RequestState, RequestPoints, database, queue, history
<1>3. ASSUME NEW r \in Requests, Enqueue(r)
      PROVE  TypeOK'
  BY <1>3 DEF Enqueue, TypeOK, JobStates, RequestState, RequestPoints, database, queue, history
<1>4. ASSUME NEW r \in Requests, EnqueueFails(r)
      PROVE  TypeOK'
  <2>1. request' \in [Requests -> RequestState]
    BY <1>4 DEF EnqueueFails, TypeOK, RequestState, RequestPoints
  <2>2. QED
    BY <1>4, <2>1 DEF EnqueueFails, TypeOK, JobsAreKnown, Statuses, JobStates, DeliveryOf,
       JobIds, database, queue, history
<1>5. ASSUME NEW w \in Workers, NEW j \in JobIds, Take(w, j)
      PROVE  TypeOK'
  BY <1>5 DEF Take, TypeOK, JobStates, JobIds, Idle, Execution, WorkerPoints, database, queue,
     history
<1>6. ASSUME NEW w \in Workers, Read(w)
      PROVE  TypeOK'
  BY <1>6 DEF Read, TypeOK, Goto, Execution, WorkerPoints, database, queue, history
<1>7. ASSUME NEW w \in Workers, RejectPayload(w)
      PROVE  TypeOK'
  BY <1>7 DEF RejectPayload, TypeOK, Goto, Execution, WorkerPoints, database, queue, history
<1>8. ASSUME NEW w \in Workers, CommitOrder(w)
      PROVE  TypeOK'
  <2>1. worker' \in [Workers -> Execution]
    BY <1>8 DEF CommitOrder, TypeOK, Goto, Execution, WorkerPoints
  <2>2. DeliveryOf(worker[w].job) \in Events
    BY <1>8, WorkerDelivery DEF CommitOrder
  <2>3. QED
    BY <1>8, <2>1, <2>2, KeysAssumption DEF CommitOrder, TypeOK, Statuses, database, queue,
       history
<1>9. ASSUME NEW w \in Workers, FindDuplicateOrder(w)
      PROVE  TypeOK'
  BY <1>9 DEF FindDuplicateOrder, TypeOK, Goto, Execution, WorkerPoints, database, queue,
     history
<1>10. ASSUME NEW w \in Workers, AckDuplicateOrder(w)
      PROVE  TypeOK'
  BY <1>10 DEF AckDuplicateOrder, TypeOK, Statuses, Goto, Execution, WorkerPoints, database,
     queue, history
<1>11. ASSUME NEW w \in Workers, Publish(w)
      PROVE  TypeOK'
  <2>1. worker' \in [Workers -> Execution]
    BY <1>11 DEF Publish, TypeOK, Goto, Execution, WorkerPoints
  <2>2. DeliveryOf(worker[w].job) \in Events
    BY <1>11, WorkerDelivery DEF Publish
  <2>3. QED
    BY <1>11, <2>1, <2>2, KeysAssumption DEF Publish, TypeOK, Statuses, database, queue,
       history
<1>12. ASSUME NEW w \in Workers, ProcessingFails(w)
      PROVE  TypeOK'
  BY <1>12 DEF ProcessingFails, TypeOK, Goto, Execution, WorkerPoints, database, queue, history
<1>13. ASSUME NEW w \in Workers, Finish(w)
      PROVE  TypeOK'
  BY <1>13 DEF Finish, TypeOK, JobStates, JobIds, Idle, Execution, WorkerPoints, database,
     queue, history
<1>14. ASSUME NEW w \in Workers, Fail(w)
      PROVE  TypeOK'
  <2>1. worker[w].job \in JobIds
    BY <1>14, WorkerDelivery DEF Fail
  <2>2. worker' \in [Workers -> Execution]
    BY <1>14 DEF Fail, TypeOK, Idle, Execution, WorkerPoints
  <2>3. listeners' \subseteq Listener
    <3> DEFINE fatal == worker[w].pc = "throwFatal"
               made  == attemptsMade[worker[w].job] + 1
               l     == [worker |-> w, job |-> worker[w].job, made |-> made, fatal |-> fatal,
                         stage |-> "emitted"]
    <3>1. made \in Nat /\ fatal \in BOOLEAN
      BY <2>1 DEF TypeOK
    <3>2. l \in Listener
      <4> HIDE DEF made, fatal
      <4> QED BY <2>1, <3>1 DEF Listener
    <3>3. listeners' \subseteq listeners \cup {l}
      BY <1>14 DEF Fail
    <3>4. QED
      BY <3>2, <3>3 DEF TypeOK
  <2>4. QED
    BY <1>14, <2>1, <2>2, <2>3 DEF Fail, TypeOK, JobStates, database, queue, history
<1>15. ASSUME NEW w \in Workers, Crash(w)
      PROVE  TypeOK'
  BY <1>15, DeadIsTyped DEF Crash, TypeOK, database, history
<1>16. ASSUME NEW j \in JobIds, Promote(j)
      PROVE  TypeOK'
  BY <1>16 DEF Promote, TypeOK, JobStates, database, queue, history
<1>17. ASSUME NEW j \in JobIds, ExpireLock(j)
      PROVE  TypeOK'
  BY <1>17 DEF ExpireLock, TypeOK, database, queue, history
<1>18. ASSUME NEW j \in JobIds, ReleaseStalled(j)
      PROVE  TypeOK'
  BY <1>18 DEF ReleaseStalled, TypeOK, JobStates, database, queue, history
<1>19. ASSUME NEW l \in listeners, MarkFailed(l)
      PROVE  TypeOK'
  BY <1>19 DEF MarkFailed, TypeOK, Statuses, database, queue, history
<1>20. ASSUME NEW l \in listeners, Park(l)
      PROVE  TypeOK'
  BY <1>20 DEF Park, TypeOK, Listener, database, queue, history
<1>21. ASSUME NEW l \in listeners, MarkDead(l)
      PROVE  TypeOK'
  BY <1>21 DEF MarkDead, TypeOK, Statuses, database, queue, history
<1>22. ASSUME NEW c \in Calls, NEW j \in JobIds, FetchLetter(c, j)
      PROVE  TypeOK'
  BY <1>22, KnownDelivery DEF FetchLetter, TypeOK, JobsAreKnown, NamesKnown, JobIds,
     CallState, CallPoints, database, queue, history
<1>23. ASSUME NEW c \in Calls, ResetDelivery(c)
      PROVE  TypeOK'
  <2>1. call' \in [Calls -> CallState]
    BY <1>23 DEF ResetDelivery, TypeOK, CallState, CallPoints
  <2>2. QED
    BY <1>23, <2>1 DEF ResetDelivery, TypeOK, JobsAreKnown, Statuses, JobStates, DeliveryOf,
       JobIds, database, queue, history
<1>24. ASSUME NEW c \in Calls, Requeue(c)
      PROVE  TypeOK'
  BY <1>24 DEF Requeue, TypeOK, JobStates, CallState, CallPoints, database, queue, history
<1>25. ASSUME NEW c \in Calls, RemoveLetter(c)
      PROVE  TypeOK'
  BY <1>25 DEF RemoveLetter, TypeOK, CallState, CallPoints, database, queue, history
<1>26. ASSUME NEW c \in Calls, CallFails(c)
      PROVE  TypeOK'
  <2>1. call' \in [Calls -> CallState]
    BY <1>26 DEF CallFails, TypeOK, CallState, CallPoints
  <2>2. QED
    BY <1>26, <2>1 DEF CallFails, TypeOK, JobsAreKnown, Statuses, JobStates, DeliveryOf,
       JobIds, database, queue, history
<1>28. ASSUME NEW l \in listeners, ParkRefused(l)
      PROVE  TypeOK'
  <2>1. l.worker \in Workers
    BY DEF TypeOK, Listener
  <2>2. QED
    BY <1>28, <2>1, DeadIsTyped DEF ParkRefused, TypeOK, database
<1>27. CASE UNCHANGED vars
  BY <1>27 DEF vars, TypeOK, database, queue, history
<1>29. QED
  BY <1>1, <1>2, <1>3, <1>4, <1>5, <1>6, <1>7, <1>8, <1>9, <1>10, <1>11, <1>12, <1>13, <1>14,
     <1>15, <1>16, <1>17, <1>18, <1>19, <1>20, <1>21, <1>22, <1>23, <1>24, <1>25, <1>26, <1>27,
     <1>28
     DEF Next, Serve, Work, Listen, RetryCall

\* Every step keeps job ids known: a job is added before anyone can name it, and
\* no job is forgotten.
LEMMA KnownStep ==
  ASSUME TypeOK, JobsAreKnown, [Next]_vars
  PROVE  JobsAreKnown'
<1>1. ASSUME NEW r \in Requests, NEW e \in Events, StoreDelivery(r, e)
      PROVE  JobsAreKnown'
  BY <1>1 DEF StoreDelivery, JobsAreKnown, RequestsKnown, WorkersKnown, NamesKnown,
     CallsKnown, TypeOK, RequestState, queue
<1>2. ASSUME NEW r \in Requests, NEW e \in Events, AckDuplicate(r, e)
      PROVE  JobsAreKnown'
  BY <1>2 DEF AckDuplicate, JobsAreKnown, RequestsKnown, WorkersKnown, NamesKnown, CallsKnown,
     TypeOK, RequestState, queue
<1>3. ASSUME NEW r \in Requests, Enqueue(r)
      PROVE  JobsAreKnown'
  BY <1>3, IdsAssumption DEF Enqueue, JobsAreKnown, RequestsKnown, WorkersKnown, NamesKnown,
     CallsKnown, TypeOK, RequestState, JobIds, queue
<1>4. ASSUME NEW r \in Requests, EnqueueFails(r)
      PROVE  JobsAreKnown'
  BY <1>4 DEF EnqueueFails, JobsAreKnown, RequestsKnown, WorkersKnown, NamesKnown, CallsKnown,
     TypeOK, RequestState, queue
<1>5. ASSUME NEW w \in Workers, NEW j \in JobIds, Take(w, j)
      PROVE  JobsAreKnown'
  BY <1>5 DEF Take, JobsAreKnown, RequestsKnown, WorkersKnown, NamesKnown, CallsKnown, TypeOK,
     Idle, Execution, queue
<1>6. ASSUME NEW w \in Workers, Read(w)
      PROVE  JobsAreKnown'
  BY <1>6 DEF Read, JobsAreKnown, RequestsKnown, WorkersKnown, NamesKnown, CallsKnown, TypeOK,
     Goto, Execution, Idle, queue
<1>7. ASSUME NEW w \in Workers, RejectPayload(w)
      PROVE  JobsAreKnown'
  BY <1>7 DEF RejectPayload, JobsAreKnown, RequestsKnown, WorkersKnown, NamesKnown,
     CallsKnown, TypeOK, Goto, Execution, Idle, queue
<1>8. ASSUME NEW w \in Workers, CommitOrder(w)
      PROVE  JobsAreKnown'
  BY <1>8 DEF CommitOrder, JobsAreKnown, RequestsKnown, WorkersKnown, NamesKnown, CallsKnown,
     TypeOK, Goto, Execution, Idle, queue
<1>9. ASSUME NEW w \in Workers, FindDuplicateOrder(w)
      PROVE  JobsAreKnown'
  BY <1>9 DEF FindDuplicateOrder, JobsAreKnown, RequestsKnown, WorkersKnown, NamesKnown,
     CallsKnown, TypeOK, Goto, Execution, Idle, queue
<1>10. ASSUME NEW w \in Workers, AckDuplicateOrder(w)
      PROVE  JobsAreKnown'
  BY <1>10 DEF AckDuplicateOrder, JobsAreKnown, RequestsKnown, WorkersKnown, NamesKnown,
     CallsKnown, TypeOK, Goto, Execution, Idle, queue
<1>11. ASSUME NEW w \in Workers, Publish(w)
      PROVE  JobsAreKnown'
  BY <1>11 DEF Publish, JobsAreKnown, RequestsKnown, WorkersKnown, NamesKnown, CallsKnown,
     TypeOK, Goto, Execution, Idle, queue
<1>12. ASSUME NEW w \in Workers, ProcessingFails(w)
      PROVE  JobsAreKnown'
  BY <1>12 DEF ProcessingFails, JobsAreKnown, RequestsKnown, WorkersKnown, NamesKnown,
     CallsKnown, TypeOK, Goto, Execution, Idle, queue
<1>13. ASSUME NEW w \in Workers, Finish(w)
      PROVE  JobsAreKnown'
  <2>1. RequestsKnown'
    BY <1>13 DEF Finish, JobsAreKnown, RequestsKnown
  <2>2. WorkersKnown'
    BY <1>13 DEF Finish, JobsAreKnown, WorkersKnown, TypeOK, Idle, queue
  <2>3. NamesKnown'
    BY <1>13 DEF Finish, JobsAreKnown, NamesKnown, WorkersKnown, TypeOK, Listener, JobIds, Idle,
       queue
  <2>4. CallsKnown'
    BY <1>13, KnownDelivery DEF Finish, JobsAreKnown, CallsKnown, NamesKnown, WorkersKnown,
       TypeOK, JobIds, CallState, Idle, queue
  <2>5. QED
    BY <2>1, <2>2, <2>3, <2>4 DEF JobsAreKnown
<1>14. ASSUME NEW w \in Workers, Fail(w)
      PROVE  JobsAreKnown'
  <2>1. RequestsKnown'
    BY <1>14 DEF Fail, JobsAreKnown, RequestsKnown
  <2>2. WorkersKnown'
    BY <1>14 DEF Fail, JobsAreKnown, WorkersKnown, TypeOK, Idle, queue
  <2>3. NamesKnown'
    BY <1>14 DEF Fail, JobsAreKnown, NamesKnown, WorkersKnown, TypeOK, Listener, JobIds, Idle,
       queue
  <2>4. CallsKnown'
    BY <1>14, KnownDelivery DEF Fail, JobsAreKnown, CallsKnown, NamesKnown, WorkersKnown,
       TypeOK, JobIds, CallState, Idle, queue
  <2>5. QED
    BY <2>1, <2>2, <2>3, <2>4 DEF JobsAreKnown
<1>15. ASSUME NEW w \in Workers, Crash(w)
      PROVE  JobsAreKnown'
  BY <1>15 DEF Crash, Dies, JobsAreKnown, RequestsKnown, WorkersKnown, NamesKnown, CallsKnown,
     TypeOK, Idle, queue
<1>16. ASSUME NEW j \in JobIds, Promote(j)
      PROVE  JobsAreKnown'
  BY <1>16 DEF Promote, JobsAreKnown, RequestsKnown, WorkersKnown, NamesKnown, CallsKnown,
     TypeOK, queue
<1>17. ASSUME NEW j \in JobIds, ExpireLock(j)
      PROVE  JobsAreKnown'
  BY <1>17 DEF ExpireLock, JobsAreKnown, RequestsKnown, WorkersKnown, NamesKnown, CallsKnown,
     TypeOK, queue
<1>18. ASSUME NEW j \in JobIds, ReleaseStalled(j)
      PROVE  JobsAreKnown'
  BY <1>18 DEF ReleaseStalled, JobsAreKnown, RequestsKnown, WorkersKnown, NamesKnown,
     CallsKnown, TypeOK, queue
<1>19. ASSUME NEW l \in listeners, MarkFailed(l)
      PROVE  JobsAreKnown'
  BY <1>19 DEF MarkFailed, JobsAreKnown, RequestsKnown, WorkersKnown, NamesKnown, CallsKnown,
     TypeOK, queue
<1>20. ASSUME NEW l \in listeners, Park(l)
      PROVE  JobsAreKnown'
  <2>1. RequestsKnown'
    BY <1>20 DEF Park, JobsAreKnown, RequestsKnown
  <2>2. WorkersKnown'
    BY <1>20 DEF Park, JobsAreKnown, WorkersKnown, TypeOK, Idle, queue
  <2>3. NamesKnown'
    BY <1>20 DEF Park, JobsAreKnown, NamesKnown, WorkersKnown, TypeOK, Listener, Idle, queue
  <2>4. CallsKnown'
    BY <1>20, KnownDelivery DEF Park, JobsAreKnown, CallsKnown, NamesKnown, WorkersKnown,
       TypeOK, JobIds, CallState, Idle, queue
  <2>5. QED
    BY <2>1, <2>2, <2>3, <2>4 DEF JobsAreKnown
<1>21. ASSUME NEW l \in listeners, MarkDead(l)
      PROVE  JobsAreKnown'
  BY <1>21 DEF MarkDead, JobsAreKnown, RequestsKnown, WorkersKnown, NamesKnown, CallsKnown,
     TypeOK, queue
<1>22. ASSUME NEW c \in Calls, NEW j \in JobIds, FetchLetter(c, j)
      PROVE  JobsAreKnown'
  <2>1. RequestsKnown'
    BY <1>22 DEF FetchLetter, JobsAreKnown, RequestsKnown
  <2>2. WorkersKnown'
    BY <1>22 DEF FetchLetter, JobsAreKnown, WorkersKnown, TypeOK, Idle, queue
  <2>3. NamesKnown'
    BY <1>22 DEF FetchLetter, JobsAreKnown, NamesKnown, WorkersKnown, TypeOK, Listener, Idle,
       queue
  <2>4. CallsKnown'
    BY <1>22, KnownDelivery DEF FetchLetter, JobsAreKnown, CallsKnown, NamesKnown,
       WorkersKnown, TypeOK, JobIds, CallState, Idle, queue
  <2>5. QED
    BY <2>1, <2>2, <2>3, <2>4 DEF JobsAreKnown
<1>23. ASSUME NEW c \in Calls, ResetDelivery(c)
      PROVE  JobsAreKnown'
  BY <1>23 DEF ResetDelivery, JobsAreKnown, RequestsKnown, WorkersKnown, NamesKnown,
     CallsKnown, TypeOK, CallState, JobIds, queue
<1>24. ASSUME NEW c \in Calls, Requeue(c)
      PROVE  JobsAreKnown'
  BY <1>24 DEF Requeue, JobsAreKnown, RequestsKnown, WorkersKnown, NamesKnown, CallsKnown,
     TypeOK, CallState, JobIds, queue
<1>25. ASSUME NEW c \in Calls, RemoveLetter(c)
      PROVE  JobsAreKnown'
  BY <1>25 DEF RemoveLetter, JobsAreKnown, RequestsKnown, WorkersKnown, NamesKnown,
     CallsKnown, TypeOK, CallState, JobIds, queue
<1>26. ASSUME NEW c \in Calls, CallFails(c)
      PROVE  JobsAreKnown'
  BY <1>26 DEF CallFails, JobsAreKnown, RequestsKnown, WorkersKnown, NamesKnown, CallsKnown,
     TypeOK, CallState, JobIds, queue
<1>28. ASSUME NEW l \in listeners, ParkRefused(l)
      PROVE  JobsAreKnown'
  BY <1>28 DEF ParkRefused, Dies, JobsAreKnown, RequestsKnown, WorkersKnown, NamesKnown,
     CallsKnown, TypeOK, Idle, queue
<1>27. CASE UNCHANGED vars
  BY <1>27 DEF vars, JobsAreKnown, RequestsKnown, WorkersKnown, NamesKnown, CallsKnown, queue
<1>29. QED
  BY <1>1, <1>2, <1>3, <1>4, <1>5, <1>6, <1>7, <1>8, <1>9, <1>10, <1>11, <1>12, <1>13, <1>14,
     <1>15, <1>16, <1>17, <1>18, <1>19, <1>20, <1>21, <1>22, <1>23, <1>24, <1>25, <1>26, <1>27,
     <1>28
     DEF Next, Serve, Work, Listen, RetryCall

\* The delivery of a job never changes once the job was added: retry adds its job
\* after it read the letter.
LEMMA DeliveryFixed ==
  ASSUME TypeOK, JobsAreKnown, [Next]_vars, NEW j \in JobIds, jobState[j] # "absent"
  PROVE  DeliveryOf(j)' = DeliveryOf(j)
<1>1. CASE UNCHANGED call
  BY <1>1 DEF DeliveryOf
<1>2. ASSUME NEW c \in Calls, NEW i \in JobIds, FetchLetter(c, i)
      PROVE  DeliveryOf(j)' = DeliveryOf(j)
  BY <1>2 DEF FetchLetter, JobsAreKnown, CallsKnown, DeliveryOf, TypeOK
<1>3. ASSUME NEW c \in Calls, ResetDelivery(c) \/ Requeue(c) \/ RemoveLetter(c) \/ CallFails(c)
      PROVE  DeliveryOf(j)' = DeliveryOf(j)
  <2>1. ASSUME NEW d \in Calls
        PROVE  call'[d].event = call[d].event
    <3>1. PICK pc \in CallPoints : call' = [call EXCEPT ![c].pc = pc]
      BY <1>3 DEF ResetDelivery, Requeue, RemoveLetter, CallFails, CallPoints
    <3>2. QED
      BY <3>1 DEF TypeOK, CallState
  <2>2. QED
    BY <2>1 DEF DeliveryOf, JobIds
<1>4. CASE UNCHANGED vars
  BY <1>1, <1>4 DEF vars
<1>5. ASSUME NEW r \in Requests, Serve(r)
      PROVE  UNCHANGED call
  BY <1>5 DEF Serve, StoreDelivery, AckDuplicate, Enqueue, EnqueueFails
<1>6. ASSUME NEW w \in Workers, Work(w) \/ Crash(w)
      PROVE  UNCHANGED call
  BY <1>6 DEF Work, Take, Read, RejectPayload, CommitOrder, FindDuplicateOrder,
     AckDuplicateOrder, Publish, ProcessingFails, Finish, Fail, Crash, Dies
<1>7. ASSUME NEW i \in JobIds, Promote(i) \/ ExpireLock(i) \/ ReleaseStalled(i)
      PROVE  UNCHANGED call
  BY <1>7 DEF Promote, ExpireLock, ReleaseStalled
<1>8. ASSUME NEW l \in listeners, Listen(l)
      PROVE  UNCHANGED call
  BY <1>8 DEF Listen, MarkFailed, Park, ParkRefused, Dies, MarkDead
<1>9. QED
  BY <1>1, <1>2, <1>3, <1>4, <1>5, <1>6, <1>7, <1>8 DEF Next, RetryCall

\* An order that was created is there for good, by the delivery that created it.
LEMMA OrdersStay ==
  ASSUME TypeOK, JobsAreKnown, [Next]_vars, NEW k \in Keys, orders[k] # None
  PROVE  orders'[k] = orders[k]
<1>1. ASSUME NEW w \in Workers, CommitOrder(w)
      PROVE  orders'[k] = orders[k]
  BY <1>1 DEF CommitOrder, TypeOK
<1>2. CASE UNCHANGED orders
  BY <1>2
<1>3. ASSUME NEW w \in Workers, Work(w) \/ Crash(w)
      PROVE  UNCHANGED orders \/ CommitOrder(w)
  BY <1>3 DEF Work, Take, Read, RejectPayload, FindDuplicateOrder, AckDuplicateOrder, Publish,
     ProcessingFails, Finish, Fail, Crash, Dies, database
<1>4. QED
  BY <1>1, <1>2, <1>3 DEF Next, Serve, Listen, RetryCall, vars, database, StoreDelivery,
     AckDuplicate, Enqueue, EnqueueFails, Promote, ExpireLock, ReleaseStalled, MarkFailed,
     Park, ParkRefused, Dies, MarkDead, FetchLetter, ResetDelivery, Requeue, RemoveLetter,
     CallFails

\* A stored delivery is never deleted: whoever writes a status writes one of
\* the four that the column has.
LEMMA RowsStay ==
  ASSUME TypeOK, [Next]_vars, NEW e \in Events, delivery[e] # "absent"
  PROVE  delivery'[e] # "absent"
<1>1. ASSUME NEW w \in Workers, Work(w) \/ Crash(w)
      PROVE  delivery'[e] # "absent"
  BY <1>1 DEF TypeOK, Work, Take, Read, RejectPayload, CommitOrder, FindDuplicateOrder,
     AckDuplicateOrder, Publish, ProcessingFails, Finish, Fail, Crash, Dies, database
<1>2. ASSUME NEW l \in listeners, Listen(l)
      PROVE  delivery'[e] # "absent"
  BY <1>2 DEF TypeOK, Listen, MarkFailed, Park, ParkRefused, Dies, MarkDead, database
<1>3. QED
  BY <1>1, <1>2 DEF Next, Serve, RetryCall, vars, database, TypeOK, StoreDelivery,
     AckDuplicate, Enqueue, EnqueueFails, Promote, ExpireLock, ReleaseStalled, FetchLetter,
     ResetDelivery, Requeue, RemoveLetter, CallFails

\* Whoever is about to write a delivery row still has one.
LEMMA RowsStep ==
  ASSUME TypeOK, JobsAreKnown, RowsExist, [Next]_vars
  PROVE  RowsExist'
<1>1. ASSUME NEW r \in Requests, request'[r].pc = "enqueue"
      PROVE  delivery'[request'[r].event] # "absent"
  <2>1. ASSUME NEW q \in Requests, Serve(q)
        PROVE  delivery'[request'[r].event] # "absent"
    BY <1>1, <2>1 DEF Serve, StoreDelivery, AckDuplicate, Enqueue, EnqueueFails, TypeOK,
       RequestState, RowsExist, JobsAreKnown, RequestsKnown, database
  <2>2. CASE UNCHANGED request
    BY <1>1, <2>2, RowsStay DEF RowsExist, JobsAreKnown, RequestsKnown
  <2>3. QED
    BY <2>1, <2>2 DEF Next, Work, Listen, RetryCall, vars, Take, Read, RejectPayload,
       CommitOrder, FindDuplicateOrder, AckDuplicateOrder, Publish, ProcessingFails, Finish,
       Fail, Crash, Dies, Promote, ExpireLock, ReleaseStalled, MarkFailed, Park, ParkRefused,
       MarkDead, FetchLetter, ResetDelivery, Requeue, RemoveLetter, CallFails
<1>2. ASSUME NEW j \in JobIds, jobState'[j] # "absent"
      PROVE  (delivery[DeliveryOf(j)] # "absent")'
  <2>1. CASE jobState[j] # "absent"
    BY <2>1, KnownDelivery, DeliveryFixed, RowsStay DEF RowsExist
  <2>2. CASE jobState[j] = "absent"
    <3>1. \/ \E r \in Requests : Enqueue(r) /\ j = request[r].event
          \/ j \in Calls /\ Requeue(j)
      <4>1. ASSUME NEW w \in Workers, Work(w) \/ Crash(w)
            PROVE  FALSE
        BY <1>2, <2>2, <4>1 DEF Work, Take, Read, RejectPayload, CommitOrder,
           FindDuplicateOrder, AckDuplicateOrder, Publish, ProcessingFails, Finish, Fail,
           Crash, Dies, queue, TypeOK, JobsAreKnown, WorkersKnown, Idle
      <4>2. QED
        BY <1>2, <2>2, <4>1 DEF Next, Serve, StoreDelivery, AckDuplicate, Enqueue,
           EnqueueFails, Promote, ExpireLock, ReleaseStalled, Listen, MarkFailed, Park,
           ParkRefused, Dies, MarkDead, RetryCall, FetchLetter, ResetDelivery, Requeue,
           RemoveLetter, CallFails, vars, queue, TypeOK
    <3>2. ASSUME NEW r \in Requests, Enqueue(r), j = request[r].event
          PROVE  (delivery[DeliveryOf(j)] # "absent")'
      BY <3>2 DEF Enqueue, RowsExist, JobsAreKnown, RequestsKnown, DeliveryOf, database
    <3>3. ASSUME j \in Calls, Requeue(j)
          PROVE  (delivery[DeliveryOf(j)] # "absent")'
      BY <3>3, IdsAssumption DEF Requeue, RowsExist, DeliveryOf, database, TypeOK, CallState
    <3>4. QED
      BY <3>1, <3>2, <3>3
  <2>3. QED
    BY <2>1, <2>2
<1>3. ASSUME NEW c \in Calls, call'[c].pc # "idle"
      PROVE  delivery'[call'[c].event] # "absent"
  <2>1. CASE call[c].pc # "idle"
    <3>1. call'[c].event = call[c].event
      <4>1. ASSUME NEW d \in Calls, RetryCall(d)
            PROVE  call'[c].event = call[c].event
        BY <2>1, <4>1 DEF RetryCall, FetchLetter, ResetDelivery, Requeue, RemoveLetter,
           CallFails, TypeOK, CallState
      <4>2. QED
        BY <4>1 DEF Next, Serve, Work, Listen, vars, StoreDelivery, AckDuplicate, Enqueue,
           EnqueueFails, Take, Read, RejectPayload, CommitOrder, FindDuplicateOrder,
           AckDuplicateOrder, Publish, ProcessingFails, Finish, Fail, Crash, Dies, Promote,
           ExpireLock, ReleaseStalled, MarkFailed, Park, ParkRefused, MarkDead
    <3>2. QED
      BY <2>1, <3>1, RowsStay DEF RowsExist, JobsAreKnown, CallsKnown
  <2>2. CASE call[c].pc = "idle"
    <3>1. PICK i \in JobIds : FetchLetter(c, i)
      <4>1. ASSUME NEW d \in Calls, RetryCall(d)
            PROVE  \E i \in JobIds : FetchLetter(c, i)
        BY <1>3, <2>2, <4>1 DEF RetryCall, FetchLetter, ResetDelivery, Requeue, RemoveLetter,
           CallFails, TypeOK, CallState
      <4>2. QED
        BY <1>3, <2>2, <4>1 DEF Next, Serve, Work, Listen, vars, StoreDelivery, AckDuplicate,
           Enqueue, EnqueueFails, Take, Read, RejectPayload, CommitOrder, FindDuplicateOrder,
           AckDuplicateOrder, Publish, ProcessingFails, Finish, Fail, Crash, Dies, Promote,
           ExpireLock, ReleaseStalled, MarkFailed, Park, ParkRefused, MarkDead
    <3>2. QED
      BY <3>1 DEF FetchLetter, TypeOK, RowsExist, JobsAreKnown, NamesKnown, database
  <2>3. QED
    BY <2>1, <2>2
<1>4. QED
  BY <1>1, <1>2, <1>3 DEF RowsExist

-----------------------------------------------------------------------------
(* Orders, successes and announcements.                                    *)

\* PROCESSED is written, and a job completed, only behind the order.
LEMMA SuccessStep ==
  ASSUME TypeOK, JobsAreKnown, SuccessMeansOrder, WorkersSeeOrder, [Next]_vars
  PROVE  SuccessMeansOrder'
<1>1. ASSUME NEW e \in Events, delivery'[e] = "PROCESSED"
      PROVE  orders'[KeyOf[e]] # None
  <2>1. KeyOf[e] \in Keys
    BY KeysAssumption
  <2>2. CASE delivery[e] = "PROCESSED"
    BY <2>1, <2>2, OrdersStay DEF SuccessMeansOrder
  <2>3. ASSUME NEW w \in Workers, CommitOrder(w), delivery[e] # "PROCESSED"
        PROVE  orders'[KeyOf[e]] # None
    BY <1>1, <2>3, <2>1, NoneAssumption DEF CommitOrder, TypeOK, JobIds
  <2>4. ASSUME NEW w \in Workers, AckDuplicateOrder(w), delivery[e] # "PROCESSED"
        PROVE  orders'[KeyOf[e]] # None
    BY <1>1, <2>4, <2>1 DEF AckDuplicateOrder, TypeOK, WorkersSeeOrder
  <2>5. \/ delivery[e] = "PROCESSED"
        \/ \E w \in Workers : CommitOrder(w) \/ AckDuplicateOrder(w)
    <3>1. ASSUME NEW w \in Workers, Work(w) \/ Crash(w)
          PROVE  UNCHANGED delivery \/ CommitOrder(w) \/ AckDuplicateOrder(w)
      BY <3>1 DEF Work, Take, Read, RejectPayload, FindDuplicateOrder, Publish,
         ProcessingFails, Finish, Fail, Crash, Dies, database
    <3>2. ASSUME NEW l \in listeners, Listen(l)
          PROVE  delivery[e] = "PROCESSED"
      BY <1>1, <3>2 DEF Listen, MarkFailed, Park, ParkRefused, Dies, MarkDead, database, TypeOK
    <3>3. QED
      BY <1>1, <3>1, <3>2 DEF Next, Serve, RetryCall, vars, database, TypeOK, StoreDelivery,
         AckDuplicate, Enqueue, EnqueueFails, Promote, ExpireLock, ReleaseStalled,
         FetchLetter, ResetDelivery, Requeue, RemoveLetter, CallFails
  <2>6. QED
    BY <2>2, <2>3, <2>4, <2>5
<1>2. ASSUME NEW j \in JobIds, jobState'[j] = "completed"
      PROVE  (orders[KeyOf[DeliveryOf(j)]] # None)'
  <2>1. jobState[j] # "absent" /\ orders[KeyOf[DeliveryOf(j)]] # None
    <3>1. CASE jobState[j] = "completed"
      BY <3>1 DEF SuccessMeansOrder
    <3>2. ASSUME NEW w \in Workers, Finish(w), jobState[j] # "completed"
          PROVE  jobState[j] # "absent" /\ orders[KeyOf[DeliveryOf(j)]] # None
      <4>1. worker[w].job = j
        BY <1>2, <3>2, WorkerDelivery DEF Finish, TypeOK
      <4>2. QED
        BY <3>2, <4>1, WorkerDelivery DEF Finish, WorkersSeeOrder
    <3>3. \/ jobState[j] = "completed"
          \/ \E w \in Workers : Finish(w)
      <4>1. ASSUME NEW w \in Workers, Work(w) \/ Crash(w), ~Finish(w)
            PROVE  jobState[j] = "completed"
        BY <1>2, <4>1 DEF Work, Take, Read, RejectPayload, CommitOrder, FindDuplicateOrder,
           AckDuplicateOrder, Publish, ProcessingFails, Fail, Crash, Dies, queue, TypeOK
      <4>2. QED
        BY <1>2, <4>1 DEF Next, Serve, RetryCall, Listen, vars, queue, TypeOK, StoreDelivery,
           AckDuplicate, Enqueue, EnqueueFails, Promote, ExpireLock, ReleaseStalled,
           MarkFailed, Park, ParkRefused, Dies, MarkDead, FetchLetter, ResetDelivery, Requeue,
           RemoveLetter, CallFails, JobIds
    <3>4. QED
      BY <3>1, <3>2, <3>3
  <2>2. KeyOf[DeliveryOf(j)] \in Keys
    BY <2>1, KnownDelivery, KeysAssumption
  <2>3. QED
    BY <2>1, <2>2, DeliveryFixed, OrdersStay
<1>3. QED
  BY <1>1, <1>2 DEF SuccessMeansOrder

\* A worker reaches the points behind the order only when it is there: by its own
\* commit, by P2002, or by a delivery that reads PROCESSED.
LEMMA WorkersStep ==
  ASSUME TypeOK, JobsAreKnown, SuccessMeansOrder, WorkersSeeOrder, [Next]_vars
  PROVE  WorkersSeeOrder'
<1> SUFFICES ASSUME NEW w \in Workers, worker'[w].pc \in {"publish", "ackDuplicate", "finish"}
             PROVE  (orders[KeyOf[DeliveryOf(worker[w].job)]] # None)'
  BY DEF WorkersSeeOrder
<1> DEFINE j == worker[w].job
<1>1. worker[w].pc # "idle" /\ worker'[w].job = j
  <2>1. ASSUME NEW v \in Workers, Work(v) \/ Crash(v)
        PROVE  worker[w].pc # "idle" /\ worker'[w].job = j
    BY <2>1 DEF Work, Take, Read, RejectPayload, CommitOrder, FindDuplicateOrder,
       AckDuplicateOrder, Publish, ProcessingFails, Finish, Fail, Crash, Dies, TypeOK,
       Execution, Idle, Goto
  <2>2. CASE UNCHANGED worker
    BY <2>2
  <2>3. ASSUME NEW l \in listeners, Listen(l)
        PROVE  worker[w].pc # "idle" /\ worker'[w].job = j
    BY <2>3, ListenersLeaveWorkers DEF Idle
  <2>4. QED
    BY <2>1, <2>2, <2>3 DEF Next, Serve, RetryCall, vars, StoreDelivery, AckDuplicate,
       Enqueue, EnqueueFails, Promote, ExpireLock, ReleaseStalled, FetchLetter, ResetDelivery,
       Requeue, RemoveLetter, CallFails
<1>2. j \in JobIds /\ jobState[j] # "absent" /\ DeliveryOf(j) \in Events
  BY <1>1, WorkerDelivery
<1>3. KeyOf[DeliveryOf(j)] \in Keys
  BY <1>2, KeysAssumption
<1>4. orders[KeyOf[DeliveryOf(j)]] # None \/ CommitOrder(w)
  <2>1. ASSUME NEW v \in Workers, Work(v) \/ Crash(v), ~CommitOrder(w)
        PROVE  orders[KeyOf[DeliveryOf(j)]] # None
    BY <2>1, <1>2 DEF Work, Take, Read, RejectPayload, CommitOrder, FindDuplicateOrder,
       AckDuplicateOrder, Publish, ProcessingFails, Finish, Fail, Crash, Dies, TypeOK,
       Execution, Idle, Goto, WorkersSeeOrder, SuccessMeansOrder
  <2>2. CASE UNCHANGED worker
    BY <2>2 DEF WorkersSeeOrder
  <2>3. ASSUME NEW l \in listeners, Listen(l)
        PROVE  orders[KeyOf[DeliveryOf(j)]] # None
    BY <2>3, ListenersLeaveWorkers DEF Idle, WorkersSeeOrder
  <2>4. QED
    BY <2>1, <2>2, <2>3 DEF Next, Serve, RetryCall, vars, StoreDelivery, AckDuplicate,
       Enqueue, EnqueueFails, Promote, ExpireLock, ReleaseStalled, FetchLetter, ResetDelivery,
       Requeue, RemoveLetter, CallFails
<1>5. orders'[KeyOf[DeliveryOf(j)]] # None
  <2>1. CASE CommitOrder(w)
    BY <2>1, <1>2, <1>3, NoneAssumption DEF CommitOrder, TypeOK, JobIds
  <2>2. QED
    BY <1>3, <1>4, <2>1, OrdersStay
<1>6. QED
  BY <1>1, <1>2, <1>5, DeliveryFixed

\* Publish is the only step that announces, and the execution that committed the
\* order is the only one at it.
LEMMA PublishersStep ==
  ASSUME TypeOK, JobsAreKnown, WorkersSeeOrder, OnePublisher, AnnouncedOnceAfterCommit, [Next]_vars
  PROVE  OnePublisher' /\ AnnouncedOnceAfterCommit'
<1> DEFINE Key(w) == KeyOf[DeliveryOf(worker[w].job)]
<1>1. ASSUME NEW w \in Workers, worker[w].pc = "publish"
      PROVE  Key(w) \in Keys /\ orders[Key(w)] # None /\ announced[Key(w)] = 0
  BY <1>1, WorkerDelivery, KeysAssumption DEF WorkersSeeOrder, OnePublisher
<1>2. ASSUME NEW w \in Workers, worker'[w].pc = "publish", ~CommitOrder(w)
      PROVE  worker[w].pc = "publish" /\ ~Publish(w) /\ Key(w)' = Key(w)
  <2>1. worker[w].pc = "publish" /\ worker'[w] = worker[w] /\ ~Publish(w)
    <3>1. ASSUME NEW v \in Workers, Work(v) \/ Crash(v)
          PROVE  worker[w].pc = "publish" /\ worker'[w] = worker[w] /\ ~Publish(w)
      BY <1>2, <3>1 DEF Work, Take, Read, RejectPayload, CommitOrder, FindDuplicateOrder,
         AckDuplicateOrder, Publish, ProcessingFails, Finish, Fail, Crash, Dies, TypeOK,
         Execution, Idle, Goto
    <3>2. CASE UNCHANGED worker
      BY <1>2, <3>2 DEF Publish, Goto, TypeOK, Execution
    <3>3. ASSUME NEW l \in listeners, Listen(l)
          PROVE  worker[w].pc = "publish" /\ worker'[w] = worker[w] /\ ~Publish(w)
      <4>1. worker[w].pc = "publish" /\ worker'[w] = worker[w]
        BY <1>2, <3>3, ListenersLeaveWorkers DEF Idle
      <4>2. QED
        BY <4>1 DEF Publish, Goto, TypeOK, Execution
    <3>4. QED
      BY <3>1, <3>2, <3>3 DEF Next, Serve, RetryCall, vars, StoreDelivery, AckDuplicate,
         Enqueue, EnqueueFails, Promote, ExpireLock, ReleaseStalled, FetchLetter,
         ResetDelivery, Requeue, RemoveLetter, CallFails
  <2>2. QED
    BY <2>1, WorkerDelivery, DeliveryFixed
<1>3. ASSUME NEW w \in Workers, CommitOrder(w)
      PROVE  /\ Key(w) \in Keys /\ orders[Key(w)] = None /\ announced[Key(w)] = 0
             /\ announced' = announced
             /\ Key(w)' = Key(w)
             /\ \A v \in Workers \ {w} : worker'[v] = worker[v]
  <2>1. worker[w].pc # "idle" /\ orders[Key(w)] = None /\ announced' = announced
    BY <1>3 DEF CommitOrder
  <2>2. Key(w) \in Keys
    BY <2>1, WorkerDelivery, KeysAssumption
  <2>3. worker'[w].job = worker[w].job /\ \A v \in Workers \ {w} : worker'[v] = worker[v]
    BY <1>3 DEF CommitOrder, Goto, TypeOK, Execution
  <2>4. announced[Key(w)] = 0
    BY <2>1, <2>2 DEF AnnouncedOnceAfterCommit, TypeOK
  <2>5. Key(w)' = Key(w)
    BY <2>1, <2>3, WorkerDelivery, DeliveryFixed
  <2>6. QED
    BY <2>1, <2>2, <2>3, <2>4, <2>5
<1>4. ASSUME NEW k \in Keys, announced'[k] # announced[k]
      PROVE  \E w \in Workers : Publish(w) /\ k = Key(w) /\ announced'[k] = announced[k] + 1
  <2>1. ASSUME NEW w \in Workers, Work(w) \/ Crash(w)
        PROVE  Publish(w)
    BY <1>4, <2>1 DEF Work, Take, Read, RejectPayload, CommitOrder, FindDuplicateOrder,
       AckDuplicateOrder, ProcessingFails, Finish, Fail, Crash, Dies
  <2>2. ASSUME NEW w \in Workers, Publish(w)
        PROVE  k = Key(w) /\ announced'[k] = announced[k] + 1
    BY <1>4, <2>2 DEF Publish, TypeOK
  <2>3. QED
    BY <1>4, <2>1, <2>2 DEF Next, Serve, RetryCall, Listen, vars, StoreDelivery, AckDuplicate,
       Enqueue, EnqueueFails, Promote, ExpireLock, ReleaseStalled, MarkFailed, Park,
       ParkRefused, Dies, MarkDead, FetchLetter, ResetDelivery, Requeue, RemoveLetter,
       CallFails
<1>5. AnnouncedOnceAfterCommit'
  <2> SUFFICES ASSUME NEW k \in Keys
               PROVE  announced'[k] <= 1 /\ (announced'[k] = 1 => orders'[k] # None)
    BY DEF AnnouncedOnceAfterCommit
  <2>1. CASE announced'[k] = announced[k]
    BY <2>1, OrdersStay DEF AnnouncedOnceAfterCommit
  <2>2. ASSUME NEW w \in Workers, Publish(w), k = Key(w), announced'[k] = announced[k] + 1
        PROVE  announced'[k] <= 1 /\ orders'[k] # None
    BY <2>2, <1>1, OrdersStay DEF Publish
  <2>3. QED
    BY <2>1, <2>2, <1>4
<1>6. OnePublisher'
  <2> SUFFICES ASSUME NEW w \in Workers, worker'[w].pc = "publish"
               PROVE  /\ announced'[Key(w)'] = 0
                      /\ \A v \in Workers \ {w} :
                           worker'[v].pc = "publish" => Key(v)' # Key(w)'
    BY DEF OnePublisher
  <2>1. CASE CommitOrder(w)
    <3>1. ASSUME NEW v \in Workers \ {w}, worker'[v].pc = "publish"
          PROVE  Key(v)' # Key(w)'
      BY <2>1, <3>1, <1>1, <1>2, <1>3
    <3>2. QED
      BY <2>1, <3>1, <1>3
  <2>2. CASE ~CommitOrder(w)
    <3>1. announced[Key(w)] = 0 /\ Key(w)' = Key(w) /\ Key(w) \in Keys
          /\ worker[w].pc = "publish" /\ ~Publish(w)
      BY <2>2, <1>1, <1>2
    <3>2. announced'[Key(w)] = announced[Key(w)]
      BY <3>1, <1>4 DEF OnePublisher, Publish
    <3>3. ASSUME NEW v \in Workers \ {w}, worker'[v].pc = "publish"
          PROVE  Key(v)' # Key(w)'
      <4>1. CASE CommitOrder(v)
        BY <4>1, <3>1, <1>1, <1>3
      <4>2. CASE ~CommitOrder(v)
        BY <4>2, <3>1, <3>3, <1>2 DEF OnePublisher
      <4>3. QED
        BY <4>1, <4>2
    <3>4. QED
      BY <3>1, <3>2, <3>3
  <2>3. QED
    BY <2>1, <2>2
<1>7. QED
  BY <1>5, <1>6

-----------------------------------------------------------------------------
(* The steps of Intake that the steps of the pipeline are.                 *)

\* Only StoreDelivery adds a row, and nothing removes one.
LEMMA StoredStep ==
  ASSUME TypeOK, JobsAreKnown, RowsExist, [Next]_vars,
         ~ \E r \in Requests, e \in Events : StoreDelivery(r, e)
  PROVE  Stored' = Stored
<1>1. ASSUME NEW w \in Workers, Work(w) \/ Crash(w)
      PROVE  Stored' = Stored
  <2>1. ASSUME CommitOrder(w) \/ AckDuplicateOrder(w)
        PROVE  delivery' = [delivery EXCEPT ![DeliveryOf(worker[w].job)] = "PROCESSED"]
               /\ delivery[DeliveryOf(worker[w].job)] # "absent"
    BY <2>1, WorkerDelivery DEF CommitOrder, AckDuplicateOrder, RowsExist
  <2>2. CASE CommitOrder(w) \/ AckDuplicateOrder(w)
    BY <2>1, <2>2 DEF Stored, TypeOK
  <2>3. CASE UNCHANGED delivery
    BY <2>3 DEF Stored
  <2>4. QED
    BY <1>1, <2>2, <2>3 DEF Work, Take, Read, RejectPayload, FindDuplicateOrder, Publish,
       ProcessingFails, Finish, Fail, Crash, Dies, database
<1>2. ASSUME NEW l \in listeners, Listen(l)
      PROVE  Stored' = Stored
  <2>1. l.job \in JobIds /\ delivery[DeliveryOf(l.job)] # "absent"
    BY DEF TypeOK, Listener, JobsAreKnown, NamesKnown, RowsExist
  <2>2. CASE UNCHANGED delivery
    BY <2>2 DEF Stored
  <2>3. ASSUME NEW s \in {"FAILED", "DEAD"},
               delivery' = [delivery EXCEPT ![DeliveryOf(l.job)] = s]
        PROVE  Stored' = Stored
    BY <2>1, <2>3 DEF Stored, TypeOK
  <2>4. QED
    BY <1>2, <2>2, <2>3 DEF Listen, MarkFailed, Park, ParkRefused, Dies, MarkDead, database
<1>3. ASSUME NEW c \in Calls, RetryCall(c)
      PROVE  Stored' = Stored
  <2>1. CASE ResetDelivery(c)
    BY <2>1 DEF ResetDelivery, Stored, TypeOK, RowsExist
  <2>2. CASE UNCHANGED delivery
    BY <2>2 DEF Stored
  <2>3. QED
    BY <1>3, <2>1, <2>2 DEF RetryCall, FetchLetter, Requeue, RemoveLetter, CallFails, database
<1>4. CASE UNCHANGED delivery
  BY <1>4 DEF Stored
<1>5. QED
  BY <1>1, <1>2, <1>3, <1>4 DEF Next, Serve, AckDuplicate, Enqueue, EnqueueFails, Promote,
     ExpireLock, ReleaseStalled, vars, database

\* Only the Finish of a worker that holds the lock settles a body.
LEMMA SettledStep ==
  ASSUME TypeOK, JobsAreKnown, [Next]_vars,
         ~ \E w \in Workers : Finish(w) /\ lock[worker[w].job] = w
  PROVE  Settled' = Settled
<1>1. ASSUME NEW j \in JobIds
      PROVE  jobState'[j] = "completed" <=> jobState[j] = "completed"
  <2>1. ASSUME NEW w \in Workers, Work(w) \/ Crash(w)
        PROVE  jobState'[j] = "completed" <=> jobState[j] = "completed"
    <3>1. CASE Fail(w)
      BY <3>1, WorkerDelivery, NoneAssumption DEF Fail, TypeOK, JobsAreKnown, NamesKnown
    <3>2. CASE ~Fail(w)
      BY <2>1, <3>2 DEF Work, Take, Read, RejectPayload, CommitOrder, FindDuplicateOrder,
         AckDuplicateOrder, Publish, ProcessingFails, Finish, Crash, Dies, queue, TypeOK
    <3>3. QED
      BY <3>1, <3>2
  <2>2. ASSUME NEW c \in Calls, RetryCall(c)
        PROVE  jobState'[j] = "completed" <=> jobState[j] = "completed"
    BY <2>2 DEF RetryCall, FetchLetter, ResetDelivery, Requeue, RemoveLetter, CallFails,
       queue, TypeOK, JobsAreKnown, CallsKnown
  <2>3. QED
    BY <2>1, <2>2 DEF Next, Serve, StoreDelivery, AckDuplicate, Enqueue, EnqueueFails,
       Promote, ExpireLock, ReleaseStalled, Listen, MarkFailed, Park, ParkRefused, Dies,
       MarkDead, vars, queue, TypeOK
<1>2. ASSUME NEW j \in JobIds, jobState[j] = "completed"
      PROVE  DeliveryOf(j)' = DeliveryOf(j)
  BY <1>2, DeliveryFixed
<1>3. Settled' = {DeliveryOf(j)' : j \in {i \in JobIds : jobState'[i] = "completed"}}
  BY DEF Settled
<1>4. {i \in JobIds : jobState'[i] = "completed"} = {i \in JobIds : jobState[i] = "completed"}
  BY <1>1
<1>5. QED
  BY <1>2, <1>3, <1>4 DEF Settled

\* StoreDelivery stores, CommitOrder creates, Publish announces, the first Finish
\* that completes a job of the delivery settles; all the rest Intake does not see.
LEMMA StepKeepsPromise ==
  ASSUME IndInv, [Next]_vars
  PROVE  [Promise!Next]_(Promise!ivars)
<1> USE DEF IndInv
<1>1. ASSUME NEW r \in Requests, NEW e \in Events, StoreDelivery(r, e)
      PROVE  Promise!Store(e)
  <2>1. Stored' = Stored \cup {e} /\ e \notin Stored
    BY <1>1 DEF StoreDelivery, Stored, TypeOK
  <2>2. Settled' = Settled
    BY <1>1 DEF StoreDelivery, Settled, DeliveryOf, queue
  <2>3. QED
    BY <1>1, <2>1, <2>2 DEF StoreDelivery, Promise!Store
<1>2. ASSUME NEW w \in Workers, CommitOrder(w)
      PROVE  Promise!CreateOrder(DeliveryOf(worker[w].job))
  <2>1. Stored' = Stored
    BY <1>2, StoredStep DEF CommitOrder, StoreDelivery, Goto, TypeOK
  <2>2. Settled' = Settled
    BY <1>2 DEF CommitOrder, Settled, DeliveryOf, queue
  <2>3. DeliveryOf(worker[w].job) \in Stored
    BY <1>2, WorkerDelivery DEF CommitOrder, RowsExist, Stored
  <2>4. QED
    BY <1>2, <2>1, <2>2, <2>3 DEF CommitOrder, Promise!CreateOrder
<1>3. ASSUME NEW w \in Workers, Publish(w)
      PROVE  Promise!Announce(KeyOf[DeliveryOf(worker[w].job)])
  <2>1. Stored' = Stored /\ Settled' = Settled
    BY <1>3 DEF Publish, Stored, Settled, DeliveryOf, queue, database
  <2> DEFINE k == KeyOf[DeliveryOf(worker[w].job)]
  <2>2. announced[k] = 0 /\ orders[k] # None
    BY <1>3 DEF Publish, WorkersSeeOrder, OnePublisher
  <2>3. announced' = [announced EXCEPT ![k] = 1] /\ UNCHANGED orders
    BY <1>3, <2>2 DEF Publish, database
  <2>4. QED
    BY <2>1, <2>2, <2>3 DEF Promise!Announce
<1>4. ASSUME NEW w \in Workers, Finish(w), lock[worker[w].job] = w
      PROVE  Promise!Settle(DeliveryOf(worker[w].job)) \/ UNCHANGED Promise!ivars
  <2> DEFINE j == worker[w].job
  <2>1. j \in JobIds /\ DeliveryOf(j) \in Stored /\ orders[KeyOf[DeliveryOf(j)]] # None
    BY <1>4, WorkerDelivery DEF Finish, RowsExist, Stored, WorkersSeeOrder
  <2>2. {i \in JobIds : jobState'[i] = "completed"} = {i \in JobIds : jobState[i] = "completed"} \cup {j}
    BY <1>4, <2>1 DEF Finish, TypeOK
  <2>3. Settled' = Settled \cup {DeliveryOf(j)}
    BY <1>4, <2>2 DEF Finish, Settled, DeliveryOf
  <2>4. Stored' = Stored /\ UNCHANGED <<orders, announced>>
    BY <1>4 DEF Finish, Stored, database
  <2>5. QED
    BY <2>1, <2>3, <2>4 DEF Promise!Settle, Promise!ivars
<1>5. ASSUME ~ \E r \in Requests, e \in Events : StoreDelivery(r, e),
             ~ \E w \in Workers : \/ CommitOrder(w) \/ Publish(w)
                                  \/ Finish(w) /\ lock[worker[w].job] = w
      PROVE  UNCHANGED Promise!ivars
  <2>1. Stored' = Stored /\ Settled' = Settled
    BY <1>5, StoredStep, SettledStep
  <2>2. UNCHANGED <<orders, announced>>
    BY <1>5 DEF Next, Serve, Work, Listen, RetryCall, vars, database, AckDuplicate, Enqueue,
       EnqueueFails, Take, Read, RejectPayload, FindDuplicateOrder, AckDuplicateOrder,
       ProcessingFails, Finish, Fail, Crash, Dies, Promote, ExpireLock, ReleaseStalled,
       MarkFailed, Park, ParkRefused, MarkDead, FetchLetter, ResetDelivery, Requeue,
       RemoveLetter, CallFails
  <2>3. QED
    BY <2>1, <2>2 DEF Promise!ivars
<1>6. ASSUME NEW w \in Workers, CommitOrder(w) \/ Publish(w)
      PROVE  DeliveryOf(worker[w].job) \in Events /\ KeyOf[DeliveryOf(worker[w].job)] \in Keys
  BY <1>6, WorkerDelivery, KeysAssumption DEF CommitOrder, Publish
<1>7. ASSUME NEW w \in Workers, Finish(w)
      PROVE  DeliveryOf(worker[w].job) \in Events
  BY <1>7, WorkerDelivery DEF Finish
<1>8. QED
  BY <1>1, <1>2, <1>3, <1>4, <1>5, <1>6, <1>7 DEF Promise!Next

-----------------------------------------------------------------------------
(* The results.                                                            *)

\* The invariant holds at the start.
LEMMA InitInd ==
  ASSUME Init
  PROVE  IndInv
<1>1. TypeOK
  BY NoneAssumption DEF Init, TypeOK, Statuses, JobStates, RequestState, RequestPoints,
     Execution, WorkerPoints, Listener, CallState, CallPoints, Idle
<1>2. JobsAreKnown
  BY NoneAssumption DEF Init, JobsAreKnown, RequestsKnown, WorkersKnown, NamesKnown,
     CallsKnown, Idle, JobIds
<1>3. RowsExist /\ SuccessMeansOrder
  BY DEF Init, RowsExist, SuccessMeansOrder, JobIds
<1>4. WorkersSeeOrder /\ OnePublisher /\ AnnouncedOnceAfterCommit
  BY DEF Init, WorkersSeeOrder, OnePublisher, AnnouncedOnceAfterCommit, Idle
<1>5. QED
  BY <1>1, <1>2, <1>3, <1>4 DEF IndInv

\* Every step keeps it.
LEMMA StepInd ==
  ASSUME IndInv, [Next]_vars
  PROVE  IndInv'
<1> USE DEF IndInv
<1>1. TypeOK' /\ JobsAreKnown' /\ RowsExist'
  BY TypeStep, KnownStep, RowsStep
<1>2. SuccessMeansOrder' /\ WorkersSeeOrder'
  BY SuccessStep, WorkersStep
<1>3. OnePublisher' /\ AnnouncedOnceAfterCommit'
  BY PublishersStep
<1>4. QED
  BY <1>1, <1>2, <1>3

\* IndInv is an invariant of the pipeline.
THEOREM Invariance == Spec => []IndInv
<1>1. Init => IndInv
  BY InitInd
<1>2. IndInv /\ [Next]_vars => IndInv'
  BY StepInd
<1>3. QED
  BY <1>1, <1>2, PTL DEF Spec

\* Rows, jobs, locks, letters and handlers keep their types, whatever crashes and
\* whatever is lost (schema.prisma, and the points between the awaits).
THEOREM TypeCorrect == Spec => []TypeOK
<1>1. IndInv => TypeOK
  BY DEF IndInv
<1>2. QED
  BY <1>1, Invariance, PTL

\* A delivery that reads PROCESSED, and a job that completed, have their order,
\* whatever is retried, run twice, crashed or requeued (IngestProcessor.process).
THEOREM SuccessIsReal == Spec => []SuccessMeansOrder
<1>1. IndInv => SuccessMeansOrder
  BY DEF IndInv
<1>2. QED
  BY <1>1, Invariance, PTL

\* order.created is published at most once per business order, and after the
\* commit (process, 86-87; ADR 0003).
THEOREM AnnouncedOnce == Spec => []AnnouncedOnceAfterCommit
<1>1. IndInv => AnnouncedOnceAfterCommit
  BY DEF IndInv
<1>2. QED
  BY <1>1, Invariance, PTL

\* The pipeline implements Intake: at most one order per key, created from a body
\* that is stored, never overwritten, announced once, settled behind its order
\* (receive, process and retry together; ADR 0005).
THEOREM ImplementsIntake == Spec => KeepsPromise
<1>1. Init => Promise!Init
  <2>1. ASSUME Init
        PROVE  Stored = {} /\ Settled = {}
    BY <2>1 DEF Init, Stored, Settled, JobIds
  <2>2. QED
    BY <2>1 DEF Init, Promise!Init
<1>2. IndInv /\ [Next]_vars => [Promise!Next]_(Promise!ivars)
  BY StepKeepsPromise
<1>3. QED
  BY <1>1, <1>2, Invariance, PTL DEF Spec, KeepsPromise, Promise!Spec
=============================================================================
