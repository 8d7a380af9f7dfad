---------------------------- MODULE LetterProofs ----------------------------
(***************************************************************************)
(* Proofs about failed jobs, letters and stored bodies: the four           *)
(* invariants of IngestPipeline that say what is not forgotten.            *)
(*                                                                         *)
(* A final failure is for good (FailedStays), and the listener that it     *)
(* emits is the last one of its job: every other listener of the job is of *)
(* an earlier attempt (ListenersBehind).  So what a listener computes from *)
(* attemptsMade and opts.attempts is what BullMQ decided.                  *)
(***************************************************************************)
EXTENDS IngestPipelineProofs

\* A listener is of an attempt that was made, and one that has parked its letter
\* is that of a final failure.
ListenersBehind ==
    \A l \in listeners :
        /\ l.made <= attemptsMade[l.job]
        /\ l.stage = "parked" => Exhausted(l)

\* A retry call removes a letter only behind its own job.
RequeuedFirst == \A c \in Calls : call[c].pc \in {"remove", "done"} => jobState[c] # "absent"

LetterInv ==
    /\ ListenersBehind
    /\ RequeuedFirst
    /\ LettersAreFinal
    /\ DeadMeansFailedJob
    /\ FailureIsAccounted
    /\ StoredIsAccounted

-----------------------------------------------------------------------------
(* What the queue does to a job.                                           *)

\* A job that was added is there for good.
LEMMA JobsStay ==
  ASSUME TypeOK, JobsAreKnown, [Next]_vars, NEW j \in JobIds, jobState[j] # "absent"
  PROVE  jobState'[j] # "absent"
<1>1. ASSUME NEW w \in Workers, Work(w) \/ Crash(w)
      PROVE  jobState'[j] # "absent"
  BY <1>1 DEF TypeOK, Work, Take, Read, RejectPayload, CommitOrder, FindDuplicateOrder,
     AckDuplicateOrder, Publish, ProcessingFails, Finish, Fail, Crash, Dies, queue
<1>2. ASSUME NEW c \in Calls, RetryCall(c)
      PROVE  jobState'[j] # "absent"
  BY <1>2 DEF TypeOK, RetryCall, FetchLetter, ResetDelivery, Requeue, RemoveLetter, CallFails,
     queue
<1>3. QED
  BY <1>1, <1>2 DEF Next, Serve, Listen, vars, queue, TypeOK, StoreDelivery, AckDuplicate,
     Enqueue, EnqueueFails, Promote, ExpireLock, ReleaseStalled, MarkFailed, Park,
     ParkRefused, Dies, MarkDead

\* A final failure is for good: nothing takes, finishes or fails the job again.
LEMMA FailedStays ==
  ASSUME TypeOK, JobsAreKnown, [Next]_vars, NEW j \in JobIds, jobState[j] = "failed"
  PROVE  jobState'[j] = "failed" /\ attemptsMade'[j] = attemptsMade[j]
<1>1. lock[j] = None
  BY DEF JobsAreKnown, NamesKnown
<1>2. ASSUME NEW w \in Workers, Work(w) \/ Crash(w)
      PROVE  jobState'[j] = "failed" /\ attemptsMade'[j] = attemptsMade[j]
  <2>1. CASE Finish(w) \/ Fail(w)
    <3>1. lock[worker[w].job] = w => worker[w].job # j
      BY <1>1, NoneAssumption
    <3>2. QED
      BY <2>1, <3>1 DEF Finish, Fail, TypeOK
  <2>2. QED
    BY <1>2, <2>1 DEF TypeOK, Work, Take, Read, RejectPayload, CommitOrder, FindDuplicateOrder,
       AckDuplicateOrder, Publish, ProcessingFails, Crash, Dies, queue
<1>3. ASSUME NEW c \in Calls, RetryCall(c)
      PROVE  jobState'[j] = "failed" /\ attemptsMade'[j] = attemptsMade[j]
  BY <1>3 DEF TypeOK, JobsAreKnown, CallsKnown, RetryCall, FetchLetter, ResetDelivery, Requeue,
     RemoveLetter, CallFails, queue
<1>4. QED
  BY <1>2, <1>3 DEF Next, Serve, Listen, vars, queue, TypeOK, StoreDelivery, AckDuplicate,
     Enqueue, EnqueueFails, Promote, ExpireLock, ReleaseStalled, MarkFailed, Park,
     ParkRefused, Dies, MarkDead

\* The execution of worker w ends in a failure that BullMQ records.
Fails(w) == Fail(w) /\ lock[worker[w].job] = w

\* The listener that it emits.
Emitted(w) ==
    [worker |-> w, job |-> worker[w].job, made |-> attemptsMade[worker[w].job] + 1,
     fatal |-> worker[w].pc = "throwFatal", stage |-> "emitted"]

\* What such an end does to job and listeners: whether the job is tried again is
\* just what the listener will find out.
LEMMA FailEffect ==
  ASSUME TypeOK, JobsAreKnown, NEW w \in Workers, Fails(w)
  PROVE  LET j == worker[w].job IN
         /\ j \in JobIds
         /\ jobState[j] = "active"
         /\ jobState' = [jobState EXCEPT ![j] = IF Exhausted(Emitted(w)) THEN "failed"
                                                                         ELSE "delayed"]
         /\ attemptsMade' = [attemptsMade EXCEPT ![j] = @ + 1]
         /\ listeners' = listeners \cup {Emitted(w)}
<1>1. worker[w].job \in JobIds
  BY WorkerDelivery DEF Fails, Fail
<1>2. jobState[worker[w].job] = "active"
  BY <1>1, NoneAssumption DEF Fails, JobsAreKnown, NamesKnown
<1>3. MaxTries(worker[w].job) \in Nat /\ attemptsMade[worker[w].job] \in Nat
  BY <1>1, AttemptsAssumption DEF MaxTries, TypeOK
<1>4. Exhausted(Emitted(w)) <=>
        \/ worker[w].pc = "throwFatal"
        \/ attemptsMade[worker[w].job] + 1 >= MaxTries(worker[w].job)
  BY DEF Exhausted, Emitted
<1>5. Exhausted(Emitted(w)) <=>
        ~(worker[w].pc # "throwFatal" /\ attemptsMade[worker[w].job] + 1 < MaxTries(worker[w].job))
  BY <1>3, <1>4
<1>6. QED
  BY <1>1, <1>2, <1>5 DEF Fails, Fail, Emitted, TypeOK

\* No other step makes a job fail, or counts an attempt, or emits a listener.
LEMMA OnlyFailFails ==
  ASSUME TypeOK, JobsAreKnown, [Next]_vars, ~ \E w \in Workers : Fails(w)
  PROVE  /\ attemptsMade' = attemptsMade
         /\ \A j \in JobIds : jobState'[j] = "failed" => jobState[j] = "failed"
<1>1. ASSUME NEW w \in Workers, Work(w) \/ Crash(w)
      PROVE  /\ attemptsMade' = attemptsMade
             /\ \A j \in JobIds : jobState'[j] = "failed" => jobState[j] = "failed"
  BY <1>1 DEF TypeOK, Work, Take, Read, RejectPayload, CommitOrder, FindDuplicateOrder,
     AckDuplicateOrder, Publish, ProcessingFails, Finish, Fail, Fails, Crash, Dies, queue
<1>2. ASSUME NEW c \in Calls, RetryCall(c)
      PROVE  /\ attemptsMade' = attemptsMade
             /\ \A j \in JobIds : jobState'[j] = "failed" => jobState[j] = "failed"
  BY <1>2 DEF TypeOK, RetryCall, FetchLetter, ResetDelivery, Requeue, RemoveLetter, CallFails,
     queue
<1>3. QED
  BY <1>1, <1>2 DEF Next, Serve, Listen, vars, queue, TypeOK, StoreDelivery, AckDuplicate,
     Enqueue, EnqueueFails, Promote, ExpireLock, ReleaseStalled, MarkFailed, Park,
     ParkRefused, Dies, MarkDead

\* And the same listener once it has parked its letter.
Parked(l) == [l EXCEPT !.stage = "parked"]

\* A listener that is there after a step was there before it, or was emitted by it,
\* or has just parked its letter.
LEMMA ListenersStep ==
  ASSUME TypeOK, JobsAreKnown, [Next]_vars, NEW l \in listeners'
  PROVE  \/ l \in listeners
         \/ \E w \in Workers : Fails(w) /\ l = Emitted(w)
         \/ \E m \in listeners : Park(m) /\ l = Parked(m)
<1> DEFINE Known == \/ l \in listeners
                    \/ \E w \in Workers : Fails(w) /\ l = Emitted(w)
                    \/ \E m \in listeners : Park(m) /\ l = Parked(m)
<1>1. ASSUME NEW w \in Workers, Fail(w)
      PROVE  Known
  BY <1>1 DEF Fail, Fails, Emitted
<1>2. ASSUME NEW w \in Workers, Crash(w)
      PROVE  Known
  BY <1>2 DEF Crash, Dies
<1>3. ASSUME NEW m \in listeners, Listen(m)
      PROVE  Known
  <2>1. CASE MarkFailed(m) \/ MarkDead(m)
    BY <2>1 DEF MarkFailed, MarkDead
  <2>2. CASE Park(m)
    <3>1. listeners' = (listeners \ {m}) \cup {Parked(m)}
      BY <2>2, Zenon DEF Park, Parked
    <3>2. l \in listeners \/ l = Parked(m)
      BY <3>1
    <3>3. QED
      BY <1>3, <2>2, <3>2
  <2>3. CASE ParkRefused(m)
    BY <2>3 DEF ParkRefused, Dies
  <2>4. QED
    BY <1>3, <2>1, <2>2, <2>3 DEF Listen
<1>4. CASE UNCHANGED listeners
  BY <1>4
<1>5. QED
  BY <1>1, <1>2, <1>3, <1>4 DEF Next, Serve, Work, RetryCall, vars, StoreDelivery,
     AckDuplicate, Enqueue, EnqueueFails, Take, Read, RejectPayload, CommitOrder,
     FindDuplicateOrder, AckDuplicateOrder, Publish, ProcessingFails, Finish, Promote,
     ExpireLock, ReleaseStalled, FetchLetter, ResetDelivery, Requeue, RemoveLetter, CallFails

\* Attempts are only ever counted up.
LEMMA AttemptsGrow ==
  ASSUME TypeOK, JobsAreKnown, [Next]_vars, NEW j \in JobIds
  PROVE  attemptsMade'[j] \in {attemptsMade[j], attemptsMade[j] + 1}
<1>1. ASSUME NEW w \in Workers, Fails(w)
      PROVE  attemptsMade'[j] \in {attemptsMade[j], attemptsMade[j] + 1}
  BY <1>1, FailEffect DEF TypeOK
<1>2. QED
  BY <1>1, OnlyFailFails

-----------------------------------------------------------------------------
(* The conjuncts of LetterInv.                                             *)

LEMMA BehindStep ==
  ASSUME TypeOK, JobsAreKnown, ListenersBehind, [Next]_vars
  PROVE  ListenersBehind'
<1> SUFFICES ASSUME NEW l \in listeners'
             PROVE  /\ l.made <= attemptsMade'[l.job]
                    /\ l.stage = "parked" => Exhausted(l)
  BY DEF ListenersBehind, Exhausted, MaxTries
<1>1. CASE l \in listeners
  <2>1. l.job \in JobIds /\ l.made \in Nat /\ attemptsMade[l.job] \in Nat
    BY <1>1 DEF TypeOK, Listener
  <2>2. QED
    BY <1>1, <2>1, AttemptsGrow DEF ListenersBehind
<1>2. ASSUME NEW w \in Workers, Fails(w), l = Emitted(w)
      PROVE  /\ l.made <= attemptsMade'[l.job]
             /\ l.stage = "parked" => Exhausted(l)
  <2>1. l.job = worker[w].job /\ l.made = attemptsMade[l.job] + 1 /\ l.stage = "emitted"
    BY <1>2 DEF Emitted
  <2>2. l.job \in JobIds /\ attemptsMade' = [attemptsMade EXCEPT ![l.job] = @ + 1]
    BY <1>2, <2>1, FailEffect
  <2>3. QED
    BY <2>1, <2>2 DEF TypeOK
<1>3. ASSUME NEW m \in listeners, Park(m), l = Parked(m)
      PROVE  /\ l.made <= attemptsMade'[l.job]
             /\ l.stage = "parked" => Exhausted(l)
  <2>1. m \in Listener
    BY DEF TypeOK
  <2>2. l.job = m.job /\ l.made = m.made /\ l.fatal = m.fatal
    BY <1>3, <2>1 DEF Listener, Parked
  <2>3. Exhausted(l)
    BY <1>3, <2>2 DEF Park, Pending, Exhausted
  <2>4. attemptsMade' = attemptsMade
    BY <1>3 DEF Park, queue
  <2>5. QED
    BY <2>2, <2>3, <2>4 DEF ListenersBehind
<1>4. QED
  BY <1>1, <1>2, <1>3, ListenersStep

LEMMA RequeuedStep ==
  ASSUME TypeOK, JobsAreKnown, RequeuedFirst, [Next]_vars
  PROVE  RequeuedFirst'
<1> SUFFICES ASSUME NEW c \in Calls, call'[c].pc \in {"remove", "done"}
             PROVE  jobState'[c] # "absent"
  BY DEF RequeuedFirst
<1>1. CASE call[c].pc \in {"remove", "done"}
  BY <1>1, JobsStay DEF RequeuedFirst, JobIds
<1>2. CASE call[c].pc \notin {"remove", "done"}
  <2>1. ASSUME NEW d \in Calls, RetryCall(d)
        PROVE  Requeue(c)
    BY <1>2, <2>1 DEF RetryCall, FetchLetter, ResetDelivery, Requeue, RemoveLetter, CallFails,
       TypeOK, CallState
  <2>2. \E d \in Calls : RetryCall(d)
    BY <1>2 DEF Next, Serve, Work, Listen, vars, StoreDelivery, AckDuplicate, Enqueue,
       EnqueueFails, Take, Read, RejectPayload, CommitOrder, FindDuplicateOrder,
       AckDuplicateOrder, Publish, ProcessingFails, Finish, Fail, Crash, Dies, Promote,
       ExpireLock, ReleaseStalled, MarkFailed, Park, ParkRefused, MarkDead
  <2>3. QED
    BY <2>1, <2>2 DEF Requeue, TypeOK, JobIds
<1>3. QED
  BY <1>1, <1>2

\* A letter that is there after a step was there before it, or is being parked.
LEMMA LettersStep ==
  ASSUME [Next]_vars, NEW j \in dlq'
  PROVE  j \in dlq \/ (\E l \in listeners : Park(l) /\ l.job = j)
<1>1. ASSUME NEW l \in listeners, Listen(l)
      PROVE  j \in dlq \/ (Park(l) /\ l.job = j)
  <2>1. CASE MarkFailed(l) \/ MarkDead(l) \/ ParkRefused(l)
    BY <2>1 DEF MarkFailed, MarkDead, ParkRefused
  <2>2. CASE Park(l)
    <3>1. dlq' = dlq \cup {l.job}
      BY <2>2 DEF Park
    <3>2. j \in dlq \/ l.job = j
      BY <3>1
    <3>3. QED
      BY <2>2, <3>2
  <2>3. QED
    BY <1>1, <2>1, <2>2 DEF Listen
<1>2. ASSUME NEW c \in Calls, RetryCall(c)
      PROVE  j \in dlq
  BY <1>2 DEF RetryCall, FetchLetter, ResetDelivery, Requeue, RemoveLetter, CallFails
<1>3. CASE UNCHANGED dlq
  BY <1>3
<1>4. QED
  BY <1>1, <1>2, <1>3 DEF Next, Serve, Work, vars, StoreDelivery, AckDuplicate, Enqueue,
     EnqueueFails, Take, Read, RejectPayload, CommitOrder, FindDuplicateOrder,
     AckDuplicateOrder, Publish, ProcessingFails, Finish, Fail, Crash, Dies, Promote,
     ExpireLock, ReleaseStalled

\* The listener's computation keeps up with BullMQ's decision.
LEMMA FinalStep ==
  ASSUME TypeOK, JobsAreKnown, ListenersBehind, LettersAreFinal, [Next]_vars
  PROVE  LettersAreFinal'
<1>1. ASSUME NEW j \in dlq'
      PROVE  jobState'[j] = "failed"
  <2>1. jobState[j] = "failed" /\ j \in JobIds
    BY LettersStep DEF LettersAreFinal, TypeOK, Park, Pending, Listener, JobIds
  <2>2. QED
    BY <2>1, FailedStays
<1>2. ASSUME NEW l \in listeners'
      PROVE  Exhausted(l) <=> jobState'[l.job] = "failed" /\ l.made = attemptsMade'[l.job]
  <2>1. CASE l \in listeners
    <3>1. /\ l.job \in JobIds /\ l.made \in Nat /\ attemptsMade[l.job] \in Nat
          /\ l.made <= attemptsMade[l.job]
          /\ Exhausted(l) <=> jobState[l.job] = "failed" /\ l.made = attemptsMade[l.job]
      BY <2>1 DEF TypeOK, Listener, ListenersBehind, LettersAreFinal
    <3>2. CASE jobState[l.job] = "failed"
      BY <3>1, <3>2, FailedStays
    <3>3. CASE jobState[l.job] # "failed" /\ jobState'[l.job] # "failed"
      BY <3>1, <3>3
    <3>4. CASE jobState[l.job] # "failed" /\ jobState'[l.job] = "failed"
      <4>1. PICK w \in Workers : Fails(w)
        BY <3>1, <3>4, OnlyFailFails
      <4>2. attemptsMade'[l.job] = attemptsMade[l.job] + 1
        BY <3>1, <3>4, <4>1, FailEffect DEF TypeOK
      <4>3. QED
        BY <3>1, <3>4, <4>2
    <3>5. QED
      BY <3>2, <3>3, <3>4
  <2>2. ASSUME NEW w \in Workers, Fails(w), l = Emitted(w)
        PROVE  Exhausted(l) <=> jobState'[l.job] = "failed" /\ l.made = attemptsMade'[l.job]
    <3>1. l.job = worker[w].job /\ l.made = attemptsMade[l.job] + 1
      BY <2>2 DEF Emitted
    <3>2. /\ l.job \in JobIds
          /\ jobState' = [jobState EXCEPT ![l.job] = IF Exhausted(l) THEN "failed" ELSE "delayed"]
          /\ attemptsMade' = [attemptsMade EXCEPT ![l.job] = @ + 1]
      BY <2>2, <3>1, FailEffect
    <3>3. QED
      BY <3>1, <3>2 DEF TypeOK
  <2>3. ASSUME NEW m \in listeners, Park(m), l = Parked(m)
        PROVE  Exhausted(l) <=> jobState'[l.job] = "failed" /\ l.made = attemptsMade'[l.job]
    <3>1. m \in Listener
      BY DEF TypeOK
    <3>2. l.job = m.job /\ l.made = m.made /\ l.fatal = m.fatal
      BY <2>3, <3>1 DEF Listener, Parked
    <3>3. Exhausted(l) <=> Exhausted(m)
      BY <3>2 DEF Exhausted
    <3>4. UNCHANGED <<jobState, attemptsMade>>
      BY <2>3 DEF Park, queue
    <3>5. QED
      BY <3>2, <3>3, <3>4 DEF LettersAreFinal
  <2>4. QED
    BY <2>1, <2>2, <2>3, ListenersStep
<1>3. QED
  BY <1>1, <1>2 DEF LettersAreFinal, Exhausted, MaxTries

\* DEAD is written behind a parked letter, so behind a failed job; and that failed job
\* keeps failed, for the same delivery.
LEMMA DeadStep ==
  ASSUME TypeOK, JobsAreKnown, ListenersBehind, LettersAreFinal, DeadMeansFailedJob, [Next]_vars
  PROVE  DeadMeansFailedJob'
<1> SUFFICES ASSUME NEW e \in Events, delivery'[e] = "DEAD"
             PROVE  \E j \in JobIds : jobState'[j] = "failed" /\ DeliveryOf(j)' = e
  BY DEF DeadMeansFailedJob
<1>1. ASSUME NEW j \in JobIds, jobState[j] = "failed", DeliveryOf(j) = e
      PROVE  jobState'[j] = "failed" /\ DeliveryOf(j)' = e
  BY <1>1, FailedStays, DeliveryFixed
<1>2. CASE delivery[e] = "DEAD"
  BY <1>1, <1>2 DEF DeadMeansFailedJob
<1>3. CASE delivery[e] # "DEAD"
  <2>1. PICK l \in listeners : MarkDead(l)
    <3>1. ASSUME NEW w \in Workers, Work(w) \/ Crash(w)
          PROVE  FALSE
      BY <1>3, <3>1 DEF TypeOK, Work, Take, Read, RejectPayload, CommitOrder,
         FindDuplicateOrder, AckDuplicateOrder, Publish, ProcessingFails, Finish, Fail, Crash,
         Dies, database
    <3>2. ASSUME NEW c \in Calls, RetryCall(c)
          PROVE  FALSE
      BY <1>3, <3>2 DEF TypeOK, RetryCall, FetchLetter, ResetDelivery, Requeue, RemoveLetter,
         CallFails, database
    <3>3. ASSUME NEW l \in listeners, MarkFailed(l) \/ Park(l) \/ ParkRefused(l)
          PROVE  FALSE
      BY <1>3, <3>3 DEF TypeOK, MarkFailed, Park, ParkRefused, database
    <3>4. QED
      BY <1>3, <3>1, <3>2, <3>3 DEF Next, Serve, Listen, vars, database, TypeOK,
         StoreDelivery, AckDuplicate, Enqueue, EnqueueFails, Promote, ExpireLock,
         ReleaseStalled
  <2>2. DeliveryOf(l.job) = e
    BY <1>3, <2>1 DEF MarkDead, TypeOK
  <2>3. l.job \in JobIds /\ jobState[l.job] = "failed"
    BY <2>1 DEF MarkDead, ListenersBehind, LettersAreFinal, TypeOK, Listener
  <2>4. QED
    BY <1>1, <2>2, <2>3
<1>4. QED
  BY <1>2, <1>3

\* The retry call that queued a letter's job again is not forgotten.
LEMMA RequeuedStays ==
  ASSUME TypeOK, JobsAreKnown, [Next]_vars, NEW j \in JobIds, Requeued(j)
  PROVE  Requeued(j)'
<1>1. PICK c \in Calls : call[c].letter = j /\ jobState[c] # "absent"
  BY DEF Requeued
<1>2. call[c].pc # "idle"
  BY <1>1 DEF JobsAreKnown, CallsKnown
<1>3. call'[c].letter = j
  <2>1. ASSUME NEW d \in Calls, RetryCall(d)
        PROVE  call'[c].letter = call[c].letter
    BY <1>2, <2>1 DEF RetryCall, FetchLetter, ResetDelivery, Requeue, RemoveLetter, CallFails,
       TypeOK, CallState
  <2>2. QED
    BY <1>1, <2>1 DEF Next, Serve, Work, Listen, vars, StoreDelivery, AckDuplicate, Enqueue,
       EnqueueFails, Take, Read, RejectPayload, CommitOrder, FindDuplicateOrder,
       AckDuplicateOrder, Publish, ProcessingFails, Finish, Fail, Crash, Dies, Promote,
       ExpireLock, ReleaseStalled, MarkFailed, Park, ParkRefused, MarkDead
<1>4. jobState'[c] # "absent"
  BY <1>1, JobsStay DEF JobIds
<1>5. QED
  BY <1>3, <1>4 DEF Requeued

\* A letter leaves the queue only behind its requeue.
LEMMA LetterLeaves ==
  ASSUME TypeOK, RequeuedFirst, [Next]_vars, NEW j \in dlq
  PROVE  j \in dlq' \/ Requeued(j)
<1>1. ASSUME NEW c \in Calls, RetryCall(c)
      PROVE  j \in dlq' \/ Requeued(j)
  BY <1>1 DEF RetryCall, FetchLetter, ResetDelivery, Requeue, RemoveLetter, CallFails,
     RequeuedFirst, Requeued
<1>2. ASSUME NEW l \in listeners, Listen(l)
      PROVE  j \in dlq'
  BY <1>2 DEF Listen, MarkFailed, Park, ParkRefused, Dies, MarkDead
<1>3. QED
  BY <1>1, <1>2 DEF Next, Serve, Work, vars, StoreDelivery, AckDuplicate, Enqueue,
     EnqueueFails, Take, Read, RejectPayload, CommitOrder, FindDuplicateOrder,
     AckDuplicateOrder, Publish, ProcessingFails, Finish, Fail, Crash, Dies, Promote,
     ExpireLock, ReleaseStalled

\* A listener that has a letter to park is there until it has parked it, or its
\* process dies, which is remembered.
LEMMA PendingStays ==
  ASSUME TypeOK, [Next]_vars, NEW l \in listeners, Pending(l)
  PROVE  l \in listeners' \/ l.job \in dlq' \/ l.job \in orphaned'
<1>1. ASSUME NEW w \in Workers, Dies(w)
      PROVE  l \in listeners' \/ l.job \in orphaned'
  <2>1. CASE l.worker # w
    BY <1>1, <2>1 DEF Dies
  <2>2. CASE l.worker = w
    BY <1>1, <2>2 DEF Dies
  <2>3. QED
    BY <2>1, <2>2
<1>2. ASSUME NEW m \in listeners, Listen(m)
      PROVE  l \in listeners' \/ l.job \in dlq' \/ l.job \in orphaned'
  <2>1. CASE ParkRefused(m)
    BY <1>1, <2>1 DEF ParkRefused, TypeOK, Listener
  <2>2. CASE MarkFailed(m) \/ Park(m) \/ MarkDead(m)
    BY <2>2 DEF MarkFailed, Park, MarkDead, Pending
  <2>3. QED
    BY <1>2, <2>1, <2>2 DEF Listen
<1>3. ASSUME NEW w \in Workers, Crash(w)
      PROVE  l \in listeners' \/ l.job \in orphaned'
  BY <1>1, <1>3 DEF Crash
<1>4. ASSUME NEW w \in Workers, Fail(w)
      PROVE  l \in listeners'
  BY <1>4 DEF Fail
<1>5. QED
  BY <1>2, <1>3, <1>4 DEF Next, Serve, Work, RetryCall, vars, StoreDelivery, AckDuplicate,
     Enqueue, EnqueueFails, Take, Read, RejectPayload, CommitOrder, FindDuplicateOrder,
     AckDuplicateOrder, Publish, ProcessingFails, Finish, Promote, ExpireLock, ReleaseStalled,
     FetchLetter, ResetDelivery, Requeue, RemoveLetter, CallFails

\* A step that is no death of a process orphans no job.
LEMMA OrphansStep ==
  ASSUME [Next]_vars
  PROVE  \/ orphaned' = orphaned
         \/ \E w \in Workers : Crash(w)
         \/ \E l \in listeners : ParkRefused(l)
BY DEF Next, Serve, Work, Listen, RetryCall, vars, history, StoreDelivery, AckDuplicate,
   Enqueue, EnqueueFails, Take, Read, RejectPayload, CommitOrder, FindDuplicateOrder,
   AckDuplicateOrder, Publish, ProcessingFails, Finish, Fail, Promote, ExpireLock,
   ReleaseStalled, MarkFailed, Park, MarkDead, FetchLetter, ResetDelivery, Requeue,
   RemoveLetter, CallFails

\* And what a process left behind stays known.
LEMMA OrphansStay ==
  ASSUME [Next]_vars
  PROVE  orphaned \subseteq orphaned'
BY OrphansStep DEF Crash, ParkRefused, Dies

\* So a failed job keeps its letter, its listener or its requeue, or is remembered.
LEMMA AccountedStep ==
  ASSUME TypeOK, JobsAreKnown, RequeuedFirst, FailureIsAccounted, [Next]_vars
  PROVE  FailureIsAccounted'
<1> DEFINE Accounted(j) == \/ j \in dlq
                           \/ \E l \in listeners : l.job = j /\ Pending(l)
                           \/ Requeued(j)
                           \/ j \in orphaned
<1> SUFFICES ASSUME NEW j \in JobIds, jobState'[j] = "failed"
             PROVE  Accounted(j)'
  BY DEF FailureIsAccounted
<1>1. CASE jobState[j] = "failed"
  <2>1. Accounted(j)
    BY <1>1 DEF FailureIsAccounted
  <2>2. CASE Requeued(j)
    BY <2>2, RequeuedStays
  <2>3. CASE j \in dlq
    BY <2>2, <2>3, LetterLeaves
  <2>4. CASE j \in orphaned
    BY <2>4, OrphansStay
  <2>5. ASSUME NEW l \in listeners, l.job = j, Pending(l)
        PROVE  Accounted(j)'
    <3>1. Pending(l)'
      BY <2>5 DEF Pending, Exhausted, MaxTries
    <3>2. QED
      BY <2>5, <3>1, PendingStays
  <2>6. QED
    BY <2>1, <2>2, <2>3, <2>4, <2>5
<1>2. CASE jobState[j] # "failed"
  <2>1. PICK w \in Workers : Fails(w)
    BY <1>2, OnlyFailFails
  <2>2. /\ worker[w].job = j
        /\ Exhausted(Emitted(w))
        /\ Emitted(w) \in listeners'
    BY <1>2, <2>1, FailEffect DEF TypeOK
  <2>3. Emitted(w).job = j /\ Emitted(w).stage = "emitted"
    BY <2>2 DEF Emitted
  <2>4. PICK l \in listeners' : l.job = j /\ Exhausted(l) /\ l.stage = "emitted"
    BY <2>2, <2>3
  <2>5. Pending(l)'
    BY <2>4 DEF Pending, Exhausted, MaxTries
  <2>6. QED
    BY <2>4, <2>5
<1>3. QED
  BY <1>1, <1>2

\* A stored body keeps its job, or its request.
LEMMA StoredAccStep ==
  ASSUME TypeOK, JobsAreKnown, RowsExist, StoredIsAccounted, [Next]_vars
  PROVE  StoredIsAccounted'
<1> DEFINE Held(e) == \/ jobState[e] # "absent"
                      \/ \E r \in Requests : /\ request[r].event = e
                                             /\ request[r].pc \in {"enqueue", "lost"}
<1> SUFFICES ASSUME NEW e \in Events, delivery'[e] # "absent"
             PROVE  Held(e)'
  BY DEF StoredIsAccounted
<1>1. CASE delivery[e] = "absent"
  <2>1. PICK r \in Requests, f \in Events : StoreDelivery(r, f)
    BY <1>1, StoredStep DEF Stored
  <2>2. request'[r].event = e /\ request'[r].pc = "enqueue"
    BY <1>1, <2>1 DEF StoreDelivery, TypeOK
  <2>3. QED
    BY <2>2
<1>2. CASE jobState[e] # "absent"
  BY <1>2, JobsStay DEF JobIds
<1>3. ASSUME NEW r \in Requests, request[r].event = e, request[r].pc \in {"enqueue", "lost"}
      PROVE  Held(e)'
  <2>1. CASE request'[r] = request[r]
    BY <1>3, <2>1
  <2>2. CASE Enqueue(r)
    BY <1>3, <2>2 DEF Enqueue, TypeOK, JobIds
  <2>3. CASE EnqueueFails(r)
    BY <1>3, <2>3 DEF EnqueueFails, TypeOK, RequestState
  <2>4. ASSUME NEW q \in Requests, Serve(q)
        PROVE  request'[r] = request[r] \/ Enqueue(r) \/ EnqueueFails(r)
    BY <1>3, <2>4 DEF Serve, StoreDelivery, AckDuplicate, Enqueue, EnqueueFails, TypeOK
  <2>5. QED
    BY <2>1, <2>2, <2>3, <2>4 DEF Next, Work, Listen, RetryCall, vars, Take, Read,
       RejectPayload, CommitOrder, FindDuplicateOrder, AckDuplicateOrder, Publish,
       ProcessingFails, Finish, Fail, Crash, Dies, Promote, ExpireLock, ReleaseStalled,
       MarkFailed, Park, ParkRefused, MarkDead, FetchLetter, ResetDelivery, Requeue,
       RemoveLetter, CallFails
<1>4. QED
  BY <1>1, <1>2, <1>3 DEF StoredIsAccounted

-----------------------------------------------------------------------------
LEMMA InitLetters == Init => LetterInv
BY DEF Init, LetterInv, ListenersBehind, RequeuedFirst, LettersAreFinal, DeadMeansFailedJob,
   FailureIsAccounted, StoredIsAccounted, JobIds

LEMMA StepLetters ==
  ASSUME IndInv, LetterInv, [Next]_vars
  PROVE  LetterInv'
BY BehindStep, RequeuedStep, FinalStep, DeadStep, AccountedStep, StoredAccStep
   DEF IndInv, LetterInv

\* LetterInv is an invariant of the pipeline.
THEOREM LettersInvariance == Spec => []LetterInv
<1>1. Init => LetterInv
  BY InitLetters
<1>2. IndInv /\ LetterInv /\ [Next]_vars => LetterInv'
  BY StepLetters
<1>3. QED
  BY <1>1, <1>2, Invariance, PTL DEF Spec

\* A letter is parked only for a job that BullMQ will not run again, and a listener
\* takes its attempt for the last just when BullMQ did, although the two queues'
\* jobs have different options (onFailed, 122-123; ingestion.module.ts; dlq.module.ts).
THEOREM LettersFinal == Spec => []LettersAreFinal
<1>1. LetterInv => LettersAreFinal
  BY DEF LetterInv
<1>2. QED
  BY <1>1, LettersInvariance, PTL

\* DEAD is written only for a delivery one of whose jobs failed for good (onFailed,
\* 131-149), also while retry calls reset and requeue it.
THEOREM DeadIsFailed == Spec => []DeadMeansFailedJob
<1>1. LetterInv => DeadMeansFailedJob
  BY DEF LetterInv
<1>2. QED
  BY <1>1, LettersInvariance, PTL

\* A job that failed for good has its letter, or the listener that parks it, or a job
\* that a retry call added, or its process died under that listener, by a crash or by
\* the letter of a requeued job, which BullMQ refuses: no other way loses a failure
\* (onFailed, 131-149; DlqService.retry, 47-54: requeue first, remove the letter last).
THEOREM FailuresAccounted == Spec => []FailureIsAccounted
<1>1. LetterInv => FailureIsAccounted
  BY DEF LetterInv
<1>2. QED
  BY <1>1, LettersInvariance, PTL

\* A stored body has its job, or the request that stored it is at the add or failed
\* there (IngestionService.receive, 35-53).
THEOREM BodiesAccounted == Spec => []StoredIsAccounted
<1>1. LetterInv => StoredIsAccounted
  BY DEF LetterInv
<1>2. QED
  BY <1>1, LettersInvariance, PTL

-----------------------------------------------------------------------------
(* What the sentences of the documents need in order to hold: each one is  *)
(* false of the code, by a run, and each is true of it until one kind of   *)
(* fault has happened.                                                     *)

\* A process died under a listener by a crash, or because a requeued job had failed.
OrphansExplained ==
    orphaned # {} => crashes > 0 \/ \E c \in Calls : jobState[c] = "failed"

LEMMA OrphansExplainedStep ==
  ASSUME IndInv, LetterInv, OrphansExplained, [Next]_vars
  PROVE  OrphansExplained'
<1> USE DEF IndInv
<1>1. ASSUME NEW c \in Calls, jobState[c] = "failed"
      PROVE  jobState'[c] = "failed"
  BY <1>1, FailedStays DEF JobIds
<1>2. crashes > 0 => crashes' > 0
  <2>1. ASSUME NEW w \in Workers, Crash(w)
        PROVE  crashes' > 0
    BY <2>1 DEF Crash, TypeOK
  <2>2. crashes' = crashes \/ \E w \in Workers : Crash(w)
    BY DEF Next, Serve, Work, Listen, RetryCall, vars, history, StoreDelivery, AckDuplicate,
       Enqueue, EnqueueFails, Take, Read, RejectPayload, CommitOrder, FindDuplicateOrder,
       AckDuplicateOrder, Publish, ProcessingFails, Finish, Fail, Promote, ExpireLock,
       ReleaseStalled, MarkFailed, Park, ParkRefused, MarkDead, FetchLetter, ResetDelivery,
       Requeue, RemoveLetter, CallFails
  <2>3. QED
    BY <2>1, <2>2
<1>3. CASE orphaned' = orphaned
  BY <1>1, <1>2, <1>3 DEF OrphansExplained
<1>4. ASSUME NEW w \in Workers, Crash(w)
      PROVE  crashes' > 0
  BY <1>4 DEF Crash, TypeOK
<1>5. ASSUME NEW l \in listeners, ParkRefused(l)
      PROVE  \E c \in Calls : jobState'[c] = "failed"
  BY <1>1, <1>5 DEF ParkRefused, Pending, LetterInv, LettersAreFinal
<1>6. QED
  BY <1>3, <1>4, <1>5, OrphansStep DEF OrphansExplained

\* "Permanent failures are observable and recoverable in one call" (ADR 0004, 9):
\* so they are as long as no worker process has died between a failure and its
\* listener and no requeued job has failed for good (onFailed, 117-143).
THEOREM VisibleUntilTheFirstOrphan ==
  Spec => [](crashes = 0 /\ (\A c \in Calls : jobState[c] # "failed") => PermanentFailureVisible)
<1>1. Init => OrphansExplained
  BY DEF Init, OrphansExplained
<1>2. IndInv /\ LetterInv /\ OrphansExplained /\ [Next]_vars => OrphansExplained'
  BY OrphansExplainedStep
<1>3. LetterInv /\ OrphansExplained =>
        (crashes = 0 /\ (\A c \in Calls : jobState[c] # "failed") => PermanentFailureVisible)
  BY DEF LetterInv, OrphansExplained, FailureIsAccounted, PermanentFailureVisible
<1>4. QED
  BY <1>1, <1>2, <1>3, Invariance, LettersInvariance, PTL DEF Spec

\* A body that was acked is stored.
AckedIsStored ==
    \A r \in Requests : request[r].pc = "accepted" => delivery[request[r].event] # "absent"

LEMMA AckedStep ==
  ASSUME IndInv, AckedIsStored, [Next]_vars
  PROVE  AckedIsStored'
<1> USE DEF IndInv
<1> SUFFICES ASSUME NEW r \in Requests, request'[r].pc = "accepted"
             PROVE  delivery'[request'[r].event] # "absent"
  BY DEF AckedIsStored
<1>1. CASE request'[r] = request[r]
  <2>1. request[r].event \in Events
    BY <1>1 DEF JobsAreKnown, RequestsKnown
  <2>2. QED
    BY <1>1, <2>1, RowsStay DEF AckedIsStored
<1>2. ASSUME NEW e \in Events, AckDuplicate(r, e)
      PROVE  delivery'[request'[r].event] # "absent"
  BY <1>2 DEF AckDuplicate, TypeOK, database
<1>3. CASE Enqueue(r)
  <2>1. request'[r].event = request[r].event /\ request[r].event \in Events
    BY <1>3 DEF Enqueue, TypeOK, RequestState, JobsAreKnown, RequestsKnown
  <2>2. QED
    BY <1>3, <2>1, RowsStay DEF Enqueue, RowsExist
<1>4. ASSUME NEW q \in Requests, Serve(q)
      PROVE  \/ request'[r] = request[r]
             \/ Enqueue(r)
             \/ \E e \in Events : AckDuplicate(r, e)
  BY <1>4 DEF Serve, StoreDelivery, AckDuplicate, Enqueue, EnqueueFails, TypeOK, RequestState
<1>5. QED
  BY <1>1, <1>2, <1>3, <1>4 DEF Next, Work, Listen, RetryCall, vars, Take, Read,
     RejectPayload, CommitOrder, FindDuplicateOrder, AckDuplicateOrder, Publish,
     ProcessingFails, Finish, Fail, Crash, Dies, Promote, ExpireLock, ReleaseStalled,
     MarkFailed, Park, ParkRefused, MarkDead, FetchLetter, ResetDelivery, Requeue,
     RemoveLetter, CallFails

THEOREM AckedInvariance == Spec => []AckedIsStored
<1>1. Init => AckedIsStored
  BY DEF Init, AckedIsStored
<1>2. IndInv /\ AckedIsStored /\ [Next]_vars => AckedIsStored'
  BY AckedStep
<1>3. QED
  BY <1>1, <1>2, Invariance, PTL DEF Spec

\* "persist exactly what arrived, enqueue, ack" (ingestion.service.ts, 20): an acked
\* body is in the queue, or the request that stored it is at the add, as long as no
\* request has been lost between the row and the job (receive, 35-53).
THEOREM QueuedUnlessARequestIsLost ==
  Spec => []((\A r \in Requests : request[r].pc # "lost") => AckedIsQueued)
<1>1. ASSUME IndInv, StoredIsAccounted, AckedIsStored,
             \A r \in Requests : request[r].pc # "lost"
      PROVE  AckedIsQueued
  <2> SUFFICES ASSUME NEW r \in Requests, request[r].pc = "accepted",
                      jobState[request[r].event] = "absent"
               PROVE  \E q \in Requests :
                        request[q] = [pc |-> "enqueue", event |-> request[r].event]
    BY DEF AckedIsQueued
  <2>1. request[r].event \in Events /\ delivery[request[r].event] # "absent"
    BY <1>1 DEF IndInv, JobsAreKnown, RequestsKnown, AckedIsStored
  <2>2. PICK q \in Requests : /\ request[q].event = request[r].event
                              /\ request[q].pc = "enqueue"
    BY <1>1, <2>1 DEF StoredIsAccounted
  <2>3. request[q] = [pc |-> "enqueue", event |-> request[r].event]
    BY <1>1, <2>2 DEF IndInv, TypeOK, RequestState
  <2>4. QED
    BY <2>3
<1>2. IndInv /\ StoredIsAccounted /\ AckedIsStored
        => ((\A r \in Requests : request[r].pc # "lost") => AckedIsQueued)
  BY <1>1
<1>3. QED
  BY <1>2, Invariance, BodiesAccounted, AckedInvariance, PTL

\* "Malformed payloads are deterministic failures ... skip the backoff ladder"
\* (ingest.processor.ts, 93-94), of the errors that the adapter names: a body on
\* which it raises InvalidProviderPayloadError leaves process() as UnrecoverableError
\* and no other way but the death of its process (process, 50-53 and 93-97).
THEOREM MalformedFailsFast ==
  Spec => [][\A w \in Workers, j \in JobIds :
               worker[w] = [pc |-> "create", job |-> j] /\ DeliveryOf(j) \in Malformed =>
                 \/ worker'[w] = worker[w]
                 \/ worker'[w] = [pc |-> "throwFatal", job |-> j]
                 \/ worker'[w] = Idle /\ Dies(w)]_vars
<1>1. ASSUME IndInv, [Next]_vars, NEW w \in Workers, NEW j \in JobIds,
             worker[w] = [pc |-> "create", job |-> j], DeliveryOf(j) \in Malformed
      PROVE  \/ worker'[w] = worker[w]
             \/ worker'[w] = [pc |-> "throwFatal", job |-> j]
             \/ worker'[w] = Idle /\ Dies(w)
  <2> USE <1>1 DEF IndInv, TypeOK
  <2>1. ASSUME Work(w)
        PROVE  worker'[w] = [pc |-> "throwFatal", job |-> j]
    BY <2>1 DEF Work, Take, Read, RejectPayload, CommitOrder, FindDuplicateOrder,
       AckDuplicateOrder, Publish, ProcessingFails, Finish, Fail, Goto, Idle
  <2>2. ASSUME NEW v \in Workers \ {w}, Work(v) \/ Crash(v)
        PROVE  worker'[w] = worker[w]
    BY <2>2 DEF Work, Take, Read, RejectPayload, CommitOrder, FindDuplicateOrder,
       AckDuplicateOrder, Publish, ProcessingFails, Finish, Fail, Goto, Crash, Dies
  <2>3. ASSUME Crash(w)
        PROVE  worker'[w] = Idle /\ Dies(w)
    BY <2>3 DEF Crash, Dies
  <2>4. ASSUME NEW l \in listeners, Listen(l)
        PROVE  worker'[w] = worker[w] \/ (worker'[w] = Idle /\ Dies(w))
    <3>1. CASE ParkRefused(l) /\ l.worker = w
      BY <3>1 DEF ParkRefused, Dies
    <3>2. CASE ParkRefused(l) /\ l.worker # w
      BY <3>2 DEF ParkRefused, Dies
    <3>3. CASE MarkFailed(l) \/ Park(l) \/ MarkDead(l)
      BY <3>3 DEF MarkFailed, Park, MarkDead
    <3>4. QED
      BY <2>4, <3>1, <3>2, <3>3 DEF Listen
  <2>5. QED
    BY <2>1, <2>2, <2>3, <2>4 DEF Next, Serve, RetryCall, vars, StoreDelivery, AckDuplicate,
       Enqueue, EnqueueFails, Promote, ExpireLock, ReleaseStalled, FetchLetter, ResetDelivery,
       Requeue, RemoveLetter, CallFails
<1>2. IndInv /\ [Next]_vars =>
        \A w \in Workers, j \in JobIds :
          worker[w] = [pc |-> "create", job |-> j] /\ DeliveryOf(j) \in Malformed =>
            \/ worker'[w] = worker[w]
            \/ worker'[w] = [pc |-> "throwFatal", job |-> j]
            \/ worker'[w] = Idle /\ Dies(w)
  BY <1>1
<1>3. QED
  BY <1>2, Invariance, PTL DEF Spec
=============================================================================
