--------------------------- MODULE IngestPipeline ---------------------------
(***************************************************************************)
(* From the webhook request to the order on the board, and back out of the *)
(* dead-letter queue:                                                      *)
(*                                                                         *)
(*   IngestionService.receive    stores the body, enqueues a job, acks     *)
(*   IngestProcessor.process     turns the stored body into an order       *)
(*   IngestProcessor.onFailed    the worker's `failed' listener            *)
(*   DlqService.retry            resets a delivery and enqueues it again   *)
(*                                                                         *)
(* The database is PostgreSQL: one statement or one transaction is one     *)
(* step.  The queue is BullMQ 5.78 on Redis: one call is one step.  What   *)
(* is between two awaits of a handler is what other processes interleave   *)
(* with, so every handler is a pc and one action per awaited call.         *)
(*                                                                         *)
(* A delivery row is identified with the body that it stores, because      *)
(* externalEventId is the hash of the body and (provider, externalEventId) *)
(* is unique.  The job of delivery e has e as its id (jobId: delivery.id); *)
(* the job that DLQ call c adds has an id of its own, written c.           *)
(***************************************************************************)
EXTENDS Integers

CONSTANTS
    Events,       \* webhook bodies
    Keys,         \* business orders: (provider, externalId)
    KeyOf,        \* the business order a body names
    Malformed,    \* bodies on which the adapter raises InvalidProviderPayloadError
    Poison,       \* bodies on which it, or the insert, always fails another way
    Requests,     \* webhook requests
    Workers,      \* worker processes, each of concurrency 1
    Calls,        \* POST /dlq/:id/retry calls
    None,
    Attempts,     \* INGEST_JOB_OPTIONS.attempts (5 in the code)
    MaxStalls,    \* BullMQ's maxStalledCount (1 by default)
    MaxCrashes,   \* bound: crashes of worker processes
    MaxExpiries   \* bound: locks that expire under a live worker

JobIds == Events \cup Calls

ASSUME KeysAssumption      == KeyOf \in [Events -> Keys]
ASSUME KindsAssumption     == Malformed \subseteq Events /\ Poison \subseteq Events
ASSUME IdsAssumption       == Events \cap Calls = {}
ASSUME NoneAssumption      == None \notin JobIds \cup Workers
ASSUME AttemptsAssumption  == Attempts \in Nat \ {0}
ASSUME StallsAssumption    == MaxStalls \in Nat
ASSUME BoundsAssumption    == MaxCrashes \in Nat /\ MaxExpiries \in Nat

VARIABLES
    \* PostgreSQL
    delivery,      \* body -> WebhookDelivery.status, "absent" without a row
    orders,        \* business order -> the body whose transaction created it
    \* Redis
    jobState,      \* job -> where BullMQ keeps it in the ingest queue
    attemptsMade,  \* job -> executions that ended in a failure
    stalls,        \* job -> times it was taken back from a silent worker
    lock,          \* job -> the worker that holds its lock
    dlq,           \* ids of the letters parked in the ingest-dlq queue
    announced,     \* business order -> order.created messages published
    \* memory of the processes
    request,       \* webhook request -> where its handler is
    worker,        \* worker -> the execution of process() it is in
    listeners,     \* runs of onFailed that have not ended
    call,          \* DLQ retry call -> where its handler is
    \* history, and what is bounded
    orphaned,      \* jobs that failed for good and whose listener died before it parked them
    crashes, expiries

database == <<delivery, orders>>
queue    == <<jobState, attemptsMade, stalls, lock>>
history  == <<orphaned, crashes, expiries>>
vars     == <<database, queue, dlq, announced, request, worker, listeners, call, history>>

Statuses  == {"RECEIVED", "PROCESSED", "FAILED", "DEAD"}
JobStates == {"absent", "waiting", "active", "delayed", "completed", "failed"}

RequestPoints == {"idle", "enqueue", "accepted", "refused", "lost"}
WorkerPoints  == {"idle", "read", "create", "publish", "ackDuplicate", "finish", "throw",
                  "throwFatal"}
CallPoints    == {"idle", "reset", "requeue", "remove", "done", "broken"}

RequestState == [pc : RequestPoints, event : Events \cup {None}]
Execution    == [pc : WorkerPoints, job : JobIds \cup {None}]
CallState    == [pc : CallPoints, letter : JobIds \cup {None}, event : Events \cup {None}]
Listener     == [worker : Workers, job : JobIds, made : Nat, fatal : BOOLEAN,
                 stage : {"emitted", "parked"}]

Idle == [pc |-> "idle", job |-> None]

\* job.data.deliveryId
DeliveryOf(j) == IF j \in Events THEN j ELSE call[j].event

\* job.opts.attempts: only the `ingest' registration of IngestionModule has
\* default job options, the one DlqModule injects has none.
MaxTries(j) == IF j \in Events THEN Attempts ELSE 1

Init ==
    /\ delivery = [e \in Events |-> "absent"]
    /\ orders = [k \in Keys |-> None]
    /\ jobState = [j \in JobIds |-> "absent"]
    /\ attemptsMade = [j \in JobIds |-> 0]
    /\ stalls = [j \in JobIds |-> 0]
    /\ lock = [j \in JobIds |-> None]
    /\ dlq = {}
    /\ announced = [k \in Keys |-> 0]
    /\ request = [r \in Requests |-> [pc |-> "idle", event |-> None]]
    /\ worker = [w \in Workers |-> Idle]
    /\ listeners = {}
    /\ call = [c \in Calls |-> [pc |-> "idle", letter |-> None, event |-> None]]
    /\ orphaned = {}
    /\ crashes = 0
    /\ expiries = 0

-----------------------------------------------------------------------------
(* The webhook endpoint: IngestionService.receive.                         *)

\* webhookDelivery.create succeeds: a body that was never seen.
StoreDelivery(r, e) ==
    /\ request[r].pc = "idle"
    /\ delivery[e] = "absent"
    /\ delivery' = [delivery EXCEPT ![e] = "RECEIVED"]
    /\ request' = [request EXCEPT ![r] = [pc |-> "enqueue", event |-> e]]
    /\ UNCHANGED <<orders, queue, dlq, announced, worker, listeners, call, history>>

\* It raises P2002: acked with the id of the row that is there, nothing queued.
AckDuplicate(r, e) ==
    /\ request[r].pc = "idle"
    /\ delivery[e] # "absent"
    /\ request' = [request EXCEPT ![r] = [pc |-> "accepted", event |-> e]]
    /\ UNCHANGED <<database, queue, dlq, announced, worker, listeners, call, history>>

\* Mutant of Enqueue: the job id is the business order, not the delivery.
Enqueue_JobPerOrder(r) ==
    LET e == request[r].event IN
    /\ request[r].pc = "enqueue"
    /\ jobState' = IF \A f \in Events : KeyOf[f] = KeyOf[e] => jobState[f] = "absent"
                     THEN [jobState EXCEPT ![e] = "waiting"]
                     ELSE jobState
    /\ request' = [request EXCEPT ![r].pc = "accepted"]
    /\ UNCHANGED <<database, attemptsMade, stalls, lock, dlq, announced, worker,
                   listeners, call, history>>

\* ingestQueue.add.  A job id that is there already makes it a no-op; the answer
\* may be lost after the job was added, which the provider sees as a failure.
Enqueue(r) ==
    LET e == request[r].event IN
    /\ request[r].pc = "enqueue"
    /\ jobState' = IF jobState[e] = "absent" THEN [jobState EXCEPT ![e] = "waiting"]
                                             ELSE jobState
    /\ \E outcome \in {"accepted", "refused"} :
         request' = [request EXCEPT ![r].pc = outcome]
    /\ UNCHANGED <<database, attemptsMade, stalls, lock, dlq, announced, worker,
                   listeners, call, history>>

\* Redis refuses the add, or the API process dies before it: a 5xx or no answer.
EnqueueFails(r) ==
    /\ request[r].pc = "enqueue"
    /\ request' = [request EXCEPT ![r].pc = "lost"]
    /\ UNCHANGED <<database, queue, dlq, announced, worker, listeners, call, history>>

-----------------------------------------------------------------------------
(* A worker process: one execution of IngestProcessor.process.             *)

\* The worker moves to another point of process().
Goto(w, pc) == worker' = [worker EXCEPT ![w].pc = pc]

\* A job that stalled more than MaxStalls times is failed without being run.
Take(w, j) ==
    /\ worker[w] = Idle
    /\ jobState[j] = "waiting"
    /\ jobState' = [jobState EXCEPT ![j] = "active"]
    /\ lock' = [lock EXCEPT ![j] = w]
    /\ worker' = [worker EXCEPT ![w] =
                    [pc |-> IF stalls[j] > MaxStalls THEN "throwFatal" ELSE "read", job |-> j]]
    /\ UNCHANGED <<database, attemptsMade, stalls, dlq, announced, request, listeners,
                   call, history>>

\* Mutant of Read: only a delivery that reads RECEIVED is worked on.
Read_OnlyReceived(w) ==
    /\ worker[w].pc = "read"
    /\ Goto(w, IF delivery[DeliveryOf(worker[w].job)] # "RECEIVED" THEN "finish" ELSE "create")
    /\ UNCHANGED <<database, queue, dlq, announced, request, listeners, call, history>>

\* webhookDelivery.findUniqueOrThrow, and the skip of a processed delivery.
Read(w) ==
    /\ worker[w].pc = "read"
    /\ Goto(w, IF delivery[DeliveryOf(worker[w].job)] = "PROCESSED" THEN "finish" ELSE "create")
    /\ UNCHANGED <<database, queue, dlq, announced, request, listeners, call, history>>

\* toCanonicalOrder raises InvalidProviderPayloadError: UnrecoverableError.
RejectPayload(w) ==
    /\ worker[w].pc = "create"
    /\ DeliveryOf(worker[w].job) \in Malformed
    /\ Goto(w, "throwFatal")
    /\ UNCHANGED <<database, queue, dlq, announced, request, listeners, call, history>>

\* The transaction commits: order, audit entry and delivery status at once.
\* Its answer may be lost, which process() sees as a failure.
CommitOrder(w) ==
    LET e == DeliveryOf(worker[w].job) IN
    /\ worker[w].pc = "create"
    /\ e \notin Malformed \cup Poison
    /\ orders[KeyOf[e]] = None
    /\ orders' = [orders EXCEPT ![KeyOf[e]] = e]
    /\ delivery' = [delivery EXCEPT ![e] = "PROCESSED"]
    /\ \E pc \in {"publish", "throw"} : Goto(w, pc)
    /\ UNCHANGED <<queue, dlq, announced, request, listeners, call, history>>

\* Mutant of FindDuplicateOrder: any known Prisma error counts as the duplicate.
FindDuplicateOrder_AnyError(w) ==
    /\ worker[w].pc = "create"
    /\ Goto(w, "ackDuplicate")
    /\ UNCHANGED <<database, queue, dlq, announced, request, listeners, call, history>>

\* Mutant of FindDuplicateOrder: the order that is there is announced again.
FindDuplicateOrder_Republish(w) ==
    /\ worker[w].pc = "create"
    /\ orders[KeyOf[DeliveryOf(worker[w].job)]] # None
    /\ Goto(w, "publish")
    /\ UNCHANGED <<database, queue, dlq, announced, request, listeners, call, history>>

\* It raises P2002 on (provider, externalId): the order is there.
FindDuplicateOrder(w) ==
    LET e == DeliveryOf(worker[w].job) IN
    /\ worker[w].pc = "create"
    /\ e \notin Malformed \cup Poison
    /\ orders[KeyOf[e]] # None
    /\ Goto(w, "ackDuplicate")
    /\ UNCHANGED <<database, queue, dlq, announced, request, listeners, call, history>>

\* The update of the delivery in the P2002 branch, then return; its answer may be lost.
AckDuplicateOrder(w) ==
    /\ worker[w].pc = "ackDuplicate"
    /\ delivery' = [delivery EXCEPT ![DeliveryOf(worker[w].job)] = "PROCESSED"]
    /\ \E pc \in {"finish", "throw"} : Goto(w, pc)
    /\ UNCHANGED <<orders, queue, dlq, announced, request, listeners, call, history>>

\* events.publish(order.created): after the commit; its answer may be lost too.
Publish(w) ==
    LET k == KeyOf[DeliveryOf(worker[w].job)] IN
    /\ worker[w].pc = "publish"
    /\ announced' = [announced EXCEPT ![k] = @ + 1]
    /\ \E pc \in {"finish", "throw"} : Goto(w, pc)
    /\ UNCHANGED <<database, queue, dlq, request, listeners, call, history>>

\* An await of process() rejects with anything but the two errors it knows.
\* A malformed body never gets as far as the transaction.
ProcessingFails(w) ==
    /\ worker[w].pc \in {"read", "create", "ackDuplicate", "publish"}
    /\ worker[w].pc = "create" => DeliveryOf(worker[w].job) \notin Malformed
    /\ Goto(w, "throw")
    /\ UNCHANGED <<database, queue, dlq, announced, request, listeners, call, history>>

-----------------------------------------------------------------------------
(* BullMQ: the end of an execution, and jobs whose worker went silent.     *)

\* process() returned.  Without the lock the job is not the worker's to move.
Finish(w) ==
    LET j == worker[w].job IN
    /\ worker[w].pc = "finish"
    /\ IF lock[j] = w
         THEN /\ jobState' = [jobState EXCEPT ![j] = "completed"]
              /\ lock' = [lock EXCEPT ![j] = None]
         ELSE UNCHANGED <<jobState, lock>>
    /\ worker' = [worker EXCEPT ![w] = Idle]
    /\ UNCHANGED <<database, attemptsMade, stalls, dlq, announced, request, listeners,
                   call, history>>

\* process() threw.  BullMQ decides between another attempt and a final failure,
\* moves the job, and only then emits `failed' in this process.
Fail(w) ==
    LET j     == worker[w].job
        fatal == worker[w].pc = "throwFatal"
        made  == attemptsMade[j] + 1
        retry == ~fatal /\ made < MaxTries(j)
    IN
    /\ worker[w].pc \in {"throw", "throwFatal"}
    /\ IF lock[j] = w
         THEN /\ jobState' = [jobState EXCEPT ![j] = IF retry THEN "delayed" ELSE "failed"]
              /\ attemptsMade' = [attemptsMade EXCEPT ![j] = made]
              /\ lock' = [lock EXCEPT ![j] = None]
              /\ listeners' = listeners \cup
                   {[worker |-> w, job |-> j, made |-> made, fatal |-> fatal, stage |-> "emitted"]}
         ELSE UNCHANGED <<jobState, attemptsMade, lock, listeners>>
    /\ worker' = [worker EXCEPT ![w] = Idle]
    /\ UNCHANGED <<database, stalls, dlq, announced, request, call, history>>

\* The backoff of a delayed job is over.
Promote(j) ==
    /\ jobState[j] = "delayed"
    /\ jobState' = [jobState EXCEPT ![j] = "waiting"]
    /\ UNCHANGED <<database, attemptsMade, stalls, lock, dlq, announced, request, worker,
                   listeners, call, history>>

\* The worker is alive but did not renew the lock of its job in time.
ExpireLock(j) ==
    /\ lock[j] # None
    /\ expiries < MaxExpiries
    /\ lock' = [lock EXCEPT ![j] = None]
    /\ expiries' = expiries + 1
    /\ UNCHANGED <<database, jobState, attemptsMade, stalls, dlq, announced, request, worker,
                   listeners, call, orphaned, crashes>>

\* The stalled check gives a job that nobody holds back to the queue.
ReleaseStalled(j) ==
    /\ jobState[j] = "active"
    /\ lock[j] = None
    /\ jobState' = [jobState EXCEPT ![j] = "waiting"]
    /\ stalls' = [stalls EXCEPT ![j] = @ + 1]
    /\ UNCHANGED <<database, attemptsMade, lock, dlq, announced, request, worker, listeners,
                   call, history>>

\* Mutants of Exhausted: one attempt early, one late, and without the error class.
Exhausted_Early(l)        == l.fatal \/ l.made + 1 >= MaxTries(l.job)
Exhausted_Late(l)         == l.fatal \/ l.made > MaxTries(l.job)
Exhausted_AttemptsOnly(l) == l.made >= MaxTries(l.job)

\* error instanceof UnrecoverableError || job.attemptsMade >= (job.opts.attempts ?? 1)
Exhausted(l) == l.fatal \/ l.made >= MaxTries(l.job)

\* A listener that will park a letter, and has not yet.
Pending(l) == Exhausted(l) /\ l.stage = "emitted"

\* The worker process dies with its execution and its listeners.  The locks that it
\* held run out; the letters that its listeners were about to park are not parked.
Dies(w) ==
    /\ worker' = [worker EXCEPT ![w] = Idle]
    /\ listeners' = {l \in listeners : l.worker # w}
    /\ lock' = [j \in JobIds |-> IF lock[j] = w THEN None ELSE lock[j]]
    /\ orphaned' = orphaned \cup {l.job : l \in {m \in listeners : m.worker = w /\ Pending(m)}}

\* It is killed, or it ends by the unhandled rejection of an onFailed whose database
\* or Redis call failed.
Crash(w) ==
    /\ worker[w] # Idle \/ \E l \in listeners : l.worker = w
    /\ crashes < MaxCrashes
    /\ Dies(w)
    /\ crashes' = crashes + 1
    /\ UNCHANGED <<database, jobState, attemptsMade, stalls, dlq, announced, request, call,
                   expiries>>

-----------------------------------------------------------------------------
(* The `failed' listener: IngestProcessor.onFailed.                        *)

\* Mutant of MarkFailed: a status that the column does not have.
MarkFailed_Retrying(l) ==
    /\ ~Exhausted(l)
    /\ delivery' = [delivery EXCEPT ![DeliveryOf(l.job)] = "RETRYING"]
    /\ listeners' = listeners \ {l}
    /\ UNCHANGED <<orders, queue, dlq, announced, request, worker, call, history>>

\* Another attempt will follow: status FAILED.
MarkFailed(l) ==
    /\ ~Exhausted(l)
    /\ delivery' = [delivery EXCEPT ![DeliveryOf(l.job)] = "FAILED"]
    /\ listeners' = listeners \ {l}
    /\ UNCHANGED <<orders, queue, dlq, announced, request, worker, call, history>>

\* dlqQueue.add with jobId: job.id, which is the delivery's id, a UUID; a no-op when
\* the letter is there.
Park(l) ==
    /\ Pending(l)
    /\ l.job \in Events
    /\ dlq' = dlq \cup {l.job}
    /\ listeners' = (listeners \ {l}) \cup {[l EXCEPT !.stage = "parked"]}
    /\ UNCHANGED <<database, queue, announced, request, worker, call, history>>

\* The id that BullMQ made up for a requeued job is an integer, which it does not take
\* as a custom id ("Custom Id cannot be integers"): the add always rejects, nobody
\* handles the rejection of onFailed, and the process ends.
ParkRefused(l) ==
    /\ Pending(l)
    /\ l.job \in Calls
    /\ Dies(l.worker)
    /\ UNCHANGED <<database, jobState, attemptsMade, stalls, dlq, announced, request, call,
                   crashes, expiries>>

\* Then the status: DEAD.
MarkDead(l) ==
    /\ l.stage = "parked"
    /\ delivery' = [delivery EXCEPT ![DeliveryOf(l.job)] = "DEAD"]
    /\ listeners' = listeners \ {l}
    /\ UNCHANGED <<orders, queue, dlq, announced, request, worker, call, history>>

-----------------------------------------------------------------------------
(* POST /dlq/:id/retry: DlqService.retry.                                  *)

\* dlqQueue.getJob finds the letter (404 otherwise, and nothing happens).
FetchLetter(c, j) ==
    /\ call[c].pc = "idle"
    /\ j \in dlq
    /\ call' = [call EXCEPT ![c] = [pc |-> "reset", letter |-> j, event |-> DeliveryOf(j)]]
    /\ UNCHANGED <<database, queue, dlq, announced, request, worker, listeners, history>>

\* webhookDelivery.update: RECEIVED, error null, whatever the status is by now.
ResetDelivery(c) ==
    /\ call[c].pc = "reset"
    /\ delivery' = [delivery EXCEPT ![call[c].event] = "RECEIVED"]
    /\ call' = [call EXCEPT ![c].pc = "requeue"]
    /\ UNCHANGED <<orders, queue, dlq, announced, request, worker, listeners, history>>

\* ingestQueue.add with an id that BullMQ makes up.
Requeue(c) ==
    /\ call[c].pc = "requeue"
    /\ jobState' = [jobState EXCEPT ![c] = "waiting"]
    /\ call' = [call EXCEPT ![c].pc = "remove"]
    /\ UNCHANGED <<database, attemptsMade, stalls, lock, dlq, announced, request, worker,
                   listeners, history>>

\* job.remove(); a letter that is gone is no error.
RemoveLetter(c) ==
    /\ call[c].pc = "remove"
    /\ dlq' = dlq \ {call[c].letter}
    /\ call' = [call EXCEPT ![c].pc = "done"]
    /\ UNCHANGED <<database, queue, announced, request, worker, listeners, history>>

\* One of the three calls rejects, or the API process dies between them.
CallFails(c) ==
    /\ call[c].pc \in {"reset", "requeue", "remove"}
    /\ call' = [call EXCEPT ![c].pc = "broken"]
    /\ UNCHANGED <<database, queue, dlq, announced, request, worker, listeners, history>>

-----------------------------------------------------------------------------
Serve(r) ==
    \/ \E e \in Events : StoreDelivery(r, e) \/ AckDuplicate(r, e)
    \/ Enqueue(r) \/ EnqueueFails(r)

Work(w) ==
    \/ \E j \in JobIds : Take(w, j)
    \/ Read(w) \/ RejectPayload(w) \/ CommitOrder(w) \/ FindDuplicateOrder(w)
    \/ AckDuplicateOrder(w) \/ Publish(w) \/ ProcessingFails(w)
    \/ Finish(w) \/ Fail(w)

Listen(l) == MarkFailed(l) \/ Park(l) \/ ParkRefused(l) \/ MarkDead(l)

RetryCall(c) ==
    \/ \E j \in JobIds : FetchLetter(c, j)
    \/ ResetDelivery(c) \/ Requeue(c) \/ RemoveLetter(c) \/ CallFails(c)

Next ==
    \/ \E r \in Requests : Serve(r)
    \/ \E w \in Workers : Work(w) \/ Crash(w)
    \/ \E j \in JobIds : Promote(j) \/ ExpireLock(j) \/ ReleaseStalled(j)
    \/ \E l \in listeners : Listen(l)
    \/ \E c \in Calls : RetryCall(c)

Spec == Init /\ [][Next]_vars

(***************************************************************************)
(* Fairness.  A handler that was started goes on until it returns or       *)
(* fails; BullMQ promotes delayed jobs, looks for stalled ones and hands   *)
(* out waiting ones as long as a worker process runs.  Nothing is assumed  *)
(* of the senders, the operators, of crashes, or of the outcome of a call: *)
(* a database that fails every time is fair.                               *)
(***************************************************************************)
Fairness ==
    /\ \A r \in Requests : WF_vars(Enqueue(r) \/ EnqueueFails(r))
    /\ \A w \in Workers : WF_vars(Work(w))
    /\ \A j \in JobIds : WF_vars(Promote(j)) /\ WF_vars(ReleaseStalled(j))
    /\ WF_vars(\E l \in listeners : Listen(l))
    /\ \A c \in Calls : WF_vars(call[c].pc # "idle" /\ RetryCall(c))

-----------------------------------------------------------------------------
(* Properties.                                                             *)

Requeued(j) == \E c \in Calls : call[c].letter = j /\ jobState[c] # "absent"

\* Every variable has its type: the columns, job states and handler positions
\* that the code and BullMQ use.
TypeOK ==
    /\ delivery \in [Events -> Statuses \cup {"absent"}]
    /\ orders \in [Keys -> Events \cup {None}]
    /\ jobState \in [JobIds -> JobStates]
    /\ attemptsMade \in [JobIds -> Nat]
    /\ stalls \in [JobIds -> Nat]
    /\ lock \in [JobIds -> Workers \cup {None}]
    /\ dlq \subseteq Events
    /\ announced \in [Keys -> Nat]
    /\ request \in [Requests -> RequestState]
    /\ worker \in [Workers -> Execution]
    /\ listeners \subseteq Listener
    /\ call \in [Calls -> CallState]
    /\ orphaned \subseteq JobIds
    /\ crashes \in Nat
    /\ expiries \in Nat

\* A delivery that reads PROCESSED, and a job that BullMQ reports as completed,
\* have their order in the database, whatever was retried, taken twice, crashed
\* or reset in between (process, 45-48, 55-84 and 101-110).
SuccessMeansOrder ==
    /\ \A e \in Events : delivery[e] = "PROCESSED" => orders[KeyOf[e]] # None
    /\ \A j \in JobIds : jobState[j] = "completed" => orders[KeyOf[DeliveryOf(j)]] # None

\* order.created is published at most once per business order and never before
\* its transaction committed, however many deliveries, jobs, stalled executions
\* and requeues ran for it (process, 86-87; ADR 0003 "after the commit").
AnnouncedOnceAfterCommit ==
    \A k \in Keys : announced[k] <= 1 /\ (announced[k] = 1 => orders[k] # None)

\* onFailed and BullMQ agree on what a final failure is: a letter is parked, or
\* about to be, only for a job that BullMQ will not run again, and a listener
\* that writes FAILED belongs to an attempt that is not the last
\* (onFailed, 122-123, against job options that differ between the queues).
LettersAreFinal ==
    /\ \A j \in dlq : jobState[j] = "failed"
    /\ \A l \in listeners : Exhausted(l) <=> jobState[l.job] = "failed" /\ l.made = attemptsMade[l.job]

\* A delivery is DEAD only if a job for it failed for good.
DeadMeansFailedJob ==
    \A e \in Events : delivery[e] = "DEAD" =>
        \E j \in JobIds : jobState[j] = "failed" /\ DeliveryOf(j) = e

\* A job that failed for good has its letter, or the listener that will park it has
\* not run, or a retry call queued it again, or the process died under that listener:
\* there is no other way to lose a failure.  The steps of DlqService.retry are in an
\* order that loses no letter, wherever the call breaks (retry, 47-54), and onFailed
\* never takes the last attempt for one of several (onFailed, 122-131).
FailureIsAccounted ==
    \A j \in JobIds : jobState[j] = "failed" =>
        \/ j \in dlq
        \/ \E l \in listeners : l.job = j /\ Pending(l)
        \/ Requeued(j)
        \/ j \in orphaned

\* A stored body has its job, or a request is about to enqueue it, or the request
\* that stored it failed at the add: no other path drops it (receive, 35-53).
StoredIsAccounted ==
    \A e \in Events : delivery[e] # "absent" =>
        \/ jobState[e] # "absent"
        \/ \E r \in Requests : request[r].event = e /\ request[r].pc \in {"enqueue", "lost"}

\* The bodies that are stored, and those for whose delivery a job completed.
Stored  == {e \in Events : delivery[e] # "absent"}
Settled == {DeliveryOf(j) : j \in {i \in JobIds : jobState[i] = "completed"}}

Promise == INSTANCE Intake WITH
    Unreadable <- Malformed \cup Poison,
    stored     <- Stored,
    settled    <- Settled

\* The pipeline keeps the promise of Intake: whatever the queue, the workers and
\* the operators do, it looks like bodies that are stored, at most one order per
\* business key, announced at most once, and settled only when the order is there.
KeepsPromise == Promise!Spec

\* In the end every job that was queued has failed for good, where the operator can
\* see it, or has completed with the order in the database: crashed workers, expired
\* locks and failing calls never leave it running for ever, and no status that an
\* earlier attempt left behind lets a later one complete without doing the work
\* (process, 45-48, under BullMQ's retries and stalled check).
JobsSettle ==
    <>[](\A j \in JobIds :
           \/ jobState[j] \in {"absent", "failed"}
           \/ jobState[j] = "completed" /\ orders[KeyOf[DeliveryOf(j)]] # None)

\* A body that BullMQ accepted ends as an order, or as a letter that the operator sees,
\* or with a job whose failure nobody recorded because the process died under its
\* listener, as it does under that of every requeued job that fails: nothing else
\* vanishes on the way, also in a retry call that breaks (process, onFailed and
\* retry together).
AcceptedIsOrderOrLetter ==
    <>[](\A e \in Events : jobState[e] # "absent" =>
           \/ orders[KeyOf[e]] # None
           \/ \E j \in dlq : DeliveryOf(j) = e
           \/ \E j \in orphaned : DeliveryOf(j) = e)

-----------------------------------------------------------------------------
(* The invariants that make SuccessMeansOrder, AnnouncedOnceAfterCommit    *)
(* and the refinement inductive.                                           *)

\* A webhook handler that is under way knows its body.
RequestsKnown == \A r \in Requests : request[r].pc # "idle" => request[r].event \in Events

\* A worker that is not idle executes a job that was added to the queue.
WorkersKnown ==
    \A w \in Workers : worker[w] # Idle =>
        /\ worker[w].pc # "idle"
        /\ worker[w].job \in JobIds
        /\ jobState[worker[w].job] # "absent"

\* So do listeners and letters; and a lock is on an active job.
NamesKnown ==
    /\ \A l \in listeners : jobState[l.job] # "absent"
    /\ \A j \in dlq : jobState[j] # "absent"
    /\ \A j \in JobIds : lock[j] # None => jobState[j] = "active"

\* A retry call adds its job only after it read the letter's delivery.
CallsKnown ==
    \A c \in Calls :
        /\ call[c].pc \in {"idle", "reset", "requeue"} => jobState[c] = "absent"
        /\ call[c].pc # "idle" => call[c].event \in Events

\* Whatever holds a job id holds one whose delivery is known, and fixed.
JobsAreKnown == RequestsKnown /\ WorkersKnown /\ NamesKnown /\ CallsKnown

\* Whoever is about to touch a delivery row has one to touch.
RowsExist ==
    /\ \A r \in Requests : request[r].pc = "enqueue" => delivery[request[r].event] # "absent"
    /\ \A j \in JobIds : jobState[j] # "absent" => delivery[DeliveryOf(j)] # "absent"
    /\ \A c \in Calls : call[c].pc # "idle" => delivery[call[c].event] # "absent"

\* The points of process() that are reached only when the order is there.
WorkersSeeOrder ==
    \A w \in Workers : worker[w].pc \in {"publish", "ackDuplicate", "finish"} =>
        orders[KeyOf[DeliveryOf(worker[w].job)]] # None

\* The execution that committed an order is the only one that may announce it,
\* and has not done so yet.
OnePublisher ==
    \A w \in Workers : worker[w].pc = "publish" =>
        LET k == KeyOf[DeliveryOf(worker[w].job)] IN
        /\ announced[k] = 0
        /\ \A v \in Workers \ {w} :
             worker[v].pc = "publish" => KeyOf[DeliveryOf(worker[v].job)] # k

IndInv ==
    /\ TypeOK
    /\ JobsAreKnown
    /\ RowsExist
    /\ SuccessMeansOrder
    /\ WorkersSeeOrder
    /\ OnePublisher
    /\ AnnouncedOnceAfterCommit

-----------------------------------------------------------------------------
(* What the repository's documents say, and the code does not do.          *)

\* "persist exactly what arrived, enqueue, ack" (ingestion.service.ts, 20): a
\* body that was acked is in the queue, or the request that stored it is at it.
AckedIsQueued ==
    \A r \in Requests : request[r].pc = "accepted" =>
        \/ jobState[request[r].event] # "absent"
        \/ \E q \in Requests : request[q] = [pc |-> "enqueue", event |-> request[r].event]

\* "Permanent failures are observable and recoverable in one call" (ADR 0004, 9): a
\* job that failed for good has a letter for its body, or its listener will park one,
\* or it was recovered and the outcome is that of the job which a retry call added.
PermanentFailureVisible ==
    \A j \in JobIds : jobState[j] = "failed" =>
        \/ \E i \in dlq : DeliveryOf(i) = DeliveryOf(j)
        \/ \E l \in listeners : l.job = j /\ Pending(l)
        \/ Requeued(j)

\* "what failed permanently" (dlq.controller.ts, 6): a letter is for a body that
\* did not become an order.
LetterMeansNoOrder ==
    \A j \in dlq : orders[KeyOf[DeliveryOf(j)]] # DeliveryOf(j)
=============================================================================
