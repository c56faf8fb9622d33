------------------------------ MODULE Webhooks ------------------------------
(***************************************************************************)
(* The way of a processor's event: the HTTP intake inserts a River job,    *)
(* a worker runs it through the dispatcher and ProcessWebhook of the       *)
(* deduplication service, whose records live in Idempotency, and River     *)
(* completes, retries, rescues or discards the job.                        *)
(*                                                                         *)
(* A delivery is a value of UniqueKey; River inserts one job for it and    *)
(* skips the rest.  Two deliveries carry one event when the deduplication  *)
(* key is the same and the unique key is not: CCBill's unique key is a     *)
(* hash of the body, its deduplication key the transaction id.             *)
(*                                                                         *)
(* What a handler does to subscriptions and payments is in Lifecycle; here *)
(* it only returns, with no error, a retryable error or a terminal one.    *)
(***************************************************************************)
EXTENDS Integers, FiniteSets

CONSTANTS Deliveries,    \* unique keys of webhook jobs
          Events,        \* deduplication keys (operation and event id)
          EventOf,       \* the event of each delivery
          Workers,       \* job slots of the River clients
          Procs, ProcOf, \* the processes, and where each worker runs
          MaxAttempts,   \* River's limit on attempts of a job
          None

ASSUME WebhooksAssumption ==
    /\ EventOf \in [Deliveries -> Events]
    /\ ProcOf \in [Workers -> Procs]
    /\ MaxAttempts \in Nat \ {0}
    /\ None \notin Deliveries

VARIABLES redis, mem,  \* see Idempotency
          job,         \* rows of river_job
          worker,      \* what each worker is doing
          settled,     \* history: events whose handler has returned without
                       \* an error, or with a terminal one
          failedOnce,  \* history: events with a retryable failure recorded
          degraded     \* history: events for which a call fell back to memory

vars == <<redis, mem, job, worker, settled, failedOnce, degraded>>

\* An attempt is a delivery and the number of the job's attempt.
Attempts == Deliveries \X (1..MaxAttempts)

INSTANCE Idempotency WITH Keys <- Events

JobState == {"none", "available", "running", "completed", "discarded"}
Job == [state: JobState, attempt: 0..MaxAttempts]
PC == {"idle", "begin", "claim", "handling", "record", "return"}
Outcome == {"ok", "rejected", "failed"}
Worker == [pc: PC, d: Deliveries \cup {None}, outcome: Outcome \cup {None}]
ASSUME NoneIsNothing == None \notin IdempotencyRecord \cup Outcome

Idle == [pc |-> "idle", d |-> None, outcome |-> None]

TypeOK ==
    /\ IdemTypeOK
    /\ job \in [Deliveries -> Job]
    /\ worker \in [Workers -> Worker]
    /\ \A w \in Workers : worker[w].pc # "idle" => worker[w].d # None
    /\ \A w \in Workers :
          worker[w].pc \in {"record", "return"} => worker[w].outcome # None
    /\ settled \subseteq Events
    /\ failedOnce \subseteq Events
    /\ degraded \subseteq Events

Init ==
    /\ IdemInit
    /\ job = [d \in Deliveries |-> [state |-> "none", attempt |-> 0]]
    /\ worker = [w \in Workers |-> Idle]
    /\ settled = {} /\ failedOnce = {} /\ degraded = {}

At(w, pc) == worker[w].pc = pc
Event(w) == EventOf[worker[w].d]
Attempt(w) == <<worker[w].d, job[worker[w].d].attempt>>
Move(w, pc, o) == worker' = [worker EXCEPT ![w] = [pc |-> pc, d |-> @.d, outcome |-> o]]
Orphaned(d) == job[d].state = "running" /\ \A w \in Workers : worker[w].d # d

\* The intake: a verified and well-formed delivery becomes a job.
EnqueueWebhookJob(d) ==
    /\ job[d].state = "none"
    /\ job' = [job EXCEPT ![d].state = "available"]
    /\ UNCHANGED <<redis, mem, worker, settled, failedOnce, degraded>>

\* River hands an available job to a free worker.
Work(w, d) ==
    /\ At(w, "idle")
    /\ job[d].state = "available"
    /\ job' = [job EXCEPT ![d].state = "running", ![d].attempt = @ + 1]
    /\ worker' = [worker EXCEPT ![w] = [pc |-> "begin", d |-> d, outcome |-> None]]
    /\ UNCHANGED <<redis, mem, settled, failedOnce, degraded>>

\* The dispatcher returns an error before ProcessWebhook is reached: no
\* client configured, or a payload it cannot parse.
DispatchFails(w) ==
    /\ At(w, "begin")
    /\ Move(w, "return", "failed")
    /\ UNCHANGED <<redis, mem, job, settled, failedOnce, degraded>>

\* Mutant: a failed record counts as processed.
OnExistingSkippingFailed(w, rec) == Move(w, "return", "ok")

\* ProcessWebhook's decision on a record that exists already.
OnExisting(w, rec) ==
    \/ rec.status \in {"success", "pending"} /\ Move(w, "return", "ok")
    \/ rec.status = "failed" /\ Move(w, "handling", None)

\* beginRedis: GET.
BeginGet(w) ==
    /\ At(w, "begin")
    /\ \/ redis[Event(w)] # None /\ OnExisting(w, redis[Event(w)])
       \/ redis[Event(w)] = None /\ Move(w, "claim", None)
    /\ UNCHANGED <<redis, mem, job, settled, failedOnce, degraded>>

\* beginRedis: SETNX, and the GET after a lost race.
BeginSetNX(w) ==
    /\ At(w, "claim")
    /\ \/ ClaimRedis(Event(w), Attempt(w)) /\ Move(w, "handling", None)
       \/ /\ redis[Event(w)] # None /\ OnExisting(w, redis[Event(w)])
          /\ UNCHANGED <<redis, mem>>
    /\ UNCHANGED <<job, settled, failedOnce, degraded>>

\* GET or SETNX returns an error: beginMemory.
BeginMemory(w) ==
    /\ worker[w].pc \in {"begin", "claim"}
    /\ LET rec == mem[ProcOf[w]][Event(w)] IN
          \/ ClaimMemory(ProcOf[w], Event(w), Attempt(w)) /\ Move(w, "handling", None)
          \/ rec # None /\ OnExisting(w, rec) /\ UNCHANGED <<redis, mem>>
    /\ degraded' = degraded \cup {Event(w)}
    /\ UNCHANGED <<job, settled, failedOnce>>

\* processingFunc returns.
Handle(w, o) ==
    /\ At(w, "handling")
    /\ Move(w, "record", o)
    /\ settled' = IF o = "failed" THEN settled ELSE settled \cup {Event(w)}
    /\ UNCHANGED <<redis, mem, job, failedOnce, degraded>>

\* Mutant: the outcome is not looked at.
StatusAlwaysSuccess(o) == "success"

\* Complete after a success or a terminal error, Fail after a retryable one.
StatusOf(o) == IF o = "failed" THEN "failed" ELSE "success"

\* Mutant: Fail is forgotten, and the claim stays pending.
RecordRedisSuccessOnly(w) ==
    /\ At(w, "record")
    /\ IF worker[w].outcome = "failed"
       THEN UNCHANGED <<redis, mem>>
       ELSE SetRedis(Event(w), "success", Attempt(w))
    /\ Move(w, "return", worker[w].outcome)
    /\ UNCHANGED <<job, settled, failedOnce, degraded>>

RecordRedis(w) ==
    /\ At(w, "record")
    /\ SetRedis(Event(w), StatusOf(worker[w].outcome), Attempt(w))
    /\ failedOnce' = IF worker[w].outcome = "failed"
                     THEN failedOnce \cup {Event(w)} ELSE failedOnce
    /\ Move(w, "return", worker[w].outcome)
    /\ UNCHANGED <<job, settled, degraded>>

\* The same with Redis out of reach, or after River's job timeout: the
\* context that has ended the handler is the one Fail is called with.
RecordMemory(w) ==
    /\ At(w, "record")
    /\ SetMemory(ProcOf[w], Event(w), StatusOf(worker[w].outcome), Attempt(w))
    /\ degraded' = degraded \cup {Event(w)}
    /\ Move(w, "return", worker[w].outcome)
    /\ UNCHANGED <<job, settled, failedOnce>>

\* Mutant: one attempt too many.
RetriedOnceMore(d) == IF job[d].attempt <= MaxAttempts THEN "available" ELSE "discarded"

\* What River makes of a job whose worker returned an error or is gone.
Retried(d) == IF job[d].attempt < MaxAttempts THEN "available" ELSE "discarded"

\* Mutant: a terminal error puts the job back without counting the attempt.
ReturnSnoozing(w) ==
    /\ At(w, "return")
    /\ job' = [job EXCEPT ![worker[w].d] =
                 CASE worker[w].outcome = "failed" -> [@ EXCEPT !.state = Retried(worker[w].d)]
                   [] worker[w].outcome = "rejected" ->
                        [state |-> "available", attempt |-> @.attempt - 1]
                   [] OTHER -> [@ EXCEPT !.state = "completed"]]
    /\ worker' = [worker EXCEPT ![w] = Idle]
    /\ UNCHANGED <<redis, mem, settled, failedOnce, degraded>>

\* Work returns.
Return(w) ==
    /\ At(w, "return")
    /\ job' = [job EXCEPT ![worker[w].d].state =
                 IF worker[w].outcome = "failed" THEN Retried(worker[w].d)
                                                 ELSE "completed"]
    /\ worker' = [worker EXCEPT ![w] = Idle]
    /\ UNCHANGED <<redis, mem, settled, failedOnce, degraded>>

\* A process stops with its workers and its memory; its jobs stay running.
Crash(p) ==
    /\ \E w \in Workers : ProcOf[w] = p /\ worker[w] # Idle
    /\ worker' = [w \in Workers |-> IF ProcOf[w] = p THEN Idle ELSE worker[w]]
    /\ ForgetMemory(p)
    /\ UNCHANGED <<redis, job, settled, failedOnce, degraded>>

\* River's rescuer, an hour after the attempt began, when every record of
\* the attempt is past its TTL.
Rescue(d) ==
    /\ Orphaned(d)
    /\ Expired(<<d, job[d].attempt>>)
    /\ job' = [job EXCEPT ![d].state = Retried(d)]
    /\ UNCHANGED <<redis, mem, worker, settled, failedOnce, degraded>>

\* A pending record outlives the attempt that claimed it: its TTL is five
\* minutes, River ends an attempt after one.
InUse(rec) == rec.status = "pending" /\ \E w \in Workers :
                  worker[w].d # None /\ Attempt(w) = rec.by

Expire(e) ==
    /\ redis[e] # None /\ ~InUse(redis[e])
    /\ ExpireRedis(e)
    /\ UNCHANGED <<job, worker, settled, failedOnce, degraded>>

ExpireMem(p, e) ==
    /\ mem[p][e] # None /\ ~InUse(mem[p][e])
    /\ ExpireMemory(p, e)
    /\ UNCHANGED <<job, worker, settled, failedOnce, degraded>>

WorkerStep(w) ==
    \/ DispatchFails(w) \/ BeginGet(w) \/ BeginSetNX(w) \/ BeginMemory(w)
    \/ \E o \in Outcome : Handle(w, o)
    \/ RecordRedis(w) \/ RecordMemory(w) \/ Return(w)

Next ==
    \/ \E d \in Deliveries : EnqueueWebhookJob(d)
    \/ \E w \in Workers, d \in Deliveries : Work(w, d)
    \/ \E w \in Workers : WorkerStep(w)
    \/ \E p \in Procs : Crash(p)
    \/ \E d \in Deliveries : Rescue(d)
    \/ \E e \in Events : Expire(e)
    \/ \E p \in Procs, e \in Events : ExpireMem(p, e)

\* River runs available jobs, ends running ones, rescues orphans; records
\* have a TTL.  Nothing is assumed of the intake, and crashes may happen.
Fairness ==
    /\ \A d \in Deliveries : WF_vars(\E w \in Workers : Work(w, d))
    /\ \A w \in Workers : WF_vars(WorkerStep(w))
    /\ \A d \in Deliveries : WF_vars(Rescue(d))
    /\ \A e \in Events : WF_vars(Expire(e))
    /\ \A p \in Procs, e \in Events : WF_vars(ExpireMem(p, e))

Spec == Init /\ [][Next]_vars
FairSpec == Spec /\ Fairness

-----------------------------------------------------------------------------
Received(e) == {d \in Deliveries : EventOf[d] = e /\ job[d].state # "none"}
AllCompleted(e) ==
    /\ Received(e) # {}
    /\ \A d \in Received(e) : job[d].state = "completed"

\* A success record, in Redis or in any process, never hides an event that
\* no handler has finished: ProcessWebhook skips on it.
SuccessIsSettled ==
    /\ \A e \in Events :
          redis[e] # None /\ redis[e].status = "success" => e \in settled
    /\ \A p \in Procs, e \in Events :
          mem[p][e] # None /\ mem[p][e].status = "success" => e \in settled

\* When every job of an event has completed, some handler has finished the
\* event, as long as its records were kept in Redis: a duplicate that
\* ProcessWebhook skips as "already in progress" relies on the other job
\* being retried, whatever fails or crashes.
EventNotLost ==
    \A e \in Events \ degraded : AllCompleted(e) => e \in settled

\* Two workers run the handler of one event at the same time only after a
\* failure of it was recorded, or after a fall-back to memory: the SETNX of
\* beginRedis admits one claimant, and its record outlives the attempt.
OneHandlerUntilFailure ==
    \A v, w \in Workers :
        /\ v # w
        /\ worker[v].pc \in {"handling", "record"}
        /\ worker[w].pc \in {"handling", "record"}
        /\ Event(v) = Event(w)
        => Event(v) \in failedOnce \cup degraded

\* An accepted delivery is not left behind: its event is finished, or a job
\* of it is given up visibly (discarded), or its records were degraded.
AcceptedIsSettled ==
    \A d \in Deliveries :
        job[d].state # "none" ~>
            \/ EventOf[d] \in settled \cup degraded
            \/ \E c \in Deliveries : EventOf[c] = EventOf[d] /\ job[c].state = "discarded"

\* Every accepted job comes to an end, Redis or not.
JobsEnd ==
    \A d \in Deliveries :
        job[d].state # "none" ~> job[d].state \in {"completed", "discarded"}

\* Expected to be violated.  A retryable failure makes the next attempt run
\* the handler again, so that no job completes before its event is finished.
FailureIsRetried ==
    \A e \in Events : AllCompleted(e) => e \in settled
=============================================================================
