--------------------------- MODULE WebhooksProofs ---------------------------
(***************************************************************************)
(* Proofs about Webhooks for any deliveries, events, workers, processes    *)
(* and limit on attempts.                                                  *)
(***************************************************************************)
EXTENDS Webhooks, TLAPS

\* A running job has at most one worker, and a worker's job is running.
WorkersOwnJobs ==
    /\ \A v, w \in Workers :
          v # w /\ worker[v].d # None => worker[v].d # worker[w].d
    /\ \A w \in Workers : worker[w].d # None =>
          worker[w].pc # "idle" /\ job[worker[w].d].state = "running"
    /\ \A d \in Deliveries : job[d].state = "running" => job[d].attempt > 0
    /\ \A d \in Deliveries : job[d].state = "available" => job[d].attempt < MaxAttempts
    /\ \A d \in Deliveries : job[d].state = "none" => job[d].attempt = 0

\* Records say what happened.
RecordsTrue ==
    /\ \A w \in Workers :
          worker[w].pc = "record" /\ worker[w].outcome # "failed" => Event(w) \in settled
    /\ \A e \in Events :
          redis[e] # None /\ redis[e].status = "failed" => e \in failedOnce
    /\ \A p \in Procs, e \in Events : mem[p][e] # None => e \in degraded

\* A pending record in Redis belongs to an attempt that is under way, or
\* that a crash cut short and River has not rescued yet.
Owned(e) ==
    \E d \in Deliveries :
        /\ EventOf[d] = e
        /\ job[d].state = "running"
        /\ redis[e].by = <<d, job[d].attempt>>
        /\ \A w \in Workers : worker[w].d = d => worker[w].pc \in {"handling", "record"}

PendingIsOwned ==
    \A e \in Events \ degraded :
        redis[e] # None /\ redis[e].status = "pending" => Owned(e)

\* Before the first failure, whoever runs the handler holds the claim.
HandlerHoldsClaim ==
    \A w \in Workers :
        /\ worker[w].pc \in {"handling", "record"}
        /\ Event(w) \notin failedOnce \cup degraded
        => redis[Event(w)] = Record("pending", Attempt(w))

\* A job that is not over and whose worker is not about to complete it.
Open(d) ==
    /\ job[d].state \in {"available", "running", "discarded"}
    /\ \A w \in Workers : worker[w].d = d =>
          ~(worker[w].pc = "return" /\ worker[w].outcome # "failed")

\* An event that is received and not finished has an open job.
UnsettledIsOpen ==
    \A e \in Events \ (degraded \cup settled) :
        Received(e) # {} => \E d \in Deliveries : EventOf[d] = e /\ Open(d)

IInv ==
    /\ TypeOK
    /\ WorkersOwnJobs
    /\ SuccessIsSettled
    /\ RecordsTrue
    /\ PendingIsOwned
    /\ HandlerHoldsClaim
    /\ UnsettledIsOpen

-----------------------------------------------------------------------------
USE WebhooksAssumption, NoneIsNothing

\* Initially nothing is received and nothing recorded.
LEMMA InitIInv == Init => IInv
  BY DEF Init, IdemInit, IInv, TypeOK, IdemTypeOK, WorkersOwnJobs, SuccessIsSettled,
      RecordsTrue, PendingIsOwned, HandlerHoldsClaim, UnsettledIsOpen, Received, Job,
      JobState, Worker, PC, Outcome, Idle

\* A worker's job, event and attempt.
LEMMA WorkerFacts ==
  ASSUME TypeOK, WorkersOwnJobs, NEW w \in Workers, worker[w].pc # "idle"
  PROVE  /\ worker[w].d \in Deliveries
         /\ Event(w) \in Events
         /\ job[worker[w].d].state = "running"
         /\ Attempt(w) \in Attempts
  BY DEF TypeOK, WorkersOwnJobs, Worker, Event, Attempt, Attempts, Job

\* A record of an attempt is a record.
LEMMA RecordType ==
  ASSUME NEW s \in Status, NEW a \in Attempts
  PROVE  /\ Record(s, a) \in IdempotencyRecord /\ Record(s, a) # None
         /\ Record(s, a).status = s /\ Record(s, a).by = a
  BY DEF Record, IdempotencyRecord

\* Worker w moves to pc with outcome o, within one attempt of its job.
Moving(w, pc, o) ==
    /\ w \in Workers /\ worker[w].pc # "idle"
    /\ pc \in PC \ {"idle"} /\ o \in Outcome \cup {None}
    /\ pc \in {"record", "return"} => o # None
    /\ Move(w, pc, o)
    /\ UNCHANGED job

\* What a move makes of the workers.
LEMMA Moves ==
  ASSUME TypeOK, NEW w, NEW pc, NEW o, Moving(w, pc, o)
  PROVE  /\ worker' \in [Workers -> Worker]
         /\ worker'[w].pc = pc /\ worker'[w].outcome = o
         /\ \A v \in Workers \ {w} : worker'[v] = worker[v]
         /\ \A v \in Workers : worker'[v].d = worker[v].d
         /\ \A v \in Workers : worker'[v].pc # "idle" => worker'[v].d # None
         /\ \A v \in Workers :
               worker'[v].pc \in {"record", "return"} => worker'[v].outcome # None
  BY DEF TypeOK, Worker, Move, Moving

\* A move keeps everybody's job, event and attempt.
LEMMA MoveKeepsJobs ==
  ASSUME TypeOK, WorkersOwnJobs, NEW w, NEW pc, NEW o, Moving(w, pc, o)
  PROVE  /\ WorkersOwnJobs'
         /\ \A v \in Workers : Event(v)' = Event(v) /\ Attempt(v)' = Attempt(v)
<1>1. /\ w \in Workers /\ pc # "idle" /\ job' = job
      /\ worker'[w].pc = pc
      /\ \A v \in Workers \ {w} : worker'[v] = worker[v]
      /\ \A v \in Workers : worker'[v].d = worker[v].d
  BY Moves DEF Moving
<1>2. WorkersOwnJobs'
  BY <1>1 DEF WorkersOwnJobs
<1> QED
  BY <1>1, <1>2 DEF Event, Attempt

\* A move keeps an event open unless the worker is about to complete its job.
LEMMA MoveKeepsOpen ==
  ASSUME IInv, NEW w, NEW pc, NEW o, Moving(w, pc, o),
         settled \subseteq settled', degraded \subseteq degraded',
         pc # "return" \/ o = "failed" \/ Event(w) \in settled' \cup degraded'
  PROVE  UnsettledIsOpen'
<1> SUFFICES ASSUME NEW f \in Events \ (degraded' \cup settled'), Received(f)' # {}
             PROVE  \E d \in Deliveries : EventOf[d] = f /\ Open(d)'
  BY DEF UnsettledIsOpen
<1>1. Received(f) # {} /\ f \notin degraded \cup settled
  BY DEF Received, Moving
<1>2. PICK d \in Deliveries : EventOf[d] = f /\ Open(d)
  BY <1>1 DEF IInv, UnsettledIsOpen
<1>3. /\ w \in Workers /\ job' = job
      /\ worker'[w].pc = pc /\ worker'[w].outcome = o
      /\ \A v \in Workers \ {w} : worker'[v] = worker[v]
      /\ \A v \in Workers : worker'[v].d = worker[v].d
  BY Moves DEF Moving, IInv
<1>4. worker[w].d = d => pc # "return" \/ o = "failed"
  BY <1>2 DEF Event
<1> QED
  BY <1>2, <1>3, <1>4 DEF Open

\* A move keeps a pending record owned unless the owner leaves the handler.
LEMMA MoveKeepsOwned ==
  ASSUME IInv, NEW w, NEW pc, NEW o, Moving(w, pc, o), NEW f \in Events \ degraded,
         redis'[f] = redis[f], redis[f] # None, redis[f].status = "pending",
         \/ pc \in {"handling", "record"}
         \/ worker[w].pc \in {"begin", "claim"}
         \/ f # Event(w)
  PROVE  Owned(f)'
<1>1. PICK d \in Deliveries :
         /\ EventOf[d] = f /\ job[d].state = "running"
         /\ redis[f].by = <<d, job[d].attempt>>
         /\ \A v \in Workers : worker[v].d = d => worker[v].pc \in {"handling", "record"}
  BY DEF IInv, PendingIsOwned, Owned
<1>2. /\ w \in Workers /\ job' = job /\ worker'[w].pc = pc
      /\ \A v \in Workers \ {w} : worker'[v] = worker[v]
      /\ \A v \in Workers : worker'[v].d = worker[v].d
  BY Moves DEF Moving, IInv
<1>3. worker[w].d = d => pc \in {"handling", "record"}
  BY <1>1, <1>2 DEF Event
<1> QED
  BY <1>1, <1>2, <1>3 DEF Owned

\* A worker returns without running the handler: with an error, or because
\* another job will see to the event.
LEMMA SkipStep ==
  ASSUME IInv, NEW w \in Workers, worker[w].pc \in {"begin", "claim"}, NEW o \in Outcome,
         Move(w, "return", o), UNCHANGED <<redis, mem, job, settled, failedOnce>>,
         degraded' \in {degraded, degraded \cup {Event(w)}},
         \/ o = "failed"
         \/ Event(w) \in settled \cup degraded'
         \/ redis[Event(w)] # None /\ redis[Event(w)].status = "pending"
  PROVE  IInv'
<1> DEFINE e == Event(w)
<1>0. TypeOK /\ WorkersOwnJobs
  BY DEF IInv
<1>1. Moving(w, "return", o)
  BY <1>0 DEF Moving, PC, TypeOK, Worker
<1>2. e \in Events /\ worker[w].d \in Deliveries /\ Attempt(w) \in Attempts
  BY <1>0, <1>1, WorkerFacts DEF Moving
<1>3. /\ worker' \in [Workers -> Worker]
      /\ worker'[w].pc = "return" /\ worker'[w].outcome = o
      /\ \A v \in Workers \ {w} : worker'[v] = worker[v]
      /\ \A v \in Workers : worker'[v].d = worker[v].d
      /\ \A v \in Workers : worker'[v].pc # "idle" => worker'[v].d # None
      /\ \A v \in Workers :
            worker'[v].pc \in {"record", "return"} => worker'[v].outcome # None
  BY <1>0, <1>1, Moves
<1>4. \A v \in Workers : Event(v)' = Event(v) /\ Attempt(v)' = Attempt(v)
  BY <1>0, <1>1, MoveKeepsJobs
<1>6. TypeOK'
  BY <1>0, <1>2, <1>3, <1>4 DEF TypeOK, IdemTypeOK
<1>7. WorkersOwnJobs'
  BY <1>0, <1>1, MoveKeepsJobs
<1>8. SuccessIsSettled'
  BY <1>0, <1>2, <1>3, <1>4 DEF IInv, SuccessIsSettled, RecordsTrue, TypeOK, IdemTypeOK
<1>9. RecordsTrue'
  BY <1>0, <1>2, <1>3, <1>4 DEF IInv, RecordsTrue, TypeOK, IdemTypeOK
<1>10. PendingIsOwned'
  BY <1>0, <1>2, <1>3, <1>4, <1>1, MoveKeepsOwned DEF IInv, PendingIsOwned, TypeOK,
     IdemTypeOK
<1>11. HandlerHoldsClaim'
  BY <1>0, <1>2, <1>3, <1>4 DEF IInv, HandlerHoldsClaim, TypeOK, IdemTypeOK
<1>12. UnsettledIsOpen'
  <2> SUFFICES ASSUME NEW f \in Events \ (degraded' \cup settled), Received(f) # {}
               PROVE  \E d \in Deliveries : EventOf[d] = f /\ Open(d)'
    BY DEF UnsettledIsOpen, Received
  <2>1. PICK d \in Deliveries : EventOf[d] = f /\ Open(d)
    BY DEF IInv, UnsettledIsOpen
  <2>2. CASE worker[w].d # d \/ o = "failed"
    BY <1>3, <2>1, <2>2 DEF Open
  <2>3. CASE worker[w].d = d /\ o # "failed"
    <3>1. f = e /\ redis[e] # None /\ redis[e].status = "pending"
      BY <2>1, <2>3 DEF Event
    <3>2. PICK c \in Deliveries :
             /\ EventOf[c] = f /\ job[c].state = "running"
             /\ \A v \in Workers : worker[v].d = c => worker[v].pc \in {"handling", "record"}
      BY <1>2, <3>1 DEF IInv, PendingIsOwned, Owned
    <3>3. worker[w].d # c
      BY <3>2
    <3> QED
      BY <1>3, <3>2, <3>3 DEF Open
  <2> QED
    BY <2>2, <2>3
<1> QED
  BY <1>6, <1>7, <1>8, <1>9, <1>10, <1>11, <1>12 DEF IInv

\* A worker found no record and goes on to claim the event.
LEMMA ToClaimStep ==
  ASSUME IInv, NEW w \in Workers, worker[w].pc = "begin", Move(w, "claim", None),
         UNCHANGED <<redis, mem, job, settled, failedOnce, degraded>>
  PROVE  IInv'
<1> DEFINE e == Event(w)
<1>0. TypeOK /\ WorkersOwnJobs
  BY DEF IInv
<1>1. Moving(w, "claim", None)
  BY <1>0 DEF Moving, PC, TypeOK, Worker
<1>2. e \in Events /\ worker[w].d \in Deliveries /\ Attempt(w) \in Attempts
  BY <1>0, <1>1, WorkerFacts DEF Moving
<1>3. /\ worker' \in [Workers -> Worker]
      /\ worker'[w].pc = "claim" /\ worker'[w].outcome = None
      /\ \A v \in Workers \ {w} : worker'[v] = worker[v]
      /\ \A v \in Workers : worker'[v].d = worker[v].d
      /\ \A v \in Workers : worker'[v].pc # "idle" => worker'[v].d # None
      /\ \A v \in Workers :
            worker'[v].pc \in {"record", "return"} => worker'[v].outcome # None
  BY <1>0, <1>1, Moves
<1>4. \A v \in Workers : Event(v)' = Event(v) /\ Attempt(v)' = Attempt(v)
  BY <1>0, <1>1, MoveKeepsJobs
<1>6. TypeOK'
  BY <1>0, <1>2, <1>3, <1>4 DEF TypeOK, IdemTypeOK
<1>7. WorkersOwnJobs'
  BY <1>0, <1>1, MoveKeepsJobs
<1>8. SuccessIsSettled'
  BY <1>0, <1>2, <1>3, <1>4 DEF IInv, SuccessIsSettled, RecordsTrue, TypeOK, IdemTypeOK
<1>9. RecordsTrue'
  BY <1>0, <1>2, <1>3, <1>4 DEF IInv, RecordsTrue, TypeOK, IdemTypeOK
<1>10. PendingIsOwned'
  BY <1>0, <1>2, <1>3, <1>4, <1>1, MoveKeepsOwned DEF IInv, PendingIsOwned, TypeOK,
     IdemTypeOK
<1>11. HandlerHoldsClaim'
  BY <1>0, <1>2, <1>3, <1>4 DEF IInv, HandlerHoldsClaim, TypeOK, IdemTypeOK
<1>12. UnsettledIsOpen'
  BY <1>1, MoveKeepsOpen DEF RecordsTrue, IInv
<1> QED
  BY <1>6, <1>7, <1>8, <1>9, <1>10, <1>11, <1>12 DEF IInv

\* A worker found a failed record and runs the handler without a claim.
LEMMA RunsAgainStep ==
  ASSUME IInv, NEW w \in Workers, worker[w].pc \in {"begin", "claim"}, Move(w, "handling", None),
         UNCHANGED <<redis, mem, job, settled, failedOnce>>,
         degraded' \in {degraded, degraded \cup {Event(w)}},
         Event(w) \in failedOnce \cup degraded'
  PROVE  IInv'
<1> DEFINE e == Event(w)
<1>0. TypeOK /\ WorkersOwnJobs
  BY DEF IInv
<1>1. Moving(w, "handling", None)
  BY <1>0 DEF Moving, PC, TypeOK, Worker
<1>2. e \in Events /\ worker[w].d \in Deliveries /\ Attempt(w) \in Attempts
  BY <1>0, <1>1, WorkerFacts DEF Moving
<1>3. /\ worker' \in [Workers -> Worker]
      /\ worker'[w].pc = "handling" /\ worker'[w].outcome = None
      /\ \A v \in Workers \ {w} : worker'[v] = worker[v]
      /\ \A v \in Workers : worker'[v].d = worker[v].d
      /\ \A v \in Workers : worker'[v].pc # "idle" => worker'[v].d # None
      /\ \A v \in Workers :
            worker'[v].pc \in {"record", "return"} => worker'[v].outcome # None
  BY <1>0, <1>1, Moves
<1>4. \A v \in Workers : Event(v)' = Event(v) /\ Attempt(v)' = Attempt(v)
  BY <1>0, <1>1, MoveKeepsJobs
<1>6. TypeOK'
  BY <1>0, <1>2, <1>3, <1>4 DEF TypeOK, IdemTypeOK
<1>7. WorkersOwnJobs'
  BY <1>0, <1>1, MoveKeepsJobs
<1>8. SuccessIsSettled'
  BY <1>0, <1>2, <1>3, <1>4 DEF IInv, SuccessIsSettled, RecordsTrue, TypeOK, IdemTypeOK
<1>9. RecordsTrue'
  BY <1>0, <1>2, <1>3, <1>4 DEF IInv, RecordsTrue, TypeOK, IdemTypeOK
<1>10. PendingIsOwned'
  BY <1>0, <1>2, <1>3, <1>4, <1>1, MoveKeepsOwned DEF IInv, PendingIsOwned, TypeOK,
     IdemTypeOK
<1>11. HandlerHoldsClaim'
  BY <1>0, <1>2, <1>3, <1>4 DEF IInv, HandlerHoldsClaim, TypeOK, IdemTypeOK
<1>12. UnsettledIsOpen'
  BY <1>1, MoveKeepsOpen DEF RecordsTrue, IInv
<1> QED
  BY <1>6, <1>7, <1>8, <1>9, <1>10, <1>11, <1>12 DEF IInv

\* SETNX succeeds: the record names the claimant's attempt.
LEMMA ClaimRedisStep ==
  ASSUME IInv, NEW w \in Workers, At(w, "claim"), ClaimRedis(Event(w), Attempt(w)),
         Move(w, "handling", None), UNCHANGED <<job, settled, failedOnce, degraded>>
  PROVE  IInv'
<1> DEFINE e == Event(w)
<1>0. TypeOK /\ WorkersOwnJobs
  BY DEF IInv
<1>1. Moving(w, "handling", None)
  BY <1>0 DEF At, ClaimRedis, Moving, PC, TypeOK, Worker
<1>2. e \in Events /\ worker[w].d \in Deliveries /\ Attempt(w) \in Attempts
  BY <1>0, <1>1, WorkerFacts DEF Moving
<1>3. /\ worker' \in [Workers -> Worker]
      /\ worker'[w].pc = "handling" /\ worker'[w].outcome = None
      /\ \A v \in Workers \ {w} : worker'[v] = worker[v]
      /\ \A v \in Workers : worker'[v].d = worker[v].d
      /\ \A v \in Workers : worker'[v].pc # "idle" => worker'[v].d # None
      /\ \A v \in Workers :
            worker'[v].pc \in {"record", "return"} => worker'[v].outcome # None
  BY <1>0, <1>1, Moves
<1>4. \A v \in Workers : Event(v)' = Event(v) /\ Attempt(v)' = Attempt(v)
  BY <1>0, <1>1, MoveKeepsJobs
<1>5. /\ Record("pending", Attempt(w)) \in IdempotencyRecord
      /\ Record("pending", Attempt(w)) # None
      /\ Record("pending", Attempt(w)).status = "pending"
      /\ Record("pending", Attempt(w)).by = Attempt(w)
  BY <1>0, <1>2, RecordType DEF StatusOf, Status, At, ClaimRedis
<1>6. TypeOK'
  BY <1>0, <1>2, <1>3, <1>4, <1>5 DEF At, ClaimRedis, TypeOK, IdemTypeOK
<1>7. WorkersOwnJobs'
  BY <1>0, <1>1, MoveKeepsJobs
<1>8. SuccessIsSettled'
  BY <1>0, <1>2, <1>3, <1>4, <1>5 DEF At, ClaimRedis, IInv, SuccessIsSettled, RecordsTrue,
     TypeOK, IdemTypeOK
<1>9. RecordsTrue'
  BY <1>0, <1>2, <1>3, <1>4, <1>5 DEF At, ClaimRedis, IInv, RecordsTrue, TypeOK,
     IdemTypeOK
<1>10. PendingIsOwned'
  <2> SUFFICES ASSUME NEW f \in Events \ degraded, redis'[f] # None,
                      redis'[f].status = "pending"
               PROVE  Owned(f)'
    BY DEF PendingIsOwned
  <2>1. CASE f # e
    BY <1>0, <1>1, <1>2, <2>1, MoveKeepsOwned DEF ClaimRedis, TypeOK, IdemTypeOK
  <2>2. CASE f = e
    <3>1. redis'[e].by = <<worker[w].d, job[worker[w].d].attempt>>
      BY <1>0, <1>2, <1>5 DEF ClaimRedis, TypeOK, IdemTypeOK, Attempt
    <3>2. \A v \in Workers : worker'[v].d = worker[w].d => v = w
      BY <1>0, <1>2, <1>3 DEF WorkersOwnJobs
    <3>3. job[worker[w].d].state = "running"
      BY <1>0, <1>1, WorkerFacts DEF Moving
    <3> QED
      BY <1>2, <1>3, <2>2, <3>1, <3>2, <3>3 DEF Owned, Event
  <2> QED
    BY <2>1, <2>2
<1>11. HandlerHoldsClaim'
  <2> SUFFICES ASSUME NEW v \in Workers, worker'[v].pc \in {"handling", "record"},
                      Event(v)' \notin failedOnce \cup degraded
               PROVE  redis'[Event(v)'] = Record("pending", Attempt(v)')
    BY DEF HandlerHoldsClaim
  <2>1. CASE v = w
    BY <1>0, <1>2, <1>4, <2>1 DEF ClaimRedis, TypeOK, IdemTypeOK
  <2>2. CASE v # w
    <3>1. redis[Event(v)] = Record("pending", Attempt(v))
      BY <1>3, <1>4, <2>2 DEF IInv, HandlerHoldsClaim
    <3>2. worker[v].pc # "idle"
      BY <1>3, <2>2
    <3>3. redis[Event(v)] # None /\ Event(v) \in Events
      BY <1>0, <3>1, <3>2, WorkerFacts, RecordType DEF Status
    <3> QED
      BY <1>0, <1>2, <1>4, <3>1, <3>3 DEF ClaimRedis, TypeOK, IdemTypeOK
  <2> QED
    BY <2>1, <2>2
<1>12. UnsettledIsOpen'
  BY <1>1, MoveKeepsOpen DEF At, ClaimRedis, RecordsTrue, IInv
<1> QED
  BY <1>6, <1>7, <1>8, <1>9, <1>10, <1>11, <1>12 DEF IInv

\* A claim in memory degrades the event.
LEMMA ClaimMemoryStep ==
  ASSUME IInv, NEW w \in Workers, worker[w].pc \in {"begin", "claim"},
         ClaimMemory(ProcOf[w], Event(w), Attempt(w)), Move(w, "handling", None),
         degraded' = degraded \cup {Event(w)}, UNCHANGED <<job, settled, failedOnce>>
  PROVE  IInv'
<1> DEFINE e == Event(w)
<1>0. TypeOK /\ WorkersOwnJobs
  BY DEF IInv
<1>1. Moving(w, "handling", None)
  BY <1>0 DEF At, ClaimMemory, Moving, PC, TypeOK, Worker
<1>2. e \in Events /\ worker[w].d \in Deliveries /\ Attempt(w) \in Attempts
  BY <1>0, <1>1, WorkerFacts DEF Moving
<1>3. /\ worker' \in [Workers -> Worker]
      /\ worker'[w].pc = "handling" /\ worker'[w].outcome = None
      /\ \A v \in Workers \ {w} : worker'[v] = worker[v]
      /\ \A v \in Workers : worker'[v].d = worker[v].d
      /\ \A v \in Workers : worker'[v].pc # "idle" => worker'[v].d # None
      /\ \A v \in Workers :
            worker'[v].pc \in {"record", "return"} => worker'[v].outcome # None
  BY <1>0, <1>1, Moves
<1>4. \A v \in Workers : Event(v)' = Event(v) /\ Attempt(v)' = Attempt(v)
  BY <1>0, <1>1, MoveKeepsJobs
<1>5. /\ Record("pending", Attempt(w)) \in IdempotencyRecord
      /\ Record("pending", Attempt(w)) # None
      /\ Record("pending", Attempt(w)).status = "pending"
      /\ Record("pending", Attempt(w)).by = Attempt(w)
  BY <1>0, <1>2, RecordType DEF StatusOf, Status, At, ClaimMemory
<1>6. TypeOK'
  BY <1>0, <1>2, <1>3, <1>4, <1>5 DEF At, ClaimMemory, TypeOK, IdemTypeOK
<1>7. WorkersOwnJobs'
  BY <1>0, <1>1, MoveKeepsJobs
<1>8. SuccessIsSettled'
  BY <1>0, <1>2, <1>3, <1>4, <1>5 DEF At, ClaimMemory, IInv, SuccessIsSettled,
     RecordsTrue, TypeOK, IdemTypeOK
<1>9. RecordsTrue'
  BY <1>0, <1>2, <1>3, <1>4, <1>5 DEF At, ClaimMemory, IInv, RecordsTrue, TypeOK,
     IdemTypeOK
<1>10. PendingIsOwned'
  BY <1>0, <1>2, <1>3, <1>4, <1>5, <1>1, MoveKeepsOwned DEF At, ClaimMemory, IInv,
     PendingIsOwned, TypeOK, IdemTypeOK
<1>11. HandlerHoldsClaim'
  BY <1>0, <1>2, <1>3, <1>4, <1>5, ZenonT(40) DEF At, ClaimMemory, IInv, HandlerHoldsClaim, TypeOK,
     IdemTypeOK
<1>12. UnsettledIsOpen'
  BY <1>1, MoveKeepsOpen DEF At, ClaimMemory, RecordsTrue, IInv
<1> QED
  BY <1>6, <1>7, <1>8, <1>9, <1>10, <1>11, <1>12 DEF IInv

\* The handler returns.
LEMMA HandleStep ==
  ASSUME IInv, NEW w \in Workers, NEW o \in Outcome, Handle(w, o)
  PROVE  IInv'
<1> DEFINE e == Event(w)
<1>0. TypeOK /\ WorkersOwnJobs
  BY DEF IInv
<1>1. Moving(w, "record", o)
  BY <1>0 DEF Handle, At, Moving, PC, TypeOK, Worker
<1>2. e \in Events /\ worker[w].d \in Deliveries /\ Attempt(w) \in Attempts
  BY <1>0, <1>1, WorkerFacts DEF Moving
<1>3. /\ worker' \in [Workers -> Worker]
      /\ worker'[w].pc = "record" /\ worker'[w].outcome = o
      /\ \A v \in Workers \ {w} : worker'[v] = worker[v]
      /\ \A v \in Workers : worker'[v].d = worker[v].d
      /\ \A v \in Workers : worker'[v].pc # "idle" => worker'[v].d # None
      /\ \A v \in Workers :
            worker'[v].pc \in {"record", "return"} => worker'[v].outcome # None
  BY <1>0, <1>1, Moves
<1>4. \A v \in Workers : Event(v)' = Event(v) /\ Attempt(v)' = Attempt(v)
  BY <1>0, <1>1, MoveKeepsJobs
<1>6. TypeOK'
  BY <1>0, <1>2, <1>3, <1>4 DEF Handle, At, TypeOK, IdemTypeOK
<1>7. WorkersOwnJobs'
  BY <1>0, <1>1, MoveKeepsJobs
<1>8. SuccessIsSettled'
  BY <1>0, <1>2, <1>3, <1>4 DEF Handle, At, IInv, SuccessIsSettled, RecordsTrue, TypeOK,
     IdemTypeOK
<1>9. RecordsTrue'
  BY <1>0, <1>2, <1>3, <1>4 DEF Handle, At, IInv, RecordsTrue, TypeOK, IdemTypeOK
<1>10. PendingIsOwned'
  BY <1>0, <1>2, <1>3, <1>4, <1>1, MoveKeepsOwned DEF Handle, At, IInv, PendingIsOwned,
     TypeOK, IdemTypeOK
<1>11. HandlerHoldsClaim'
  BY <1>0, <1>2, <1>3, <1>4 DEF Handle, At, IInv, HandlerHoldsClaim, TypeOK, IdemTypeOK
<1>12. UnsettledIsOpen'
  BY <1>1, MoveKeepsOpen DEF Handle, At, RecordsTrue, IInv
<1> QED
  BY <1>6, <1>7, <1>8, <1>9, <1>10, <1>11, <1>12 DEF IInv

\* Complete or Fail in Redis.
LEMMA RecordRedisStep ==
  ASSUME IInv, NEW w \in Workers, RecordRedis(w)
  PROVE  IInv'
<1> DEFINE e == Event(w)
<1>0. TypeOK /\ WorkersOwnJobs
  BY DEF IInv
<1>1. Moving(w, "return", worker[w].outcome)
  BY <1>0 DEF RecordRedis, SetRedis, At, Moving, PC, TypeOK, Worker
<1>2. e \in Events /\ worker[w].d \in Deliveries /\ Attempt(w) \in Attempts
  BY <1>0, <1>1, WorkerFacts DEF Moving
<1>3. /\ worker' \in [Workers -> Worker]
      /\ worker'[w].pc = "return" /\ worker'[w].outcome = worker[w].outcome
      /\ \A v \in Workers \ {w} : worker'[v] = worker[v]
      /\ \A v \in Workers : worker'[v].d = worker[v].d
      /\ \A v \in Workers : worker'[v].pc # "idle" => worker'[v].d # None
      /\ \A v \in Workers :
            worker'[v].pc \in {"record", "return"} => worker'[v].outcome # None
  BY <1>0, <1>1, Moves
<1>4. \A v \in Workers : Event(v)' = Event(v) /\ Attempt(v)' = Attempt(v)
  BY <1>0, <1>1, MoveKeepsJobs
<1>5. /\ Record(StatusOf(worker[w].outcome), Attempt(w)) \in IdempotencyRecord
      /\ Record(StatusOf(worker[w].outcome), Attempt(w)) # None
      /\ Record(StatusOf(worker[w].outcome), Attempt(w)).status = StatusOf(worker[w].outcome)
      /\ Record(StatusOf(worker[w].outcome), Attempt(w)).by = Attempt(w)
  BY <1>0, <1>2, RecordType DEF StatusOf, Status, RecordRedis, SetRedis, At
<1>6. TypeOK'
  BY <1>0, <1>2, <1>3, <1>4, <1>5 DEF RecordRedis, SetRedis, At, TypeOK, IdemTypeOK
<1>7. WorkersOwnJobs'
  BY <1>0, <1>1, MoveKeepsJobs
<1>8. SuccessIsSettled'
  <2>1. worker[w].outcome # "failed" => e \in settled
    BY <1>0 DEF IInv, RecordsTrue, RecordRedis, At
  <2>2. StatusOf(worker[w].outcome) = "success" => worker[w].outcome # "failed"
    BY DEF StatusOf
  <2> QED
    BY <1>0, <1>2, <1>5, <2>1, <2>2 DEF IInv, SuccessIsSettled, RecordRedis, SetRedis,
       TypeOK, IdemTypeOK
<1>9. RecordsTrue'
  <2>1. StatusOf(worker[w].outcome) = "failed" => worker[w].outcome = "failed"
    BY DEF StatusOf
  <2> QED
    BY <1>0, <1>2, <1>3, <1>4, <1>5, <2>1, ZenonT(40) DEF RecordRedis, SetRedis, IInv, RecordsTrue,
       TypeOK, IdemTypeOK
<1>10. PendingIsOwned'
  <2> SUFFICES ASSUME NEW f \in Events \ degraded, redis'[f] # None,
                      redis'[f].status = "pending"
               PROVE  Owned(f)'
    BY DEF PendingIsOwned, RecordRedis
  <2>1. f # e
    BY <1>0, <1>2, <1>5 DEF RecordRedis, SetRedis, StatusOf, TypeOK, IdemTypeOK
  <2> QED
    BY <1>0, <1>1, <1>2, <2>1, MoveKeepsOwned DEF RecordRedis, SetRedis, TypeOK,
       IdemTypeOK
<1>11. HandlerHoldsClaim'
  <2> SUFFICES ASSUME NEW v \in Workers, worker'[v].pc \in {"handling", "record"},
                      Event(v)' \notin failedOnce' \cup degraded
               PROVE  redis'[Event(v)'] = Record("pending", Attempt(v)')
    BY DEF HandlerHoldsClaim, RecordRedis
  <2>1. v # w /\ worker[v].pc \in {"handling", "record"} /\ worker[v].pc # "idle"
    BY <1>3
  <2>2. redis[Event(v)] = Record("pending", Attempt(v)) /\ Event(v) \in Events
    BY <1>0, <1>4, <2>1, WorkerFacts DEF IInv, HandlerHoldsClaim, RecordRedis
  <2>3. CASE Event(v) # e
    BY <1>0, <1>2, <1>4, <2>2, <2>3 DEF RecordRedis, SetRedis, TypeOK, IdemTypeOK
  <2>4. CASE Event(v) = e
    <3>1. redis[e] = Record("pending", Attempt(w))
      BY <1>4, <2>4 DEF IInv, HandlerHoldsClaim, RecordRedis, At
    <3>2. Attempt(v) = Attempt(w)
      BY <1>0, <1>2, <2>1, <2>2, <2>4, <3>1, RecordType, WorkerFacts DEF Status
    <3> QED
      BY <1>0, <1>2, <2>1, <3>2 DEF Attempt, WorkersOwnJobs
  <2> QED
    BY <2>3, <2>4
<1>12. UnsettledIsOpen'
  BY <1>1, MoveKeepsOpen DEF RecordRedis, SetRedis, At, RecordsTrue, IInv
<1> QED
  BY <1>6, <1>7, <1>8, <1>9, <1>10, <1>11, <1>12 DEF IInv

\* Complete or Fail in memory.
LEMMA RecordMemoryStep ==
  ASSUME IInv, NEW w \in Workers, RecordMemory(w)
  PROVE  IInv'
<1> DEFINE e == Event(w)
<1>0. TypeOK /\ WorkersOwnJobs
  BY DEF IInv
<1>1. Moving(w, "return", worker[w].outcome)
  BY <1>0 DEF RecordMemory, SetMemory, At, Moving, PC, TypeOK, Worker
<1>2. e \in Events /\ worker[w].d \in Deliveries /\ Attempt(w) \in Attempts
  BY <1>0, <1>1, WorkerFacts DEF Moving
<1>3. /\ worker' \in [Workers -> Worker]
      /\ worker'[w].pc = "return" /\ worker'[w].outcome = worker[w].outcome
      /\ \A v \in Workers \ {w} : worker'[v] = worker[v]
      /\ \A v \in Workers : worker'[v].d = worker[v].d
      /\ \A v \in Workers : worker'[v].pc # "idle" => worker'[v].d # None
      /\ \A v \in Workers :
            worker'[v].pc \in {"record", "return"} => worker'[v].outcome # None
  BY <1>0, <1>1, Moves
<1>4. \A v \in Workers : Event(v)' = Event(v) /\ Attempt(v)' = Attempt(v)
  BY <1>0, <1>1, MoveKeepsJobs
<1>5. /\ Record(StatusOf(worker[w].outcome), Attempt(w)) \in IdempotencyRecord
      /\ Record(StatusOf(worker[w].outcome), Attempt(w)) # None
      /\ Record(StatusOf(worker[w].outcome), Attempt(w)).status = StatusOf(worker[w].outcome)
      /\ Record(StatusOf(worker[w].outcome), Attempt(w)).by = Attempt(w)
  BY <1>0, <1>2, RecordType DEF StatusOf, Status, RecordMemory, SetMemory, At
<1>6. TypeOK'
  BY <1>0, <1>2, <1>3, <1>4, <1>5 DEF RecordMemory, SetMemory, At, TypeOK, IdemTypeOK
<1>7. WorkersOwnJobs'
  BY <1>0, <1>1, MoveKeepsJobs
<1>8. SuccessIsSettled'
  <2>1. worker[w].outcome # "failed" => e \in settled
    BY <1>0 DEF IInv, RecordsTrue, RecordMemory, At
  <2>2. StatusOf(worker[w].outcome) = "success" => worker[w].outcome # "failed"
    BY DEF StatusOf
  <2> QED
    BY <1>0, <1>2, <1>5, <2>1, <2>2 DEF IInv, SuccessIsSettled, RecordMemory, SetMemory,
       TypeOK, IdemTypeOK
<1>9. RecordsTrue'
  BY <1>0, <1>2, <1>3, <1>4, <1>5 DEF RecordMemory, SetMemory, At, IInv, RecordsTrue,
     TypeOK, IdemTypeOK
<1>10. PendingIsOwned'
  BY <1>0, <1>2, <1>3, <1>4, <1>5, <1>1, MoveKeepsOwned DEF RecordMemory, SetMemory, At,
     IInv, PendingIsOwned, TypeOK, IdemTypeOK
<1>11. HandlerHoldsClaim'
  BY <1>0, <1>2, <1>3, <1>4, <1>5 DEF RecordMemory, SetMemory, At, IInv,
     HandlerHoldsClaim, TypeOK, IdemTypeOK
<1>12. UnsettledIsOpen'
  BY <1>1, MoveKeepsOpen DEF RecordMemory, SetMemory, At, RecordsTrue, IInv
<1> QED
  BY <1>6, <1>7, <1>8, <1>9, <1>10, <1>11, <1>12 DEF IInv

\* A new job is open.
LEMMA EnqueueStep ==
  ASSUME IInv, NEW d \in Deliveries, EnqueueWebhookJob(d)
  PROVE  IInv'
<1>1. TypeOK'
  BY DEF EnqueueWebhookJob, IInv, TypeOK, IdemTypeOK, WorkersOwnJobs, Job, JobState,
     Worker, PC
<1>2. WorkersOwnJobs'
  BY DEF EnqueueWebhookJob, IInv, TypeOK, IdemTypeOK, WorkersOwnJobs, Job, Worker
<1>3. SuccessIsSettled'
  BY DEF EnqueueWebhookJob, IInv, TypeOK, IdemTypeOK, WorkersOwnJobs, SuccessIsSettled
<1>4. RecordsTrue'
  BY DEF EnqueueWebhookJob, IInv, TypeOK, IdemTypeOK, WorkersOwnJobs, RecordsTrue, Event,
     Worker
<1>5. PendingIsOwned'
  BY DEF EnqueueWebhookJob, IInv, TypeOK, IdemTypeOK, WorkersOwnJobs, PendingIsOwned,
     Owned, Job, Worker
<1>6. HandlerHoldsClaim'
  BY DEF EnqueueWebhookJob, IInv, TypeOK, IdemTypeOK, WorkersOwnJobs, HandlerHoldsClaim,
     Event, Attempt, Job, Worker
<1>7. UnsettledIsOpen'
  <2> SUFFICES ASSUME NEW f \in Events \ (degraded \cup settled), Received(f)' # {}
               PROVE  \E c \in Deliveries : EventOf[c] = f /\ Open(c)'
    BY DEF UnsettledIsOpen, EnqueueWebhookJob
  <2>1. CASE f = EventOf[d]
    BY <2>1 DEF EnqueueWebhookJob, IInv, TypeOK, WorkersOwnJobs, Open, Job
  <2>2. CASE f # EventOf[d]
    <3>1. Received(f) # {}
      BY <2>2 DEF EnqueueWebhookJob, Received, IInv, TypeOK
    <3>2. PICK c \in Deliveries : EventOf[c] = f /\ Open(c)
      BY <3>1 DEF IInv, UnsettledIsOpen
    <3> QED
      BY <2>2, <3>2 DEF Open, EnqueueWebhookJob, IInv, TypeOK
  <2> QED
    BY <2>1, <2>2
<1> QED
  BY <1>1, <1>2, <1>3, <1>4, <1>5, <1>6, <1>7 DEF IInv

\* A worker takes a job, which stays open.
LEMMA WorkStep ==
  ASSUME IInv, NEW w \in Workers, NEW d \in Deliveries, Work(w, d)
  PROVE  IInv'
<1>1. TypeOK'
  BY DEF Work, At, IInv, TypeOK, IdemTypeOK, WorkersOwnJobs, Job, JobState, Worker, PC
<1>2. WorkersOwnJobs'
  BY DEF Work, At, IInv, TypeOK, IdemTypeOK, WorkersOwnJobs, Job, Worker
<1>3. SuccessIsSettled'
  BY DEF Work, At, IInv, TypeOK, IdemTypeOK, WorkersOwnJobs, SuccessIsSettled
<1>4. RecordsTrue'
  BY DEF Work, At, IInv, TypeOK, IdemTypeOK, WorkersOwnJobs, RecordsTrue, Event, Worker
<1>5. PendingIsOwned'
  BY DEF Work, At, IInv, TypeOK, IdemTypeOK, WorkersOwnJobs, PendingIsOwned, Owned, Job,
     Worker
<1>6. HandlerHoldsClaim'
  BY DEF Work, At, IInv, TypeOK, IdemTypeOK, WorkersOwnJobs, HandlerHoldsClaim, Event,
     Attempt, Job, Worker
<1>7. UnsettledIsOpen'
  <2> SUFFICES ASSUME NEW f \in Events \ (degraded \cup settled), Received(f)' # {}
               PROVE  \E c \in Deliveries : EventOf[c] = f /\ Open(c)'
    BY DEF UnsettledIsOpen, Work
  <2>1. Received(f) # {}
    BY DEF Work, Received, IInv, TypeOK, Job
  <2>2. PICK c \in Deliveries : EventOf[c] = f /\ Open(c)
    BY <2>1 DEF IInv, UnsettledIsOpen
  <2>3. job'[c].state \in {"available", "running", "discarded"}
    BY <2>2 DEF Open, Work, IInv, TypeOK, Job
  <2>4. worker'[w].pc = "begin" /\ \A v \in Workers \ {w} : worker'[v] = worker[v]
    BY DEF Work, IInv, TypeOK
  <2> QED
    BY <2>2, <2>3, <2>4 DEF Open
<1> QED
  BY <1>1, <1>2, <1>3, <1>4, <1>5, <1>6, <1>7 DEF IInv

\* A worker returns and River disposes of the job.
LEMMA ReturnStep ==
  ASSUME IInv, NEW w \in Workers, Return(w)
  PROVE  IInv'
<1>0. /\ worker[w].d \in Deliveries
      /\ worker' \in [Workers -> Worker]
      /\ worker'[w].pc = "idle" /\ worker'[w].d = None /\ worker'[w].outcome = None
      /\ \A v \in Workers \ {w} : worker'[v] = worker[v] /\ worker[v].d # worker[w].d
      /\ job'[worker[w].d].state \in {"available", "completed", "discarded"}
      /\ job'[worker[w].d].attempt = job[worker[w].d].attempt
      /\ \A d \in Deliveries \ {worker[w].d} : job'[d] = job[d]
      /\ job' \in [Deliveries -> Job]
      /\ job'[worker[w].d].state = "available" => job[worker[w].d].attempt < MaxAttempts
      /\ job[worker[w].d].state = "running"
  <2>1. worker[w].d \in Deliveries
    BY DEF Return, At, IInv, TypeOK, Worker
  <2>2. /\ worker' \in [Workers -> Worker]
        /\ worker'[w].pc = "idle" /\ worker'[w].d = None /\ worker'[w].outcome = None
        /\ \A v \in Workers \ {w} : worker'[v] = worker[v] /\ worker[v].d # worker[w].d
    BY <2>1 DEF Return, IInv, TypeOK, WorkersOwnJobs, Worker, PC, Idle
  <2> QED
    BY <2>1, <2>2 DEF Return, Retried, IInv, TypeOK, WorkersOwnJobs, Job, JobState
<1>1. TypeOK'
  BY <1>0 DEF Return, At, IInv, TypeOK, IdemTypeOK, WorkersOwnJobs, Job, JobState, Worker,
     PC
<1>2. WorkersOwnJobs'
  BY <1>0 DEF Return, At, IInv, TypeOK, IdemTypeOK, WorkersOwnJobs, Job, Worker
<1>3. SuccessIsSettled'
  BY <1>0 DEF Return, At, IInv, TypeOK, IdemTypeOK, WorkersOwnJobs, SuccessIsSettled
<1>4. RecordsTrue'
  BY <1>0 DEF Return, At, IInv, TypeOK, IdemTypeOK, WorkersOwnJobs, RecordsTrue, Event,
     Worker
<1>5. PendingIsOwned'
  <2> SUFFICES ASSUME NEW f \in Events \ degraded, redis[f] # None, redis[f].status = "pending"
               PROVE  Owned(f)'
    BY DEF PendingIsOwned, Return
  <2>1. PICK c \in Deliveries :
           /\ EventOf[c] = f /\ job[c].state = "running"
           /\ redis[f].by = <<c, job[c].attempt>>
           /\ \A v \in Workers : worker[v].d = c => worker[v].pc \in {"handling", "record"}
    BY DEF IInv, PendingIsOwned, Owned
  <2>2. worker[w].d # c
    BY <2>1 DEF Return, At
  <2> QED
    BY <1>0, <2>1, <2>2 DEF Owned, Return
<1>6. HandlerHoldsClaim'
  BY <1>0 DEF Return, At, IInv, TypeOK, IdemTypeOK, WorkersOwnJobs, HandlerHoldsClaim,
     Event, Attempt, Job, Worker
<1>7. UnsettledIsOpen'
  <2> SUFFICES ASSUME NEW f \in Events \ (degraded \cup settled), Received(f)' # {}
               PROVE  \E c \in Deliveries : EventOf[c] = f /\ Open(c)'
    BY DEF UnsettledIsOpen, Return
  <2>1. Received(f) # {}
    <3>1. PICK c \in Deliveries : EventOf[c] = f /\ job'[c].state # "none"
      BY DEF Received
    <3>2. job[c].state # "none"
      BY <1>0, <3>1
    <3> QED
      BY <3>1, <3>2 DEF Received
  <2>2. PICK c \in Deliveries : EventOf[c] = f /\ Open(c)
    BY <2>1 DEF IInv, UnsettledIsOpen
  <2>3. c = worker[w].d => worker[w].outcome = "failed"
    BY <2>2 DEF Open, Return, At
  <2>4. job'[c].state \in {"available", "running", "discarded"}
    BY <1>0, <2>2, <2>3 DEF Open, Return, Retried, IInv, TypeOK
  <2> QED
    BY <1>0, <2>2, <2>4 DEF Open
<1> QED
  BY <1>1, <1>2, <1>3, <1>4, <1>5, <1>6, <1>7 DEF IInv

\* A crash leaves jobs running without a worker, hence open.
LEMMA CrashStep ==
  ASSUME IInv, NEW p \in Procs, Crash(p)
  PROVE  IInv'
<1>1. TypeOK'
  BY DEF Crash, ForgetMemory, Idle, IInv, TypeOK, IdemTypeOK, WorkersOwnJobs, Job,
     JobState, Worker, PC
<1>2. WorkersOwnJobs'
  BY DEF Crash, ForgetMemory, Idle, IInv, TypeOK, IdemTypeOK, WorkersOwnJobs, Job, Worker
<1>3. SuccessIsSettled'
  BY DEF Crash, ForgetMemory, Idle, IInv, TypeOK, IdemTypeOK, WorkersOwnJobs,
     SuccessIsSettled
<1>4. RecordsTrue'
  BY DEF Crash, ForgetMemory, Idle, IInv, TypeOK, IdemTypeOK, WorkersOwnJobs, RecordsTrue,
     Event, Worker
<1>5. PendingIsOwned'
  BY DEF Crash, ForgetMemory, Idle, IInv, TypeOK, IdemTypeOK, WorkersOwnJobs,
     PendingIsOwned, Owned, Job, Worker
<1>6. HandlerHoldsClaim'
  BY DEF Crash, ForgetMemory, Idle, IInv, TypeOK, IdemTypeOK, WorkersOwnJobs,
     HandlerHoldsClaim, Event, Attempt, Job, Worker
<1>7. UnsettledIsOpen'
  <2> SUFFICES ASSUME NEW f \in Events \ (degraded \cup settled), Received(f)' # {}
               PROVE  \E c \in Deliveries : EventOf[c] = f /\ Open(c)'
    BY DEF UnsettledIsOpen, Crash
  <2>1. Received(f) # {}
    BY DEF Crash, Received
  <2>2. PICK c \in Deliveries : EventOf[c] = f /\ Open(c)
    BY <2>1 DEF IInv, UnsettledIsOpen
  <2>3. \A v \in Workers : worker'[v] = worker[v] \/ worker'[v].pc = "idle"
    BY DEF Crash, Idle
  <2> QED
    BY <2>2, <2>3 DEF Open, Crash
<1> QED
  BY <1>1, <1>2, <1>3, <1>4, <1>5, <1>6, <1>7 DEF IInv

\* A rescued job has no record left.
LEMMA RescueStep ==
  ASSUME IInv, NEW d \in Deliveries, Rescue(d)
  PROVE  IInv'
<1>1. TypeOK'
  BY DEF Rescue, Retried, Orphaned, Expired, IInv, TypeOK, IdemTypeOK, WorkersOwnJobs,
     Job, JobState, Worker, PC
<1>2. WorkersOwnJobs'
  BY DEF Rescue, Retried, Orphaned, Expired, IInv, TypeOK, IdemTypeOK, WorkersOwnJobs,
     Job, Worker
<1>3. SuccessIsSettled'
  BY DEF Rescue, Retried, Orphaned, Expired, IInv, TypeOK, IdemTypeOK, WorkersOwnJobs,
     SuccessIsSettled
<1>4. RecordsTrue'
  BY DEF Rescue, Retried, Orphaned, Expired, IInv, TypeOK, IdemTypeOK, WorkersOwnJobs,
     RecordsTrue, Event, Worker
<1>5. PendingIsOwned'
  BY DEF Rescue, Retried, Orphaned, Expired, IInv, TypeOK, IdemTypeOK, WorkersOwnJobs,
     PendingIsOwned, Owned, Job, Worker
<1>6. HandlerHoldsClaim'
  BY DEF Rescue, Retried, Orphaned, Expired, IInv, TypeOK, IdemTypeOK, WorkersOwnJobs,
     HandlerHoldsClaim, Event, Attempt, Job, Worker
<1>7. UnsettledIsOpen'
  BY DEF Rescue, Retried, Orphaned, Expired, IInv, TypeOK, IdemTypeOK, WorkersOwnJobs,
     UnsettledIsOpen, Open, Received, Event, Job, Worker
<1> QED
  BY <1>1, <1>2, <1>3, <1>4, <1>5, <1>6, <1>7 DEF IInv

\* No record in use expires.
LEMMA ExpireStep ==
  ASSUME IInv, NEW f \in Events, Expire(f)
  PROVE  IInv'
<1>1. TypeOK'
  BY DEF Expire, ExpireRedis, IInv, TypeOK, IdemTypeOK, WorkersOwnJobs, Job, JobState,
     Worker, PC
<1>2. WorkersOwnJobs'
  BY DEF Expire, ExpireRedis, IInv, TypeOK, IdemTypeOK, WorkersOwnJobs, Job, Worker
<1>3. SuccessIsSettled'
  BY DEF Expire, ExpireRedis, IInv, TypeOK, IdemTypeOK, WorkersOwnJobs, SuccessIsSettled
<1>4. RecordsTrue'
  BY DEF Expire, ExpireRedis, IInv, TypeOK, IdemTypeOK, WorkersOwnJobs, RecordsTrue,
     Event, Worker
<1>5. PendingIsOwned'
  BY DEF Expire, ExpireRedis, IInv, TypeOK, IdemTypeOK, WorkersOwnJobs, PendingIsOwned,
     Owned, Job, Worker
<1>6. HandlerHoldsClaim'
  <2> SUFFICES ASSUME NEW v \in Workers, worker[v].pc \in {"handling", "record"},
                      Event(v) \notin failedOnce \cup degraded
               PROVE  redis'[Event(v)] = Record("pending", Attempt(v))
    BY DEF HandlerHoldsClaim, Expire, Event, Attempt
  <2>1. redis[Event(v)] = Record("pending", Attempt(v))
    BY DEF IInv, HandlerHoldsClaim
  <2>2. worker[v].pc # "idle" /\ worker[v].d # None
    BY DEF IInv, TypeOK
  <2>3. /\ Event(v) \in Events /\ Attempt(v) \in Attempts
        /\ redis[Event(v)].status = "pending" /\ redis[Event(v)].by = Attempt(v)
    BY <2>1, <2>2, WorkerFacts, RecordType DEF IInv, Status
  <2>4. Event(v) # f
    BY <2>2, <2>3 DEF Expire, InUse
  <2> QED
    BY <2>1, <2>3, <2>4 DEF Expire, ExpireRedis, IInv, TypeOK, IdemTypeOK
<1>7. UnsettledIsOpen'
  BY DEF Expire, ExpireRedis, IInv, TypeOK, IdemTypeOK, WorkersOwnJobs, UnsettledIsOpen,
     Open, Received, Event, Job, Worker
<1> QED
  BY <1>1, <1>2, <1>3, <1>4, <1>5, <1>6, <1>7 DEF IInv

\* Records in memory only exist for degraded events.
LEMMA ExpireMemStep ==
  ASSUME IInv, NEW p \in Procs, NEW f \in Events, ExpireMem(p, f)
  PROVE  IInv'
<1>1. TypeOK'
  BY DEF ExpireMem, ExpireMemory, IInv, TypeOK, IdemTypeOK, WorkersOwnJobs, Job, JobState,
     Worker, PC
<1>2. WorkersOwnJobs'
  BY DEF ExpireMem, ExpireMemory, IInv, TypeOK, IdemTypeOK, WorkersOwnJobs, Job, Worker
<1>3. SuccessIsSettled'
  BY DEF ExpireMem, ExpireMemory, IInv, TypeOK, IdemTypeOK, WorkersOwnJobs,
     SuccessIsSettled
<1>4. RecordsTrue'
  BY DEF ExpireMem, ExpireMemory, IInv, TypeOK, IdemTypeOK, WorkersOwnJobs, RecordsTrue,
     Event, Worker
<1>5. PendingIsOwned'
  BY DEF ExpireMem, ExpireMemory, IInv, TypeOK, IdemTypeOK, WorkersOwnJobs,
     PendingIsOwned, Owned, Job, Worker
<1>6. HandlerHoldsClaim'
  BY DEF ExpireMem, ExpireMemory, IInv, TypeOK, IdemTypeOK, WorkersOwnJobs,
     HandlerHoldsClaim, Event, Attempt, Job, Worker
<1>7. UnsettledIsOpen'
  BY DEF ExpireMem, ExpireMemory, IInv, TypeOK, IdemTypeOK, WorkersOwnJobs,
     UnsettledIsOpen, Open, Received, Event, Job, Worker
<1> QED
  BY <1>1, <1>2, <1>3, <1>4, <1>5, <1>6, <1>7 DEF IInv

\* ProcessWebhook's reaction to a record it finds.
LEMMA OnExistingStep ==
  ASSUME IInv, NEW w \in Workers, worker[w].pc \in {"begin", "claim"},
         redis[Event(w)] # None, OnExisting(w, redis[Event(w)]),
         UNCHANGED <<redis, mem, job, settled, failedOnce, degraded>>
  PROVE  IInv'
<1>1. Event(w) \in Events
  BY WorkerFacts DEF IInv
<1>2. redis[Event(w)].status = "failed" => Event(w) \in failedOnce
  BY <1>1 DEF IInv, RecordsTrue
<1>3. redis[Event(w)].status = "success" => Event(w) \in settled
  BY <1>1 DEF IInv, SuccessIsSettled
<1>4. CASE redis[Event(w)].status = "failed" /\ Move(w, "handling", None)
  BY <1>2, <1>4, RunsAgainStep
<1>5. CASE redis[Event(w)].status \in {"success", "pending"} /\ Move(w, "return", "ok")
  BY <1>3, <1>5, SkipStep DEF Outcome
<1> QED
  BY <1>4, <1>5 DEF OnExisting

\* GET.
LEMMA BeginGetStep ==
  ASSUME IInv, NEW w \in Workers, BeginGet(w)
  PROVE  IInv'
  BY OnExistingStep, ToClaimStep DEF BeginGet, At

\* SETNX.
LEMMA BeginSetNXStep ==
  ASSUME IInv, NEW w \in Workers, BeginSetNX(w)
  PROVE  IInv'
  BY OnExistingStep, ClaimRedisStep DEF BeginSetNX, At

\* The fall-back degrades the event, of which nothing more is asked.
LEMMA BeginMemoryStep ==
  ASSUME IInv, NEW w \in Workers, BeginMemory(w)
  PROVE  IInv'
<1>1. CASE ClaimMemory(ProcOf[w], Event(w), Attempt(w)) /\ Move(w, "handling", None)
  BY <1>1, ClaimMemoryStep DEF BeginMemory
<1>2. CASE Move(w, "handling", None) /\ UNCHANGED <<redis, mem>>
  BY <1>2, RunsAgainStep DEF BeginMemory
<1>3. CASE Move(w, "return", "ok") /\ UNCHANGED <<redis, mem>>
  BY <1>3, SkipStep DEF BeginMemory, Outcome
<1> QED
  BY <1>1, <1>2, <1>3 DEF BeginMemory, OnExisting

\* Every step of a worker.
LEMMA WorkerStepIInv ==
  ASSUME IInv, NEW w \in Workers, WorkerStep(w)
  PROVE  IInv'
<1>1. CASE DispatchFails(w)
  BY <1>1, SkipStep DEF DispatchFails, At, Outcome
<1> QED
  BY <1>1, BeginGetStep, BeginSetNXStep, BeginMemoryStep, HandleStep, RecordRedisStep,
     RecordMemoryStep, ReturnStep DEF WorkerStep

\* IInv is inductive.
LEMMA NextIInv == IInv /\ [Next]_vars => IInv'
<1> SUFFICES ASSUME IInv, [Next]_vars PROVE IInv'
  OBVIOUS
<1>1. CASE UNCHANGED vars
  BY <1>1 DEF vars, IInv, TypeOK, IdemTypeOK, WorkersOwnJobs, SuccessIsSettled,
     RecordsTrue,
              PendingIsOwned, Owned, HandlerHoldsClaim, UnsettledIsOpen, Open, Received,
              Event, Attempt
<1> QED
  BY <1>1, EnqueueStep, WorkStep, WorkerStepIInv, CrashStep, RescueStep, ExpireStep,
     ExpireMemStep DEF Next

-----------------------------------------------------------------------------
\* Jobs, workers and records keep their types.
THEOREM TypeCorrect == Spec => []TypeOK
<1>1. IInv => TypeOK
  BY DEF IInv
<1> QED
  BY InitIInv, NextIInv, <1>1, PTL DEF Spec

\* A success record, in Redis or in memory, only exists for an event that a
\* handler has finished, for any number of deliveries, workers and processes
\* and whatever crashes or falls back.
THEOREM SuccessMeansSettled == Spec => []SuccessIsSettled
<1>1. IInv => SuccessIsSettled
  BY DEF IInv
<1> QED
  BY InitIInv, NextIInv, <1>1, PTL DEF Spec

\* As long as Redis keeps its records, ProcessWebhook's skipping of duplicates
\* never lets the last job of an unfinished event complete.
THEOREM NoEventLost == Spec => []EventNotLost
<1>1. IInv => EventNotLost
  <2> SUFFICES ASSUME IInv, NEW e \in Events \ degraded, AllCompleted(e)
               PROVE  e \in settled
    BY DEF EventNotLost
  <2>1. \A d \in Deliveries : EventOf[d] = e => ~Open(d)
    BY DEF AllCompleted, Received, Open
  <2> QED
    BY <2>1 DEF IInv, UnsettledIsOpen, AllCompleted
<1> QED
  BY InitIInv, NextIInv, <1>1, PTL DEF Spec

\* Before its first recorded failure an event has one handler at a time.
THEOREM OneHandler == Spec => []OneHandlerUntilFailure
<1>1. IInv => OneHandlerUntilFailure
  <2> SUFFICES ASSUME IInv, NEW v \in Workers, NEW w \in Workers, v # w,
                      worker[v].pc \in {"handling", "record"},
                      worker[w].pc \in {"handling", "record"},
                      Event(v) = Event(w), Event(v) \notin failedOnce \cup degraded
               PROVE  FALSE
    BY DEF OneHandlerUntilFailure
  <2>1. Record("pending", Attempt(v)) = Record("pending", Attempt(w))
    BY DEF IInv, HandlerHoldsClaim
  <2>2. worker[v].pc # "idle" /\ worker[w].pc # "idle"
    OBVIOUS
  <2>3. Attempt(v) \in Attempts /\ Attempt(w) \in Attempts /\ worker[v].d \in Deliveries
    BY <2>2, WorkerFacts DEF IInv
  <2>4. Attempt(v) = Attempt(w)
    BY <2>1, <2>3, RecordType DEF Status
  <2> QED
    BY <2>3, <2>4 DEF Attempt, IInv, WorkersOwnJobs
<1> QED
  BY InitIInv, NextIInv, <1>1, PTL DEF Spec

=============================================================================
