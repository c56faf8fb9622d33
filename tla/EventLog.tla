------------------------------ MODULE EventLog ------------------------------
(***************************************************************************)
(* The event log (internal/modules/analytics/event_log_service.go) and the *)
(* spool directory behind it (pkg/spool/spool.go).  A call inserts its     *)
(* event into ClickHouse; when that fails the event becomes a file of the  *)
(* spool, and a goroutine of the same process flushes the spool every 15   *)
(* seconds, in one batch per table.  Files are written under a .tmp name   *)
(* and renamed; the flush lists, reads, inserts and removes in steps of    *)
(* their own, and nothing serialises it with the calls.                    *)
(*                                                                         *)
(* A record is one unit of the spool's capacity.  Not modelled: the events *)
(* of kind "transaction", which nothing logs, and the contents of events.  *)
(***************************************************************************)
EXTENDS Naturals, Sequences, SequencesExt

CONSTANTS Events,       \* events the service is asked to log, one call each
          KindChoices,  \* the assignments of kinds to events to explore
          MaxRecords,   \* maxBytes, in records
          TrimTarget,   \* maxBytes * lowWMScale, in records
          FlushLimit,   \* files of one flush
          MaxFaults     \* bound: failed calls and crashes

VARIABLES kind,     \* the table an event belongs to
          call,     \* where the call that logs an event stands
          order,    \* the events with a file, oldest name first
          file,     \* what the file is: being written, .tmp, .json
          stored,   \* events with a row in ClickHouse
          dead,     \* events in the dead-letter directory
          trimmed,  \* history: events whose file the capacity rule removed
          dropped,  \* history: events whose file could not be written
          flush,    \* the flush goroutine
          faults

logVars == <<kind, call, order, file, stored, dead, trimmed, dropped, flush, faults>>

\* The order in which flushOnce sends its batches.
Kinds == <<"subscription", "payment", "acu", "chargeback">>

IdleFlush == [at |-> "idle", paths |-> <<>>, got |-> {}, stage |-> 0]

Init == /\ kind \in KindChoices
        /\ call = [e \in Events |-> "new"]
        /\ order = <<>>
        /\ file = [e \in Events |-> "none"]
        /\ stored = {} /\ dead = {} /\ trimmed = {} /\ dropped = {}
        /\ flush = IdleFlush
        /\ faults = 0

Fault == faults < MaxFaults /\ faults' = faults + 1

-----------------------------------------------------------------------------
(* Logging an event.                                                       *)

\* ensureConn fails: ClickHouse is out of reach, and the event goes to the spool.
Unreachable(e) == /\ Fault
                  /\ call' = [call EXCEPT ![e] = "enqueue"]
                  /\ UNCHANGED stored

\* The INSERT, which may fail, with its row stored or not; then the event is spooled.
Insert(e) == \/ /\ stored' = stored \cup {e}
                /\ call' = [call EXCEPT ![e] = "done"]
                /\ UNCHANGED faults
             \/ /\ Fault
                /\ stored' \in {stored, stored \cup {e}}
                /\ call' = [call EXCEPT ![e] = "enqueue"]

Log(e, k) == /\ call[e] = "new" /\ kind[e] = k
             /\ Unreachable(e) \/ Insert(e)
             /\ UNCHANGED <<kind, order, file, dead, trimmed, dropped, flush>>

LogSubscriptionEvent(e) == Log(e, "subscription")
LogPaymentEvent(e) == Log(e, "payment")
LogACUEvent(e) == Log(e, "acu")
LogChargebackEvent(e) == Log(e, "chargeback")

-----------------------------------------------------------------------------
(* The spool.                                                              *)

Without(gone) == SelectSeq(order, LAMBDA e : e \notin gone)

\* Removes the files of the events in gone.
RemoveFiles(gone) == /\ order' = Without(gone)
                     /\ file' = [e \in Events |-> IF e \in gone THEN "none" ELSE file[e]]

\* enqueue: the event becomes a file under a fresh .tmp name, still being written;
\* an error of the spool is ignored and the event is gone.
Enqueue(e) == /\ call[e] = "enqueue"
              /\ \/ /\ file' = [file EXCEPT ![e] = "partial"]
                    /\ order' = Append(order, e)
                    /\ call' = [call EXCEPT ![e] = "write"]
                    /\ UNCHANGED <<dropped, faults>>
                 \/ /\ Fault
                    /\ dropped' = dropped \cup {e}
                    /\ call' = [call EXCEPT ![e] = "done"]
                    /\ UNCHANGED <<file, order>>
              /\ UNCHANGED <<kind, stored, dead, trimmed, flush>>

\* os.WriteFile returns.  The file may meanwhile have been moved or removed.
Written(e) == /\ call[e] = "write"
              /\ file' = [file EXCEPT ![e] = IF @ = "partial" THEN "tmp" ELSE @]
              /\ call' = [call EXCEPT ![e] = "trim"]
              /\ UNCHANGED <<kind, order, stored, dead, trimmed, dropped, flush, faults>>

\* The oldest files that enforceCapacity removes to make room for one more record; the
\* file being added is in the directory already and is counted with the others.
Excess == LET n == Len(order)
              fits == {k \in 1..n : n - k + 1 <= TrimTarget}
              k == IF n + 1 <= MaxRecords THEN 0
                   ELSE CHOOSE j \in fits \cup {n} : \A i \in fits \cup {n} : j <= i
          IN  {order[i] : i \in 1..k}

EnforceCapacity(e) == /\ call[e] = "trim"
                      /\ RemoveFiles(Excess)
                      /\ trimmed' = trimmed \cup Excess
                      /\ call' = [call EXCEPT ![e] = "rename"]
                      /\ UNCHANGED <<kind, stored, dead, dropped, flush, faults>>

\* The rename fails when the .tmp file is gone; the error is ignored.
Rename(e) == /\ call[e] = "rename"
             /\ file' = [file EXCEPT ![e] = IF @ = "tmp" THEN "json" ELSE @]
             /\ call' = [call EXCEPT ![e] = "done"]
             /\ UNCHANGED <<kind, order, stored, dead, trimmed, dropped, flush, faults>>

-----------------------------------------------------------------------------
(* The flush.                                                              *)

Path(e) == [ev |-> e, json |-> file[e] = "json"]
Exists(p) == file[p.ev] # "none" /\ p.json = (file[p.ev] = "json")

\* Plausible bug: unfinished files are left alone.
ListFinished == LET done == SelectSeq(order, LAMBDA e : file[e] = "json")
                    n == IF Len(done) < FlushLimit THEN Len(done) ELSE FlushLimit
                IN  [i \in 1..n |-> Path(done[i])]

\* Every file of the directory is listed, the .tmp files too.
List == LET n == IF Len(order) < FlushLimit THEN Len(order) ELSE FlushLimit
        IN  [i \in 1..n |-> Path(order[i])]

\* flushOnce begins (an unreachable ClickHouse only delays it to the next tick).
FlushList == /\ flush.at = "idle" /\ List # <<>>
             /\ flush' = [IdleFlush EXCEPT !.at = "read", !.paths = List]
             /\ UNCHANGED <<kind, call, order, file, stored, dead, trimmed, dropped, faults>>

\* One file is read: a file that is gone is skipped, one that does not parse goes to the
\* dead-letter directory.
FlushRead == /\ flush.at = "read" /\ flush.paths # <<>>
             /\ LET p == Head(flush.paths)
                    parses == Exists(p) /\ file[p.ev] # "partial"
                    bad == IF Exists(p) /\ ~parses THEN {p.ev} ELSE {}
                IN  /\ dead' = dead \cup bad
                    /\ RemoveFiles(bad)
                    /\ flush' = [flush EXCEPT !.paths = Tail(@),
                                              !.got = IF parses THEN @ \cup {p} ELSE @]
             /\ UNCHANGED <<kind, call, stored, trimmed, dropped, faults>>

Batch(k) == {p \in flush.got : kind[p.ev] = Kinds[k]}

\* The flush goes on with the next table that has a batch, or is over.
NextStage(k) == LET todo == {j \in (k + 1)..Len(Kinds) : Batch(j) # {}}
                IN  IF todo = {} THEN IdleFlush
                    ELSE [flush EXCEPT !.at = "insert",
                              !.stage = CHOOSE j \in todo : \A i \in todo : j <= i]

FlushSort == /\ flush.at = "read" /\ flush.paths = <<>>
             /\ flush' = NextStage(0)
             /\ UNCHANGED <<kind, call, order, file, stored, dead, trimmed, dropped, faults>>

\* One batch is sent; an error, with the rows stored or not, ends the flush.
InsertBatch(k) ==
    /\ flush.at = "insert" /\ flush.stage = k
    /\ LET rows == stored \cup {p.ev : p \in Batch(k)}
       IN  \/ stored' = rows /\ flush' = [flush EXCEPT !.at = "remove"] /\ UNCHANGED faults
           \/ Fault /\ stored' \in {stored, rows} /\ flush' = IdleFlush
    /\ UNCHANGED <<kind, call, order, file, dead, trimmed, dropped>>

InsertSubscriptionBatch == InsertBatch(1)
InsertPaymentBatch == InsertBatch(2)
InsertACUBatch == InsertBatch(3)
InsertChargebackBatch == InsertBatch(4)

\* Plausible bug: one removal for the files of every batch.
RemoveEverything == /\ flush.at = "remove"
                    /\ RemoveFiles({p.ev : p \in {q \in flush.got : Exists(q)}})
                    /\ flush' = NextStage(flush.stage)
                    /\ UNCHANGED <<kind, call, stored, dead, trimmed, dropped, faults>>

\* removeAll: the files of the batch, unless they have been renamed since they were listed.
RemoveAll == /\ flush.at = "remove"
             /\ RemoveFiles({p.ev : p \in {q \in Batch(flush.stage) : Exists(q)}})
             /\ flush' = NextStage(flush.stage)
             /\ UNCHANGED <<kind, call, stored, dead, trimmed, dropped, faults>>

\* The process dies (also of a nil connection: ensureConn of one goroutine resets the
\* connection another one is about to use) and is started again.
Crash == /\ Fault
         /\ dropped' = dropped \cup {e \in Events : call[e] = "enqueue"}
         /\ call' = [e \in Events |-> IF call[e] = "new" THEN "new" ELSE "done"]
         /\ flush' = IdleFlush
         /\ UNCHANGED <<kind, order, file, stored, dead, trimmed>>

-----------------------------------------------------------------------------

CallStep(e) == Enqueue(e) \/ Written(e) \/ EnforceCapacity(e) \/ Rename(e)

FlushStep == \/ FlushList \/ FlushRead \/ FlushSort \/ RemoveAll
             \/ InsertSubscriptionBatch \/ InsertPaymentBatch
             \/ InsertACUBatch \/ InsertChargebackBatch

Next == \/ \E e \in Events : \/ LogSubscriptionEvent(e) \/ LogPaymentEvent(e)
                             \/ LogACUEvent(e) \/ LogChargebackEvent(e)
                             \/ CallStep(e)
        \/ FlushStep
        \/ Crash

\* A call goes on once it has begun; the ticker starts a flush every 15 seconds.
Fairness == (\A e \in Events : WF_logVars(CallStep(e))) /\ WF_logVars(FlushStep)

-----------------------------------------------------------------------------

\* A call that has returned leaves its event in ClickHouse, in the spool or in the
\* dead-letter directory, unless the disk refused it or the capacity rule removed it:
\* no order of renames, reads, batches, failures and crashes loses it.
LoggedIsKept ==
    \A e \in Events : call[e] = "done" =>
        \/ e \in stored \cup dead \cup trimmed \cup dropped
        \/ file[e] # "none"

\* The spool drains once ClickHouse answers: no file stays in it for ever, not even one
\* that a crash left half written or not yet renamed.
SpoolDrains == \A e \in Events : (file[e] # "none") ~> (file[e] = "none")
=============================================================================
