-------------------------- MODULE OperationsProofs --------------------------
(***************************************************************************)
(* Proofs about the components of MCOperations: entitlement timelines, the *)
(* intake of webhooks, chargebacks, the event log, the mirror of the       *)
(* processor and the ledger.  Each has an inductive invariant about its    *)
(* own variables, kept by every one of its actions.  The theorems about    *)
(* timelines are about Entitlements by itself, the others about the        *)
(* composition, which takes steps of one component at a time.              *)
(***************************************************************************)
EXTENDS MCOperations, TimelineProofs

-----------------------------------------------------------------------------
(* Entitlement timelines.  Each action applies one operator of Timeline to *)
(* one timeline, so the lemmas of TimelineProofs carry the inductive       *)
(* invariant through every step.                                           *)

IInv == TypeOK /\ WindowsNonEmpty /\ AppendedAtTail

\* The invariant speaks of each timeline separately.
LEMMA IInvByTimeline ==
    /\ IInv => /\ now \in 0..MaxTime /\ windows = [k \in Timelines |-> windows[k]]
               /\ \A k \in Timelines : TimelineOK(windows[k])
    /\ /\ now \in 0..MaxTime /\ windows = [k \in Timelines |-> windows[k]]
       /\ \A k \in Timelines : TimelineOK(windows[k])
       => IInv
  BY DEF IInv, TypeOK, WindowsNonEmpty, AppendedAtTail, TimelineOK

\* No rows at the start.
LEMMA InitIInv == Init => IInv
  BY EntitlementsAssumption, TimelineAssumption
  DEF Init, IInv, TypeOK, WindowsNonEmpty, WindowsNonEmptyIn, AppendedAtTail, OrderedIn,
      LiveWindows

\* A step that changes one timeline by a push or a revocation.
LEMMA OneTimeline ==
    ASSUME IInv, NEW k \in Timelines, NEW ws,
           TimelineOK(ws), OnlyEnds(windows[k], ws),
           windows' = [windows EXCEPT ![k] = ws], now' = now
    PROVE  IInv' /\ \A q \in Timelines : OnlyEnds(windows[q], windows'[q])
<1>1. /\ now \in 0..MaxTime /\ windows = [q \in Timelines |-> windows[q]]
      /\ \A q \in Timelines : TimelineOK(windows[q])
  BY IInvByTimeline
<1>2. /\ windows' = [q \in Timelines |-> windows'[q]]
      /\ \A q \in Timelines : windows'[q] = IF q = k THEN ws ELSE windows[q]
  BY <1>1
<1>3. \A q \in Timelines : TimelineOK(windows'[q])
  BY <1>1, <1>2
<1>4. IInv'
  BY <1>1, <1>2, <1>3 DEF IInv, TypeOK, WindowsNonEmpty, AppendedAtTail, TimelineOK
<1>5. ASSUME NEW q \in Timelines PROVE OnlyEnds(windows[q], windows[q])
  <2>1. windows[q] \in Seq(Window)
    BY <1>1 DEF TimelineOK
  <2> QED
    BY <2>1 DEF OnlyEnds
<1> QED
  BY <1>2, <1>4, <1>5

\* Pushes, with whatever end.
LEMMA PushStep ==
    ASSUME IInv, NEW k \in Timelines, NEW src \in Sources,
           NEW t \in 0..now, NEW nb \in 0..MaxTime, NEW end \in 0..Never,
           Push(k, src, TailStart(windows[k], t, nb), end)
    PROVE  IInv' /\ \A q \in Timelines : OnlyEnds(windows[q], windows'[q])
<1>1. t \in 0..Horizon /\ nb \in 0..Horizon
  BY EntitlementsAssumption, TimelineAssumption DEF IInv, TypeOK
<1>2. TimelineOK(windows[k])
  BY IInvByTimeline
<1> QED
  BY <1>1, <1>2, PushKeeps, OneTimeline DEF Push

\* Every step keeps the windows of each timeline in order and its history as it was.
LEMMA NextIInv ==
    ASSUME IInv, [Next]_vars
    PROVE  IInv' /\ \A q \in Timelines : OnlyEnds(windows[q], windows'[q])
<1> USE EntitlementsAssumption, TimelineAssumption
<1>1. ASSUME UNCHANGED windows, now' \in 0..MaxTime
      PROVE  IInv' /\ \A q \in Timelines : OnlyEnds(windows[q], windows'[q])
  <2>1. \A q \in Timelines : windows[q] \in Seq(Window)
    BY DEF IInv, TypeOK
  <2> QED
    BY <1>1, <2>1 DEF IInv, TypeOK, WindowsNonEmpty, AppendedAtTail, OnlyEnds
<1>2. CASE Tick
  BY <1>1, <1>2 DEF Tick, IInv, TypeOK
<1>3. ASSUME NEW k \in Timelines, NEW src \in Sources, NEW t \in 0..now,
             NEW nb \in 0..MaxTime, PushIndefinite(k, src, t, nb)
      PROVE  IInv' /\ \A q \in Timelines : OnlyEnds(windows[q], windows'[q])
  <2>1. Never \in 0..Never
    BY DEF Never
  <2> QED
    BY <1>3, <2>1, PushStep DEF PushIndefinite
<1>4. ASSUME NEW k \in Timelines, NEW src \in Sources, NEW t \in 0..now,
             NEW nb \in 0..MaxTime, NEW d \in Durations, PushDuration(k, src, t, nb, d)
      PROVE  IInv' /\ \A q \in Timelines : OnlyEnds(windows[q], windows'[q])
  <2> DEFINE start == TailStart(windows[k], t, nb)
  <2>1. t \in 0..Horizon /\ nb \in 0..Horizon /\ windows[k] \in Seq(Window)
    BY DEF IInv, TypeOK
  <2>2. start \in 0..Never
    BY <2>1, TailStartBehind
  <2>3. start + d <= Horizon /\ Push(k, src, start, start + d)
    BY <1>4 DEF PushDuration
  <2> HIDE DEF start
  <2>4. start + d \in 0..Never
    BY <2>2, <2>3 DEF Never
  <2> QED
    BY <2>3, <2>4, PushStep DEF start
<1>5. ASSUME NEW k \in Timelines, NEW src \in Sources, NEW t \in 0..now,
             NEW nb \in 0..MaxTime, NEW end \in 0..Horizon, PushUntil(k, src, t, nb, end)
      PROVE  IInv' /\ \A q \in Timelines : OnlyEnds(windows[q], windows'[q])
  <2>1. end \in 0..Never
    BY DEF Never
  <2> QED
    BY <1>5, <2>1, PushStep DEF PushUntil
<1>6. ASSUME NEW k \in Timelines, NEW t \in 0..now, NEW srcs \in SourceFilters,
             Revoke(k, t, srcs)
      PROVE  IInv' /\ \A q \in Timelines : OnlyEnds(windows[q], windows'[q])
  <2>1. TimelineOK(windows[k])
    BY IInvByTimeline
  <2> QED
    BY <1>6, <2>1, RevokeKeeps, OneTimeline DEF Revoke
<1>7. CASE UNCHANGED vars
  BY <1>1, <1>7 DEF vars, IInv, TypeOK
<1> QED
  BY <1>2, <1>3, <1>4, <1>5, <1>6, <1>7 DEF Next

\* Rows keep their shape.
THEOREM TypeCorrect == Spec => []TypeOK
<1>1. IInv => TypeOK
  BY DEF IInv
<1>2. IInv /\ [Next]_vars => IInv'
  BY NextIInv
<1> QED
  BY InitIInv, <1>1, <1>2, PTL DEF Spec

\* Live windows of a timeline are appended in order.
THEOREM TimelineOrdered == Spec => []AppendedAtTail
<1>1. IInv => AppendedAtTail
  BY DEF IInv
<1>2. IInv /\ [Next]_vars => IInv'
  BY NextIInv
<1> QED
  BY InitIInv, <1>1, <1>2, PTL DEF Spec

\* The exclusion constraint of billing.entitlements never fires: two live
\* windows of one timeline are disjoint in every reachable state.
THEOREM TimelineDisjoint == Spec => []NoOverlap
<1>1. IInv => NoOverlap
  BY OrderedIsDisjoint DEF IInv, TypeOK, AppendedAtTail, NoOverlap
<1>2. IInv /\ [Next]_vars => IInv'
  BY NextIInv
<1> QED
  BY InitIInv, <1>1, <1>2, PTL DEF Spec

\* The entitlement service implements History: no operation moves, extends or
\* revives a window, and all appends come behind what is live.
THEOREM ImplementsHistory == Spec => KeepsHistory
<1>1. Init => H!Init
  BY DEF Init, H!Init
<1>2. ASSUME IInv, [Next]_vars
      PROVE  [H!Next]_windows
  <2>1. IInv' /\ \A k \in Timelines : OnlyEnds(windows[k], windows'[k])
    BY <1>2, NextIInv
  <2>2. ASSUME NEW k \in Timelines
        PROVE  H!OnlyEnds(windows[k], windows'[k])
    BY <2>1, <2>2 DEF OnlyEnds, H!OnlyEnds
  <2>3. ASSUME NEW k \in Timelines
        PROVE  H!AddedBehind(windows'[k], Len(windows[k]))
    BY <2>1, <2>3 DEF IInv, AppendedAtTail, OrderedIn, LiveWindows, H!AddedBehind,
                      H!LiveWindows
  <2> QED
    BY <2>2, <2>3 DEF H!Next
<1>3. IInv /\ [Next]_vars => IInv'
  BY NextIInv
<1> QED
  BY InitIInv, <1>1, <1>2, <1>3, PTL DEF Spec, KeepsHistory, H!Spec

-----------------------------------------------------------------------------
(* Intake.                                                                 *)

\* The key every delivery of an event has.
KeyOf(e) == CASE e.prov = "mobius" -> <<"mobius", e.id>>
              [] e.prov = "stripe" -> <<"stripe", e.id>>
              [] e.prov = "ccbill" ->
                    <<"ccbill", <<e.type, IK!NormalizeCCBillPayload(e.body, "as sent")>>>>

\* A job is of an event there was a job for, under that event's key.
IntakeInv ==
    /\ accepted \subseteq queued
    /\ \A j \in jobs : /\ j.event \in Occurrences \cap queued
                       /\ j = [key |-> KeyOf(j.event), event |-> j.event]

\* The three ways to a key come to KeyOf: whichever name the gateway is given, and whatever
\* the order of a form's fields.
LEMMA KeysAgree ==
    ASSUME NEW e \in Occurrences
    PROVE  /\ e.prov = "mobius" => \A name \in IK!NMINames : IK!PrepareNMI(e, name) = KeyOf(e)
           /\ e.prov = "stripe" => IK!PrepareStripe(e) = KeyOf(e)
           /\ e.prov = "ccbill" => \A o \in IK!Orders :
                (e.body.form \/ o = "as sent") => IK!PrepareCCBill(e, o) = KeyOf(e)
<1>1. e.prov = "ccbill" \/ e.id # ""
  BY OccurrencesAssumption
<1>2. CASE e.prov = "mobius"
  BY <1>1, <1>2 DEF IK!NMINames, IK!PrepareNMI, IK!ComputeUniqueKey, IK!CanonicalProvider, KeyOf
<1>3. CASE e.prov = "stripe"
  BY <1>1, <1>3 DEF IK!PrepareStripe, IK!ComputeUniqueKey, IK!CanonicalProvider, KeyOf
<1>4. CASE e.prov = "ccbill"
  BY <1>4 DEF IK!Orders, IK!PrepareCCBill, IK!ComputeUniqueKey, IK!CanonicalProvider,
              IK!NormalizeCCBillPayload, KeyOf
<1> QED
  BY <1>2, <1>3, <1>4

\* Different events have different keys.
LEMMA KeysDiffer ==
    ASSUME NEW e \in Occurrences, NEW f \in Occurrences, KeyOf(e) = KeyOf(f)
    PROVE  e = f
<1>1. e.prov \in {"mobius", "stripe", "ccbill"} /\ f.prov \in {"mobius", "stripe", "ccbill"}
  BY OccurrencesAssumption
<1>2. e.prov = f.prov
  <2>1. KeyOf(e)[1] = e.prov /\ KeyOf(f)[1] = f.prov
    BY <1>1 DEF KeyOf
  <2> QED
    BY <2>1
<1>3. CASE e.prov # "ccbill"
  <2>1. e.id = f.id
    BY <1>1, <1>2, <1>3 DEF KeyOf
  <2> QED
    BY <2>1, <1>2, <1>3, OccurrencesAssumption
<1>4. CASE e.prov = "ccbill"
  <2>1. /\ e.type = f.type
        /\ IK!NormalizeCCBillPayload(e.body, "as sent") = IK!NormalizeCCBillPayload(f.body, "as sent")
    BY <1>2, <1>4 DEF KeyOf
  <2> QED
    BY <2>1, <1>2, <1>4, OccurrencesAssumption
<1> QED
  BY <1>3, <1>4

\* A job already there under the key is of the same event, a new one is of a new event.
LEMMA EnqueueKeeps ==
    ASSUME IntakeInv, NEW e \in Occurrences, IK!EnqueueWebhookJob(e, KeyOf(e))
    PROVE  IntakeInv'
<1>1. CASE IK!Refuse
  BY <1>1 DEF IK!Refuse, IntakeInv
<1>2. CASE accepted' = accepted \cup {e} /\ (\E j \in jobs : j.key = KeyOf(e))
           /\ UNCHANGED <<queued, jobs>>
  <2>1. PICK j \in jobs : j.key = KeyOf(e)
    BY <1>2
  <2>2. j.event \in Occurrences \cap queued /\ j.key = KeyOf(j.event)
    BY DEF IntakeInv
  <2>3. e \in queued
    BY <2>1, <2>2, KeysDiffer
  <2> QED
    BY <1>2, <2>3 DEF IntakeInv
<1>3. CASE /\ accepted' = accepted \cup {e}
           /\ jobs' = jobs \cup {[key |-> KeyOf(e), event |-> e]}
           /\ queued' = queued \cup {e}
  BY <1>3 DEF IntakeInv
<1> QED
  BY <1>1, <1>2, <1>3 DEF IK!EnqueueWebhookJob

\* Every delivery and every deletion keeps the invariant.
LEMMA IntakeStep == IntakeInv /\ IK!Next => IntakeInv'
<1> SUFFICES ASSUME IntakeInv, IK!Next PROVE IntakeInv'
  OBVIOUS
<1>1. ASSUME NEW e \in Occurrences, NEW sig, IK!HandleStripeWebhook(e, sig) PROVE IntakeInv'
  <2>1. CASE IK!Refuse
    BY <2>1 DEF IK!Refuse, IntakeInv
  <2> QED
    BY <1>1, <2>1, KeysAgree, EnqueueKeeps DEF IK!HandleStripeWebhook
<1>2. ASSUME NEW e \in Occurrences, NEW sig, NEW door, NEW name \in IK!NMINames, NEW header,
             IK!HandleNMIWebhook(e, door, name, header, sig)
      PROVE  IntakeInv'
  <2>1. CASE IK!Refuse
    BY <2>1 DEF IK!Refuse, IntakeInv
  <2> QED
    BY <1>2, <2>1, KeysAgree, EnqueueKeeps DEF IK!HandleNMIWebhook
<1>3. ASSUME NEW e \in Occurrences, NEW ord \in IK!Orders, NEW validIP,
             IK!HandleCCBillWebhook(e, ord, validIP)
      PROVE  IntakeInv'
  <2>1. CASE IK!Refuse
    BY <2>1 DEF IK!Refuse, IntakeInv
  <2> QED
    BY <1>3, <2>1, KeysAgree, EnqueueKeeps DEF IK!HandleCCBillWebhook
<1>4. ASSUME NEW j \in jobs, IK!CleanJobs(j) PROVE IntakeInv'
  BY <1>4 DEF IK!CleanJobs, IntakeInv
<1> QED
  BY <1>1, <1>2, <1>3, <1>4 DEF IK!Next

-----------------------------------------------------------------------------
(* The event log.                                                          *)

\* Somewhere there is something of the event, or what took it is known.
Traced(e) == e \in stored \cup dead \cup trimmed \cup dropped \/ file[e] # "none"

\* A call that has got past the spool's first write has left a trace, and the flush removes
\* files of events that are stored.
LogInv ==
    /\ call = [e \in Events |-> call[e]] /\ file = [e \in Events |-> file[e]]
    /\ flush = [at |-> flush.at, paths |-> flush.paths, got |-> flush.got, stage |-> flush.stage]
    /\ \A e \in Events : call[e] \notin {"new", "enqueue"} => Traced(e)
    /\ flush.at = "remove" => \A p \in EL!Batch(flush.stage) : p.ev \in stored

\* What a step of a call does for its own event and leaves to the others.
LEMMA CallKeeps ==
    ASSUME LogInv, NEW e \in Events, NEW at, NEW f,
           call' = [call EXCEPT ![e] = at], file' = [file EXCEPT ![e] = f],
           stored \subseteq stored', dropped \subseteq dropped',
           UNCHANGED <<kind, dead, trimmed, flush>>,
           \/ at = "enqueue" /\ f = file[e]
           \/ f # "none" \/ e \in stored' \cup dropped'
           \/ call[e] \notin {"new", "enqueue"} /\ f = file[e]
    PROVE  LogInv'
<1>1. /\ call' = [d \in Events |-> call'[d]] /\ file' = [d \in Events |-> file'[d]]
      /\ call'[e] = at /\ file'[e] = f
      /\ \A d \in Events \ {e} : call'[d] = call[d] /\ file'[d] = file[d]
  BY DEF LogInv
<1>2. \A d \in Events : call'[d] \notin {"new", "enqueue"} => Traced(d)'
  BY <1>1 DEF LogInv, Traced
<1>3. flush'.at = "remove" => \A p \in (EL!Batch(flush.stage))' : p.ev \in stored'
  BY DEF LogInv, EL!Batch
<1> QED
  BY <1>1, <1>2, <1>3 DEF LogInv

\* Files go only when their events are kept elsewhere, or the capacity rule takes them.
LEMMA RemovalKeeps ==
    ASSUME LogInv, NEW gone, EL!RemoveFiles(gone),
           dead \subseteq dead', trimmed \subseteq trimmed', UNCHANGED <<stored, dropped>>,
           gone \subseteq stored \cup dead' \cup trimmed',
           call' = [e \in Events |-> call'[e]],
           \A e \in Events : call'[e] \notin {"new", "enqueue"} => call[e] \notin {"new", "enqueue"}
    PROVE  /\ file' = [e \in Events |-> file'[e]]
           /\ \A e \in Events : call'[e] \notin {"new", "enqueue"} => Traced(e)'
<1>1. file' = [e \in Events |-> IF e \in gone THEN "none" ELSE file[e]]
  BY DEF EL!RemoveFiles
<1> QED
  BY <1>1 DEF LogInv, Traced

\* Logging and spooling.
LEMMA CallStepKeeps ==
    ASSUME LogInv, NEW e \in Events,
           EL!CallStep(e) \/ EL!LogSubscriptionEvent(e) \/ EL!LogPaymentEvent(e)
             \/ EL!LogACUEvent(e) \/ EL!LogChargebackEvent(e)
    PROVE  LogInv'
<1>0. /\ file = [file EXCEPT ![e] = file[e]] /\ file = [d \in Events |-> file[d]]
      /\ call = [d \in Events |-> call[d]]
  BY DEF LogInv
<1>1. ASSUME NEW k, EL!Log(e, k) PROVE LogInv'
  <2>1. UNCHANGED <<kind, dead, trimmed, dropped, flush>> /\ file' = [file EXCEPT ![e] = file[e]]
    BY <1>0, <1>1 DEF EL!Log
  <2>2. \/ call' = [call EXCEPT ![e] = "enqueue"] /\ stored \subseteq stored'
        \/ call' = [call EXCEPT ![e] = "done"] /\ stored' = stored \cup {e}
    BY <1>1 DEF EL!Log, EL!Unreachable, EL!Insert
  <2> QED
    BY <2>1, <2>2, CallKeeps
<1>2. CASE EL!Enqueue(e)
  <2>1. UNCHANGED <<kind, stored, dead, trimmed, flush>>
    BY <1>2 DEF EL!Enqueue
  <2>2. CASE file' = [file EXCEPT ![e] = "partial"] /\ call' = [call EXCEPT ![e] = "write"]
             /\ UNCHANGED dropped
    BY <2>1, <2>2, CallKeeps
  <2>3. CASE dropped' = dropped \cup {e} /\ call' = [call EXCEPT ![e] = "done"] /\ UNCHANGED file
    BY <1>0, <2>1, <2>3, CallKeeps
  <2> QED
    BY <1>2, <2>2, <2>3 DEF EL!Enqueue
<1>3. CASE EL!Written(e)
  <2>1. PICK f : f = IF file[e] = "partial" THEN "tmp" ELSE file[e]
    OBVIOUS
  <2>2. /\ call[e] = "write" /\ call' = [call EXCEPT ![e] = "trim"] /\ file' = [file EXCEPT ![e] = f]
        /\ UNCHANGED <<kind, stored, dead, trimmed, dropped, flush>>
    BY <1>0, <1>3, <2>1 DEF EL!Written
  <2> QED
    BY <2>1, <2>2, CallKeeps
<1>4. CASE EL!Rename(e)
  <2>1. PICK f : f = IF file[e] = "tmp" THEN "json" ELSE file[e]
    OBVIOUS
  <2>2. /\ call[e] = "rename" /\ call' = [call EXCEPT ![e] = "done"] /\ file' = [file EXCEPT ![e] = f]
        /\ UNCHANGED <<kind, stored, dead, trimmed, dropped, flush>>
    BY <1>0, <1>4, <2>1 DEF EL!Rename
  <2> QED
    BY <2>1, <2>2, CallKeeps
<1>5. CASE EL!EnforceCapacity(e)
  <2>1. /\ call[e] = "trim" /\ call' = [call EXCEPT ![e] = "rename"]
        /\ EL!RemoveFiles(EL!Excess) /\ trimmed' = trimmed \cup EL!Excess
        /\ UNCHANGED <<kind, stored, dead, dropped, flush>>
    BY <1>5 DEF EL!EnforceCapacity
  <2>2. /\ call' = [d \in Events |-> call'[d]]
        /\ \A d \in Events : call'[d] \notin {"new", "enqueue"} => call[d] \notin {"new", "enqueue"}
    BY <1>0, <2>1
  <2>3. /\ file' = [d \in Events |-> file'[d]]
        /\ \A d \in Events : call'[d] \notin {"new", "enqueue"} => Traced(d)'
    BY <2>1, <2>2, RemovalKeeps
  <2>4. flush'.at = "remove" => \A p \in (EL!Batch(flush.stage))' : p.ev \in stored'
    BY <2>1 DEF LogInv, EL!Batch
  <2> QED
    BY <2>1, <2>2, <2>3, <2>4 DEF LogInv
<1> QED
  BY <1>1, <1>2, <1>3, <1>4, <1>5
  DEF EL!CallStep, EL!LogSubscriptionEvent, EL!LogPaymentEvent, EL!LogACUEvent, EL!LogChargebackEvent

\* What the flush becomes after a batch: it removes nothing before the next batch is stored.
LEMMA NextStageIsNotRemove ==
    ASSUME LogInv, NEW k
    PROVE  LET f == EL!NextStage(k)
           IN  /\ f = [at |-> f.at, paths |-> f.paths, got |-> f.got, stage |-> f.stage]
               /\ f.at # "remove"
  BY DEF LogInv, EL!NextStage, EL!IdleFlush

\* Flushing.
LEMMA FlushStepKeeps == LogInv /\ EL!FlushStep => LogInv'
<1> SUFFICES ASSUME LogInv, EL!FlushStep PROVE LogInv'
  OBVIOUS
<1>1. CASE EL!FlushList
  BY <1>1 DEF EL!FlushList, EL!IdleFlush, LogInv, Traced
<1>2. CASE EL!FlushRead
  <2> DEFINE p == Head(flush.paths)
             parses == EL!Exists(p) /\ file[p.ev] # "partial"
             bad == IF EL!Exists(p) /\ ~parses THEN {p.ev} ELSE {}
  <2>1. /\ flush.at = "read" /\ UNCHANGED <<kind, call, stored, trimmed, dropped>>
        /\ dead' = dead \cup bad /\ EL!RemoveFiles(bad)
        /\ flush' = [flush EXCEPT !.paths = Tail(@), !.got = IF parses THEN @ \cup {p} ELSE @]
    BY <1>2, Zenon DEF EL!FlushRead
  <2> HIDE DEF p, parses, bad
  <2>2. /\ flush' = [at |-> flush'.at, paths |-> flush'.paths, got |-> flush'.got, stage |-> flush'.stage]
        /\ flush'.at = "read"
    BY <2>1 DEF LogInv
  <2>3. /\ file' = [e \in Events |-> file'[e]]
        /\ \A e \in Events : call'[e] \notin {"new", "enqueue"} => Traced(e)'
    BY <2>1, RemovalKeeps DEF LogInv
  <2> QED
    BY <2>1, <2>2, <2>3 DEF LogInv
<1>3. CASE EL!FlushSort
  <2>1. flush' = EL!NextStage(0) /\ UNCHANGED <<call, file, stored, dead, trimmed, dropped>>
    BY <1>3 DEF EL!FlushSort
  <2> QED
    BY <2>1, NextStageIsNotRemove DEF LogInv, Traced
<1>4. CASE EL!RemoveAll
  <2> DEFINE gone == {p.ev : p \in {q \in EL!Batch(flush.stage) : EL!Exists(q)}}
  <2>1. /\ flush.at = "remove" /\ EL!RemoveFiles(gone) /\ flush' = EL!NextStage(flush.stage)
        /\ UNCHANGED <<call, stored, dead, trimmed, dropped>>
    BY <1>4, Zenon DEF EL!RemoveAll
  <2>2. gone \subseteq stored
    BY <2>1 DEF LogInv
  <2>3. /\ file' = [e \in Events |-> file'[e]]
        /\ \A e \in Events : call'[e] \notin {"new", "enqueue"} => Traced(e)'
    <3> HIDE DEF gone
    <3> QED
      BY <2>1, <2>2, RemovalKeeps DEF LogInv
  <2> QED
    BY <2>1, <2>3, NextStageIsNotRemove DEF LogInv
<1>5. ASSUME NEW k, EL!InsertBatch(k) PROVE LogInv'
  <2> DEFINE rows == stored \cup {p.ev : p \in EL!Batch(k)}
  <2>1. /\ flush.at = "insert" /\ flush.stage = k
        /\ UNCHANGED <<kind, call, file, dead, trimmed, dropped>>
        /\ \/ stored' = rows /\ flush' = [flush EXCEPT !.at = "remove"]
           \/ stored' \in {stored, rows} /\ flush' = EL!IdleFlush
    BY <1>5, Zenon DEF EL!InsertBatch
  <2>2. stored \subseteq stored'
    BY <2>1
  <2>3. \A e \in Events : call'[e] \notin {"new", "enqueue"} => Traced(e)'
    BY <2>1, <2>2 DEF LogInv, Traced
  <2>4. CASE stored' = rows /\ flush' = [flush EXCEPT !.at = "remove"]
    <3>1. flush' = [at |-> "remove", paths |-> flush.paths, got |-> flush.got, stage |-> k]
      BY <2>1, <2>4 DEF LogInv
    <3>2. \A p \in (EL!Batch(flush.stage))' : p.ev \in stored'
      BY <2>1, <2>4, <3>1 DEF EL!Batch, EL!Kinds
    <3> QED
      BY <2>1, <2>3, <3>1, <3>2 DEF LogInv
  <2>5. CASE flush' = EL!IdleFlush
    BY <2>1, <2>3, <2>5 DEF LogInv, EL!IdleFlush
  <2> QED
    BY <2>1, <2>4, <2>5
<1> QED
  BY <1>1, <1>2, <1>3, <1>4, <1>5
  DEF EL!FlushStep, EL!InsertSubscriptionBatch, EL!InsertPaymentBatch, EL!InsertACUBatch,
      EL!InsertChargebackBatch

\* A crash drops what was on its way to the spool.
LEMMA LogStep == LogInv /\ EL!Next => LogInv'
<1> SUFFICES ASSUME LogInv, EL!Next PROVE LogInv'
  OBVIOUS
<1>1. CASE EL!Crash
  BY <1>1 DEF EL!Crash, EL!IdleFlush, LogInv, Traced
<1> QED
  BY <1>1, CallStepKeeps, FlushStepKeeps DEF EL!Next

-----------------------------------------------------------------------------
(* The mirror.                                                             *)

Types == {"none", "user", "merchant", "expired", "chargeback"}
RowType == [st : {"none", "active", "past_due", "cancelled"}, type : Types, plan : Plans]
RemoteType == [st : {"none", "active", "past_due", "canceled"}, ends : BOOLEAN, plan : Plans]
EventType == [type : {"paid", "failed", "deleted", "reversed", "updated"},
              st : {"active", "past_due", "canceled"}, plan : Plans]
OpType == [at : {"idle", "queued", "remote", "local", "discarded", "missed", "astray"},
           snap : RowType, n : Nat]

MirrorType == /\ proc \in {"stripe", "nmi", "ccbill"}
              /\ row \in RowType /\ remote \in RemoteType
              /\ op \in [MI!Ops -> OpType]
              /\ inflight \subseteq EventType
              /\ told \in BOOLEAN

\* A cancel_type that t and l, the two histories, account for.
Backed(type, t, l) == \/ type = "none" \/ t
                      \/ type = "user" /\ "unasked" \in l
                      \/ type = "merchant" /\ ("unasked" \in l \/ "reversal" \in l \/ "report" \in l)
                      \/ type = "expired" /\ "dunning" \in l
                      \/ type = "chargeback" /\ "reversal" \in l

\* Why a row that is read, written back or about to be cancelled may be.  The cancel_type
\* is accounted for whatever the status is: a row keeps it when it becomes past due, and
\* a later step may set the status alone.
RowOK(r, t, l) == /\ r.st = "cancelled" => r.type # "none"
                  /\ Backed(r.type, t, l)
EventOK(e, t) == e.type = "deleted" \/ (e.type = "updated" /\ e.st = "canceled") => t
Asked(o, at, t, l) == o \in {"cancel", "admin"} /\ at = "local" => t \/ "unasked" \in l

RowSound(r) == RowOK(r, told, local)
EventSound(e) == EventOK(e, told)
OpSound(o, d) == RowSound(d.snap) /\ Asked(o, d.at, told, local)

MirrorInv == /\ MirrorType
             /\ RowSound(row)
             /\ \A e \in inflight : EventSound(e)
             /\ \A o \in MI!Ops : OpSound(o, op[o])

\* The histories only grow, so what was sound stays so.
LEMMA SoundKept ==
    ASSUME told \in BOOLEAN, told' \in BOOLEAN, told => told', local \subseteq local'
    PROVE  /\ \A r : RowSound(r) => RowOK(r, told', local')
           /\ \A e : EventSound(e) => EventOK(e, told')
           /\ \A o, at : Asked(o, at, told, local) => Asked(o, at, told', local')
  BY DEF RowSound, EventSound, RowOK, EventOK, Asked, Backed

\* A step of one request, with what it makes of the row, the processor and the webhooks.
LEMMA MirrorFrame ==
    ASSUME MirrorInv, NEW o \in MI!Ops, NEW d \in OpType, NEW r \in RowType, NEW x \in RemoteType,
           NEW sent \in SUBSET EventType,
           op' = [op EXCEPT ![o] = d], row' = r, remote' = x, inflight' \subseteq inflight \cup sent,
           told' \in BOOLEAN, proc' = proc, told => told', local \subseteq local',
           RowOK(r, told', local'), RowOK(d.snap, told', local'), Asked(o, d.at, told', local'),
           \A e \in sent : EventOK(e, told')
    PROVE  MirrorInv'
<1>0. told \in BOOLEAN
  BY DEF MirrorInv, MirrorType
<1>1. MirrorType'
  BY DEF MirrorInv, MirrorType
<1>2. RowSound(row)'
  BY DEF RowSound
<1>3. \A e \in inflight' : EventOK(e, told')
  BY <1>0, SoundKept DEF MirrorInv
<1>4. \A q \in MI!Ops : OpSound(q, op[q])'
  <2>1. \A q \in MI!Ops : op'[q] = IF q = o THEN d ELSE op[q]
    BY DEF MirrorInv, MirrorType
  <2>2. \A q \in MI!Ops \ {o} : RowOK(op'[q].snap, told', local') /\ Asked(q, op'[q].at, told', local')
    BY <1>0, <2>1, SoundKept DEF MirrorInv, OpSound
  <2> QED
    BY <2>1, <2>2 DEF OpSound, RowSound
<1> QED
  BY <1>1, <1>2, <1>3, <1>4 DEF MirrorInv, EventSound

\* What the processor sends is of what it has become.
LEMMA SendType ==
    ASSUME NEW r \in RemoteType, r.st # "none", NEW types \in SUBSET {"paid", "failed", "deleted"},
           MI!Send(types, r), "deleted" \in types \/ r.st = "canceled" => told'
    PROVE  \E sent \in SUBSET EventType :
               /\ inflight' \subseteq inflight \cup sent
               /\ \A e \in sent : EventOK(e, told')
<1> DEFINE sent == {MI!Event(t, r.st, r.plan) : t \in types \cup {"updated"}}
<1>1. inflight' \subseteq inflight \cup sent
  BY DEF MI!Send, MI!Updated
<1>2. \A t \in types \cup {"updated"} :
        /\ MI!Event(t, r.st, r.plan) \in EventType
        /\ MI!Event(t, r.st, r.plan).type = t /\ MI!Event(t, r.st, r.plan).st = r.st
  BY DEF MI!Event, EventType, RemoteType
<1>3. sent \in SUBSET EventType
  BY <1>2
<1>4. \A e \in sent : EventOK(e, told')
  BY <1>2 DEF EventOK
<1> QED
  BY <1>1, <1>3, <1>4

\* A row there is not yet, a request that is over.
LEMMA NoRowType == /\ MI!NoRow \in RowType /\ MI!IdleOp \in OpType /\ MI!IdleOp.at = "idle"
                   /\ \A t, l : RowOK(MI!NoRow, t, l) /\ RowOK(MI!IdleOp.snap, t, l)
<1>1. (CHOOSE p \in Plans : TRUE) \in Plans
  BY PlansAssumption
<1>2. MI!NoRow \in RowType /\ \A t, l : RowOK(MI!NoRow, t, l)
  BY <1>1 DEF MI!NoRow, RowType, Types, RowOK, Backed
<1> QED
  BY <1>2 DEF MI!IdleOp, OpType

\* A request that goes on, is retried or gives up.
LEMMA OpMoves ==
    ASSUME MirrorInv, NEW o \in MI!Ops,
           \/ \E step \in {"local", "missed", "astray"} : MI!Goto(o, step)
           \/ MI!Again(o) \/ MI!GiveUp(o)
    PROVE  \E d \in OpType : /\ op' = [op EXCEPT ![o] = d]
                             /\ RowOK(d.snap, told, local)
                             /\ d.at = "local" => MI!Goto(o, "local")
<1>1. op[o] \in OpType /\ RowOK(op[o].snap, told, local)
      /\ op \in [MI!Ops -> OpType]
  BY DEF MirrorInv, MirrorType, OpSound, RowSound
<1>2. ASSUME NEW step \in {"local", "missed", "astray"}, MI!Goto(o, step)
      PROVE  \E d \in OpType : /\ op' = [op EXCEPT ![o] = d]
                               /\ RowOK(d.snap, told, local)
                               /\ d.at = "local" => MI!Goto(o, "local")
  <2>1. PICK d : d = [op[o] EXCEPT !.at = step]
    OBVIOUS
  <2>2. d \in OpType /\ d.at = step /\ d.snap = op[o].snap
    BY <1>1, <2>1 DEF OpType
  <2>3. op' = [op EXCEPT ![o] = d]
    BY <1>1, <1>2, <2>1 DEF MI!Goto, OpType
  <2> QED
    BY <1>1, <1>2, <2>2, <2>3
<1>3. CASE MI!Again(o)
  <2> DEFINE at == IF op[o].n + 1 < MaxAttempts THEN "queued" ELSE "discarded"
             d == [at |-> at, snap |-> op[o].snap, n |-> op[o].n + 1]
  <2>1. op' = [op EXCEPT ![o].n = @ + 1, ![o].at = at]
    BY <1>3 DEF MI!Again
  <2>2. at \in {"queued", "discarded"}
    OBVIOUS
  <2> HIDE DEF at
  <2>3. d \in OpType /\ d.at # "local" /\ d.snap = op[o].snap
    BY <1>1, <2>2 DEF OpType
  <2>4. op[o] = [at |-> op[o].at, snap |-> op[o].snap, n |-> op[o].n]
    BY <1>1 DEF OpType
  <2>5. op' = [op EXCEPT ![o] = d]
    <3>1. PICK x : x = [op EXCEPT ![o].n = @ + 1]
      OBVIOUS
    <3>2. x \in [MI!Ops -> OpType] /\ x[o] = [at |-> op[o].at, snap |-> op[o].snap, n |-> op[o].n + 1]
          /\ \A q \in MI!Ops \ {o} : x[q] = op[q]
      BY <1>1, <2>4, <3>1 DEF OpType
    <3>3. op' = [x EXCEPT ![o].at = at]
      BY <2>1, <3>1
    <3>4. [x[o] EXCEPT !.at = at] = d
      BY <3>2
    <3>5. op' = [x EXCEPT ![o] = d]
      BY <3>3, <3>4
    <3> HIDE DEF d
    <3>6. \A q \in MI!Ops : [x EXCEPT ![o] = d][q] = [op EXCEPT ![o] = d][q]
      BY <1>1, <3>2
    <3> QED
      BY <1>1, <3>2, <3>5, <3>6
  <2> QED
    BY <1>1, <2>3, <2>5
<1>4. CASE MI!GiveUp(o)
  BY <1>4, NoRowType DEF MI!GiveUp
<1> QED
  BY <1>2, <1>3, <1>4

\* A call that reaches the processor; a cancellation that does has told it.
LEMMA CallReaches ==
    ASSUME MirrorInv, NEW o \in MI!Ops, NEW r \in RemoteType, NEW types \in SUBSET {"deleted"},
           r.st # "none", types # {} => r.st = "canceled",
           o \in {"cancel", "admin"} => r.ends \/ r.st = "canceled",
           remote' = r, MI!Send(types, r), told' = (told \/ r.ends \/ r.st = "canceled"),
           MI!Goto(o, "local") \/ MI!Again(o) \/ MI!GiveUp(o),
           UNCHANGED <<proc, row, local>>
    PROVE  MirrorInv'
<1>1. PICK d \in OpType : op' = [op EXCEPT ![o] = d] /\ RowOK(d.snap, told, local)
  BY OpMoves
<1>2. PICK sent \in SUBSET EventType :
               /\ inflight' \subseteq inflight \cup sent
               /\ \A e \in sent : EventOK(e, told')
  BY SendType
<1>3. /\ row \in RowType /\ RowSound(row) /\ told \in BOOLEAN /\ told' \in BOOLEAN
      /\ (told => told') /\ (o \in {"cancel", "admin"} => told')
  BY DEF MirrorInv, MirrorType, RemoteType
<1>4. RowOK(row', told', local') /\ RowOK(d.snap, told', local')
  BY <1>1, <1>3, SoundKept DEF RowSound
<1>5. Asked(o, d.at, told', local')
  BY <1>3 DEF Asked
<1> QED
  BY <1>1, <1>2, <1>3, <1>4, <1>5, MirrorFrame

\* A call or a write that fails, a row that cannot be read, another subscription that is
\* cancelled.
LEMMA CallIsLost ==
    ASSUME MirrorInv, NEW o \in MI!Ops,
           \/ MI!Again(o) \/ MI!GiveUp(o)
           \/ MI!Goto(o, "missed") \/ MI!Goto(o, "astray"),
           UNCHANGED <<proc, remote, row, inflight, told, local>>
    PROVE  MirrorInv'
<1>1. PICK d \in OpType : op' = [op EXCEPT ![o] = d] /\ RowOK(d.snap, told, local)
  BY OpMoves
<1>2. d.at # "local"
  <2>1. op \in [MI!Ops -> OpType]
    BY DEF MirrorInv, MirrorType
  <2>2. op'[o] = d /\ op'[o].at # "local"
    BY <1>1, <2>1, NoRowType DEF MI!Again, MI!GiveUp, MI!Goto, OpType
  <2> QED
    BY <2>2
<1>3. Asked(o, d.at, told, local)
  BY <1>2 DEF Asked
<1>4. /\ row \in RowType /\ remote \in RemoteType /\ RowOK(row, told, local)
      /\ told \in BOOLEAN /\ inflight \subseteq EventType /\ \A e \in inflight : EventOK(e, told)
  BY DEF MirrorInv, MirrorType, RowSound, EventSound
<1> QED
  BY <1>1, <1>3, <1>4, MirrorFrame

\* A cancellation that nobody is asked for.
LEMMA NobodyIsAsked ==
    ASSUME MirrorInv, NEW o \in MI!Ops, MI!Goto(o, "local"), local' = local \cup {"unasked"},
           UNCHANGED <<proc, remote, row, inflight, told>>
    PROVE  MirrorInv'
<1>1. PICK d \in OpType : op' = [op EXCEPT ![o] = d] /\ RowOK(d.snap, told, local)
  BY OpMoves
<1>2. Asked(o, d.at, told, local')
  BY DEF Asked
<1>3. /\ row \in RowType /\ remote \in RemoteType /\ RowSound(row)
      /\ told \in BOOLEAN /\ inflight \subseteq EventType /\ \A e \in inflight : EventOK(e, told)
  BY DEF MirrorInv, MirrorType, EventSound
<1>4. RowOK(row, told', local') /\ RowOK(d.snap, told', local')
  BY <1>1, <1>3, SoundKept DEF RowSound
<1> QED
  BY <1>1, <1>2, <1>3, <1>4, MirrorFrame

\* A row is written, and its request is over.
LEMMA WriteKeeps ==
    ASSUME MirrorInv, NEW o \in MI!Ops, NEW r \in RowType, RowOK(r, told, local),
           \/ row' = r /\ op' = [op EXCEPT ![o] = MI!IdleOp]
           \/ (MI!Again(o) \/ MI!GiveUp(o)) /\ UNCHANGED row,
           UNCHANGED <<proc, remote, inflight, told, local>>
    PROVE  MirrorInv'
<1>1. CASE row' = r /\ op' = [op EXCEPT ![o] = MI!IdleOp]
  <2>1. /\ remote \in RemoteType /\ told \in BOOLEAN /\ inflight \subseteq EventType
        /\ \A e \in inflight : EventOK(e, told)
    BY DEF MirrorInv, MirrorType, EventSound
  <2>2. PICK d \in OpType : d = MI!IdleOp /\ d.at # "local" /\ RowOK(d.snap, told, local)
    BY NoRowType
  <2>3. Asked(o, d.at, told, local)
    BY <2>2 DEF Asked
  <2> QED
    BY <1>1, <2>1, <2>2, <2>3, MirrorFrame
<1>2. CASE (MI!Again(o) \/ MI!GiveUp(o)) /\ UNCHANGED row
  BY <1>2, CallIsLost
<1> QED
  BY <1>1, <1>2

\* The row changes and no request does.
LEMMA RowChanges ==
    ASSUME MirrorInv, NEW r \in RowType, row' = r, RowOK(r, told, local'),
           inflight' \subseteq inflight, local \subseteq local',
           UNCHANGED <<proc, remote, op, told>>
    PROVE  MirrorInv'
<1>1. MirrorType'
  BY DEF MirrorInv, MirrorType
<1>2. \A q \in MI!Ops : RowOK(op[q].snap, told', local') /\ Asked(q, op[q].at, told', local')
  BY SoundKept DEF MirrorInv, MirrorType, OpSound
<1> QED
  BY <1>1, <1>2 DEF MirrorInv, RowSound, EventSound, OpSound

\* The processor's own steps.
LEMMA RemoteStep ==
    ASSUME MirrorInv, MI!RemoteCharge \/ MI!RemoteDecline \/ MI!RemoteEnd \/ MI!RemoteReverse
    PROVE  MirrorInv'
<1>1. remote \in RemoteType /\ told \in BOOLEAN
  BY DEF MirrorInv, MirrorType
<1>2. ASSUME NEW x \in RemoteType, NEW sent \in SUBSET EventType,
             remote' = x, inflight' \subseteq inflight \cup sent, \A e \in sent : EventOK(e, told'),
             told => told', told' \in BOOLEAN, UNCHANGED <<proc, row, op, local>>
      PROVE  MirrorInv'
  <2>1. MirrorType'
    BY <1>2 DEF MirrorInv, MirrorType
  <2>2. /\ RowOK(row, told', local') /\ \A e \in inflight : EventOK(e, told')
        /\ \A q \in MI!Ops : RowOK(op[q].snap, told', local') /\ Asked(q, op[q].at, told', local')
    BY <1>1, <1>2, SoundKept DEF MirrorInv, OpSound
  <2> QED
    BY <1>2, <2>1, <2>2 DEF MirrorInv, RowSound, EventSound, OpSound
<1>3. CASE MI!RemoteCharge \/ MI!RemoteDecline \/ MI!RemoteEnd
  <2>1. PICK st \in {"active", "past_due", "canceled"}, types \in SUBSET {"paid", "failed", "deleted"} :
          /\ remote' = [remote EXCEPT !.st = st] /\ MI!Send(types, [remote EXCEPT !.st = st])
          /\ ("deleted" \in types \/ st = "canceled" => told') /\ (told => told') /\ told' \in BOOLEAN
          /\ UNCHANGED <<proc, row, op, local>>
    <3>1. CASE MI!RemoteCharge
      BY <1>1, <3>1 DEF MI!RemoteCharge, MI!Becomes
    <3>2. CASE MI!RemoteDecline
      BY <1>1, <3>2 DEF MI!RemoteDecline, MI!Becomes
    <3>3. CASE MI!RemoteEnd
      BY <1>1, <3>3 DEF MI!RemoteEnd, MI!Becomes
    <3> QED
      BY <1>3, <3>1, <3>2, <3>3
  <2>2. remote' \in RemoteType /\ remote'.st = st
    BY <1>1, <2>1 DEF RemoteType
  <2>3. PICK sent \in SUBSET EventType :
               /\ inflight' \subseteq inflight \cup sent
               /\ \A e \in sent : EventOK(e, told')
    BY <2>1, <2>2, SendType
  <2> QED
    BY <1>2, <2>1, <2>2, <2>3
<1>4. CASE MI!RemoteReverse
  <2>1. PICK e : e = MI!Event("reversed", remote.st, remote.plan)
    OBVIOUS
  <2>2. e \in EventType /\ EventOK(e, told)
    BY <1>1, <1>4, <2>1 DEF MI!RemoteReverse, MI!Event, EventType, RemoteType, EventOK
  <2>3. /\ remote' = remote /\ inflight' \subseteq inflight \cup {e}
        /\ UNCHANGED <<proc, row, op, local, told>>
    BY <1>4, <2>1 DEF MI!RemoteReverse, MI!Becomes, MI!Send, MI!Updated
  <2>4. PICK sent \in SUBSET EventType :
          inflight' \subseteq inflight \cup sent /\ \A f \in sent : EventOK(f, told')
    <3>1. {e} \in SUBSET EventType /\ told' = told
      BY <2>2, <2>3
    <3>2. \A f \in {e} : EventOK(f, told')
      BY <2>2, <3>1
    <3> QED
      BY <2>3, <3>1, <3>2
  <2> QED
    BY <1>1, <1>2, <2>3, <2>4
<1> QED
  BY <1>3, <1>4

\* The handlers of webhooks.
LEMMA HandleEventStep ==
    ASSUME MirrorInv, NEW e \in inflight, MI!HandleEvent(e)
    PROVE  MirrorInv'
<1>1. e \in EventType /\ row \in RowType /\ EventSound(e) /\ RowSound(row) /\ told \in BOOLEAN
  BY DEF MirrorInv, MirrorType
<1>2. ASSUME NEW r \in RowType, NEW why, MI!HandledFor(e, r, why),
             r.st = "cancelled" => r.type # "none", Backed(r.type, told, local \cup why)
      PROVE  MirrorInv'
  <2>1. RowOK(r, told, local')
    BY <1>2 DEF MI!HandledFor, RowOK
  <2> QED
    BY <1>2, <2>1, RowChanges DEF MI!HandledFor
<1>3. ASSUME NEW r \in RowType, MI!Handled(e, r), Backed(r.type, told, local)
      PROVE  MirrorInv'
  <2>1. r.st = "cancelled" => r.type # "none"
    BY <1>3 DEF MI!Handled, MI!HandledFor, MI!Accepted
  <2> QED
    BY <1>2, <1>3, <2>1 DEF MI!Handled, Backed
<1>4. Backed(row.type, told, local)
  BY <1>1 DEF RowSound, RowOK
<1>5. CASE MI!HandleInvoicePaid(e)
  <2>1. /\ [MI!Activated(row) EXCEPT !.plan = e.plan] \in RowType /\ MI!Activated(row) \in RowType
        /\ [MI!Activated(row) EXCEPT !.plan = e.plan].type = "none" /\ MI!Activated(row).type = "none"
    BY <1>1 DEF MI!Activated, RowType, Types, EventType
  <2>2. Backed("none", told, local)
    BY DEF Backed
  <2> QED
    BY <1>3, <1>5, <2>1, <2>2 DEF MI!HandleInvoicePaid
<1>6. CASE MI!HandleInvoicePaymentFailed(e)
  <2>1. PICK p, x, c : /\ p = [row EXCEPT !.st = "past_due"] /\ x = MI!Cancelled(row, "expired")
                       /\ c = [row EXCEPT !.st = "cancelled"]
    OBVIOUS
  <2>2. /\ p \in RowType /\ p.type = row.type /\ c \in RowType /\ c.type = row.type
        /\ x \in RowType /\ x.type = "expired"
    BY <1>1, <2>1 DEF RowType, Types, MI!Cancelled
  <2>3. CASE MI!Handled(e, row) \/ MI!Handled(e, p)
    BY <1>1, <1>3, <1>4, <2>2, <2>3
  <2>4. CASE MI!HandledFor(e, x, {"dunning"})
    BY <1>2, <2>2, <2>4 DEF Backed
  <2>5. CASE MI!HandledFor(e, c, {"dunning"})
    <3>1. Backed(c.type, told, local \cup {"dunning"})
      BY <1>4, <2>2 DEF Backed
    <3> QED
      BY <1>2, <2>2, <2>5, <3>1 DEF MI!HandledFor, MI!Accepted
  <2> QED
    BY <1>6, <2>1, <2>3, <2>4, <2>5 DEF MI!HandleInvoicePaymentFailed, MI!FailMembership
<1>7. CASE MI!HandleSubscriptionUpdated(e)
  <2>1. PICK r : r = MI!ApplyStripeSubscriptionStatus([row EXCEPT !.plan = e.plan], e.st)
    OBVIOUS
  <2>2. r \in RowType /\ r.type = row.type
    BY <1>1, <2>1 DEF MI!ApplyStripeSubscriptionStatus, RowType, EventType
  <2>3. MI!Handled(e, IF row.st = "none" THEN row ELSE r)
    BY <1>7, <2>1 DEF MI!HandleSubscriptionUpdated
  <2> QED
    BY <1>1, <1>3, <1>4, <2>2, <2>3
<1>8. CASE MI!HandleSubscriptionDeleted(e)
  <2>1. told
    BY <1>1, <1>8 DEF MI!HandleSubscriptionDeleted, EventSound, EventOK
  <2>2. CASE MI!Handled(e, row)
    BY <1>1, <1>3, <1>4, <2>2
  <2>3. ASSUME NEW type \in MI!EndTypes, MI!Handled(e, MI!Cancelled(row, type)) PROVE MirrorInv'
    <3>1. type \in Types
      BY <2>3 DEF MI!EndTypes, Types, MirrorInv, MirrorType
    <3>2. MI!Cancelled(row, type) \in RowType
      BY <1>1, <3>1 DEF MI!Cancelled, RowType
    <3> QED
      BY <1>3, <2>1, <2>3, <3>2 DEF Backed
  <2> QED
    BY <1>8, <2>2, <2>3 DEF MI!HandleSubscriptionDeleted
<1>9. CASE MI!HandleReversal(e)
  <2>1. CASE MI!Handled(e, row)
    BY <1>1, <1>3, <1>4, <2>1
  <2>2. ASSUME NEW type \in {"merchant", "chargeback"},
               MI!HandledFor(e, MI!Cancelled(row, type), {"reversal"})
        PROVE  MirrorInv'
    <3>1. MI!Cancelled(row, type) \in RowType /\ MI!Cancelled(row, type).type = type
      BY <1>1 DEF MI!Cancelled, RowType, Types
    <3>2. Backed(type, told, local \cup {"reversal"})
      BY DEF Backed
    <3> QED
      BY <1>2, <2>2, <3>1, <3>2
  <2> QED
    BY <1>9, <2>1, <2>2 DEF MI!HandleReversal
<1> QED
  BY <1>5, <1>6, <1>7, <1>8, <1>9 DEF MI!HandleEvent

\* A request reads the row, or is queued.
LEMMA ReadKeeps ==
    ASSUME MirrorInv, NEW o \in MI!Ops, NEW d \in OpType, op' = [op EXCEPT ![o] = d],
           d.at # "local", RowOK(d.snap, told, local),
           UNCHANGED <<proc, remote, row, inflight, told, local>>
    PROVE  MirrorInv'
<1>1. Asked(o, d.at, told, local)
  BY DEF Asked
<1>2. /\ row \in RowType /\ remote \in RemoteType /\ RowOK(row, told, local)
      /\ told \in BOOLEAN /\ inflight \subseteq EventType /\ \A e \in inflight : EventOK(e, told)
  BY DEF MirrorInv, MirrorType, RowSound, EventSound
<1> QED
  BY <1>1, <1>2, MirrorFrame

\* The two fields it sets.
LEMMA ReadsRow ==
    ASSUME op \in [MI!Ops -> OpType], NEW o \in MI!Ops, NEW s,
           op' = [op EXCEPT ![o].at = "remote", ![o].snap = s]
    PROVE  op' = [op EXCEPT ![o] = [at |-> "remote", snap |-> s, n |-> op[o].n]]
<1>1. PICK x : x = [op EXCEPT ![o].at = "remote"]
  OBVIOUS
<1>2. /\ x \in [MI!Ops -> OpType] /\ x[o] = [at |-> "remote", snap |-> op[o].snap, n |-> op[o].n]
      /\ \A q \in MI!Ops \ {o} : x[q] = op[q]
  BY <1>1 DEF OpType
<1>3. op' = [x EXCEPT ![o].snap = s]
  BY <1>1
<1>4. PICK d : d = [at |-> "remote", snap |-> s, n |-> op[o].n]
  OBVIOUS
<1>5. [x[o] EXCEPT !.snap = s] = d
  BY <1>2, <1>4
<1>6. op' = [x EXCEPT ![o] = d]
  BY <1>3, <1>5
<1>7. \A q \in MI!Ops : [x EXCEPT ![o] = d][q] = [op EXCEPT ![o] = d][q]
  BY <1>2
<1> QED
  BY <1>2, <1>4, <1>6, <1>7

\* The row as a request takes it along.
LEMMA ReadStep ==
    ASSUME MirrorInv, NEW o \in MI!Ops, MI!Read(o)
    PROVE  MirrorInv'
<1> DEFINE d == [at |-> "remote", snap |-> row, n |-> op[o].n]
<1>1. op \in [MI!Ops -> OpType] /\ row \in RowType /\ RowOK(row, told, local)
  BY DEF MirrorInv, MirrorType, RowSound
<1>2. d \in OpType /\ d.at # "local" /\ RowOK(d.snap, told, local)
  BY <1>1 DEF OpType
<1>3. op' = [op EXCEPT ![o] = d]
  BY <1>1, ReadsRow DEF MI!Read
<1>4. UNCHANGED <<proc, remote, row, inflight, told, local>>
  BY DEF MI!Read
<1> HIDE DEF d
<1> QED
  BY <1>2, <1>3, <1>4, ReadKeeps

\* A request is queued.
LEMMA EnqueueStep ==
    ASSUME MirrorInv, NEW o \in MI!Ops, MI!Enqueue(o)
    PROVE  MirrorInv'
<1>1. PICK d : d = [MI!IdleOp EXCEPT !.at = "queued"]
  OBVIOUS
<1>2. d \in OpType /\ d.at = "queued" /\ d.snap = MI!IdleOp.snap
  BY <1>1, NoRowType DEF OpType
<1>3. op' = [op EXCEPT ![o] = d] /\ UNCHANGED <<proc, remote, row, inflight, told, local>>
  BY <1>1 DEF MI!Enqueue
<1> QED
  BY <1>2, <1>3, NoRowType, ReadKeeps

\* A cancellation is sent to the processor.
LEMMA CancelCallStep ==
    ASSUME MirrorInv, NEW o \in {"cancel", "admin"},
           MI!CancelAtProcessor(o)
    PROVE  MirrorInv'
<1>0. o \in MI!Ops /\ remote \in RemoteType
  BY DEF MI!Ops, MirrorInv, MirrorType
<1>1. CASE MI!Call(o, MI!StripeCancelSubscription, {})
  <2>1. remote.st \in {"active", "past_due"}
    BY <1>1 DEF MI!Call, MI!Fails
  <2>2. PICK r \in RemoteType : r = MI!StripeCancelSubscription /\ r.ends /\ r.st # "none"
    <3>1. /\ MI!StripeCancelSubscription \in RemoteType /\ MI!StripeCancelSubscription.ends
          /\ MI!StripeCancelSubscription.st # "none"
      BY <1>0, <2>1 DEF MI!StripeCancelSubscription, RemoteType
    <3> QED
      BY <3>1
  <2>3. /\ remote' = r /\ MI!Send({}, r) /\ told' = (told \/ r.ends \/ r.st = "canceled")
        /\ UNCHANGED <<proc, row, local>>
        /\ MI!Goto(o, "local") \/ MI!Again(o) \/ MI!GiveUp(o)
    BY <1>1, <2>2 DEF MI!Call, MI!Fails
  <2> QED
    BY <1>0, <2>2, <2>3, CallReaches
<1>2. CASE MI!Call(o, MI!DeleteRecurringSubscription, {"deleted"})
  <2>1. PICK r \in RemoteType : r = MI!DeleteRecurringSubscription /\ r.st = "canceled"
    <3>1. MI!DeleteRecurringSubscription \in RemoteType /\ MI!DeleteRecurringSubscription.st = "canceled"
      BY <1>0 DEF MI!DeleteRecurringSubscription, RemoteType
    <3> QED
      BY <3>1
  <2>2. /\ remote' = r /\ MI!Send({"deleted"}, r) /\ told' = (told \/ r.ends \/ r.st = "canceled")
        /\ UNCHANGED <<proc, row, local>>
        /\ MI!Goto(o, "local") \/ MI!Again(o) \/ MI!GiveUp(o)
    BY <1>2, <2>1 DEF MI!Call, MI!Fails
  <2> QED
    BY <1>0, <2>1, <2>2, CallReaches
<1>3. CASE MI!CallFails(o)
  BY <1>0, <1>3, CallIsLost DEF MI!CallFails, MI!Fails
<1>4. CASE /\ MI!Goto(o, "local") /\ local' = local \cup {"unasked"}
           /\ UNCHANGED <<proc, remote, row, inflight, told>>
  BY <1>0, <1>4, NobodyIsAsked
<1> QED
  BY <1>1, <1>2, <1>3, <1>4 DEF MI!CancelAtProcessor

\* The user's cancellation.
LEMMA CancelSteps ==
    ASSUME MirrorInv, MI!RequestCancel \/ MI!CancelJob \/ MI!CancelJobCall \/ MI!CancelJobWrite
    PROVE  MirrorInv'
<1>0. "cancel" \in MI!Ops /\ row \in RowType /\ op["cancel"] \in OpType
  BY DEF MI!Ops, MirrorInv, MirrorType
<1>1. CASE MI!RequestCancel
  BY <1>0, <1>1, EnqueueStep DEF MI!RequestCancel
<1>2. CASE MI!CancelJob
  <2>1. CASE MI!Read("cancel")
    BY <1>0, <2>1, ReadStep
  <2>2. CASE MI!Missed("cancel")
    BY <1>0, <2>2, CallIsLost DEF MI!Missed
  <2>3. CASE MI!GetActiveSubscription
    BY <1>0, <2>1, <2>3, CallIsLost DEF MI!GetActiveSubscription
  <2> QED
    BY <1>2, <2>1, <2>2, <2>3 DEF MI!CancelJob
<1>3. CASE MI!CancelJobCall
  BY <1>3, CancelCallStep DEF MI!CancelJobCall
<1>4. CASE MI!CancelJobWrite
  <2>1. told \/ "unasked" \in local
    BY <1>0, <1>4 DEF MI!CancelJobWrite, MI!At, MirrorInv, OpSound, Asked
  <2>2. PICK s \in RowType : s = IF proc = "stripe" THEN row ELSE op["cancel"].snap
    BY <1>0 DEF OpType
  <2>3. PICK r : r = MI!Cancelled(s, "user")
    OBVIOUS
  <2>4. r \in RowType /\ RowOK(r, told, local)
    BY <2>1, <2>3 DEF MI!Cancelled, RowType, Types, RowOK, Backed
  <2> QED
    BY <1>0, <1>4, <2>2, <2>3, <2>4, WriteKeeps DEF MI!CancelJobWrite, MI!Write, MI!Fails
<1> QED
  BY <1>1, <1>2, <1>3, <1>4

\* The administrator's.
LEMMA AdminSteps ==
    ASSUME MirrorInv, MI!AdminCancel \/ MI!AdminCancelCall \/ MI!AdminCancelWrite
    PROVE  MirrorInv'
<1>0. "admin" \in MI!Ops /\ op["admin"] \in OpType
  BY DEF MI!Ops, MirrorInv, MirrorType
<1>1. CASE MI!AdminCancel
  BY <1>0, <1>1, ReadStep DEF MI!AdminCancel
<1>2. CASE MI!AdminCancelCall
  BY <1>2, CancelCallStep DEF MI!AdminCancelCall
<1>3. CASE MI!AdminCancelWrite
  <2>1. told \/ "unasked" \in local
    BY <1>0, <1>3 DEF MI!AdminCancelWrite, MI!At, MirrorInv, OpSound, Asked
  <2>2. PICK r : r = MI!Cancelled(op["admin"].snap, "merchant")
    OBVIOUS
  <2>3. r \in RowType /\ RowOK(r, told, local)
    BY <1>0, <2>1, <2>2 DEF MI!Cancelled, RowType, Types, OpType, RowOK, Backed
  <2> QED
    BY <1>0, <1>3, <2>2, <2>3, WriteKeeps DEF MI!AdminCancelWrite, MI!Write, MI!Fails
<1> QED
  BY <1>1, <1>2, <1>3

\* The user's resumption.
LEMMA ResumeSteps ==
    ASSUME MirrorInv, MI!RequestResume \/ MI!ResumeJob \/ MI!ResumeJobCall \/ MI!ResumeJobWrite
    PROVE  MirrorInv'
<1>0. "resume" \in MI!Ops /\ remote \in RemoteType /\ op["resume"] \in OpType
  BY DEF MI!Ops, MirrorInv, MirrorType
<1>1. CASE MI!RequestResume
  BY <1>0, <1>1, EnqueueStep DEF MI!RequestResume
<1>2. CASE MI!ResumeJob
  BY <1>0, <1>2, ReadStep, CallIsLost DEF MI!ResumeJob, MI!Missed
<1>3. CASE MI!ResumeJobCall
  <2>1. CASE MI!Call("resume", MI!StripeResumeSubscription, {})
    <3>1. remote.st \in {"active", "past_due"}
      BY <2>1 DEF MI!Call, MI!Fails
    <3>2. PICK r : r = MI!StripeResumeSubscription
      OBVIOUS
    <3>3. r \in RemoteType /\ r.st # "none"
      BY <1>0, <3>1, <3>2 DEF MI!StripeResumeSubscription, RemoteType
    <3>4. /\ remote' = r /\ MI!Send({}, r) /\ told' = (told \/ r.ends \/ r.st = "canceled")
          /\ UNCHANGED <<proc, row, local>>
          /\ MI!Goto("resume", "local") \/ MI!Again("resume") \/ MI!GiveUp("resume")
      BY <2>1, <3>2 DEF MI!Call, MI!Fails
    <3> QED
      BY <1>0, <3>3, <3>4, CallReaches
  <2>2. CASE MI!CallFails("resume")
    BY <1>0, <2>2, CallIsLost DEF MI!CallFails, MI!Fails
  <2> QED
    BY <1>3, <2>1, <2>2 DEF MI!ResumeJobCall
<1>4. CASE MI!ResumeJobWrite
  <2>1. PICK r : r = MI!Activated(op["resume"].snap)
    OBVIOUS
  <2>2. r \in RowType /\ RowOK(r, told, local)
    BY <1>0, <2>1 DEF MI!Activated, RowType, Types, OpType, RowOK, Backed
  <2> QED
    BY <1>0, <1>4, <2>1, <2>2, WriteKeeps DEF MI!ResumeJobWrite, MI!Write, MI!Fails
<1> QED
  BY <1>1, <1>2, <1>3, <1>4

\* The change of tier, which takes the status along as it was read.
LEMMA TierSteps ==
    ASSUME MirrorInv, (\E p \in Plans : MI!TierChange(p)) \/ MI!TierChangeCall \/ MI!TierChangeWrite
    PROVE  MirrorInv'
<1>0. /\ "tier" \in MI!Ops /\ remote \in RemoteType /\ op \in [MI!Ops -> OpType] /\ row \in RowType
      /\ RowSound(row) /\ RowSound(op["tier"].snap) /\ op["tier"] \in OpType
  BY DEF MI!Ops, MirrorInv, MirrorType, OpSound
<1>1. ASSUME NEW p \in Plans, MI!TierChange(p) PROVE MirrorInv'
  <2>1. PICK s : s = [row EXCEPT !.plan = p]
    OBVIOUS
  <2>2. s \in RowType /\ RowOK(s, told, local)
    BY <1>0, <2>1 DEF RowType, RowSound, RowOK
  <2>3. PICK d : d = [at |-> "remote", snap |-> s, n |-> op["tier"].n]
    OBVIOUS
  <2>4. d \in OpType /\ d.at # "local" /\ d.snap = s
    BY <1>0, <2>2, <2>3 DEF OpType
  <2>5. op' = [op EXCEPT !["tier"].at = "remote", !["tier"].snap = s]
        /\ UNCHANGED <<proc, remote, row, inflight, told, local>>
    BY <1>1, <2>1 DEF MI!TierChange
  <2>6. op' = [op EXCEPT !["tier"] = d]
    BY <1>0, <2>3, <2>5, ReadsRow
  <2> QED
    BY <1>0, <2>2, <2>4, <2>5, <2>6, ReadKeeps
<1>2. CASE MI!TierChangeCall
  <2>1. CASE MI!Call("tier", MI!UpdateSubscriptionPrice, {})
    <3>1. remote.st \in {"active", "past_due"}
      BY <2>1 DEF MI!Call, MI!Fails
    <3>2. PICK r : r = MI!UpdateSubscriptionPrice
      OBVIOUS
    <3>3. r \in RemoteType /\ r.st # "none"
      BY <1>0, <3>1, <3>2 DEF MI!UpdateSubscriptionPrice, RemoteType, OpType, RowType
    <3>4. /\ remote' = r /\ MI!Send({}, r) /\ told' = (told \/ r.ends \/ r.st = "canceled")
          /\ UNCHANGED <<proc, row, local>>
          /\ MI!Goto("tier", "local") \/ MI!Again("tier") \/ MI!GiveUp("tier")
      BY <2>1, <3>2 DEF MI!Call, MI!Fails
    <3> QED
      BY <1>0, <3>3, <3>4, CallReaches
  <2>2. CASE MI!CallFails("tier")
    BY <1>0, <2>2, CallIsLost DEF MI!CallFails, MI!Fails
  <2> QED
    BY <1>2, <2>1, <2>2 DEF MI!TierChangeCall
<1>3. CASE MI!TierChangeWrite
  <2>1. op["tier"].snap \in RowType
    BY <1>0 DEF OpType
  <2> QED
    BY <1>0, <1>3, <2>1, WriteKeeps DEF MI!TierChangeWrite, MI!Write, MI!Fails, RowSound
<1> QED
  BY <1>1, <1>2, <1>3

\* subscription-sync.
LEMMA SyncSteps ==
    ASSUME MirrorInv, MI!SyncFetch \/ MI!SyncApply
    PROVE  MirrorInv'
<1>1. CASE MI!SyncFetch
  BY <1>1 DEF MI!SyncFetch, MI!FetchRemoteSubscriptions, MirrorInv, MirrorType, RowSound, EventSound, OpSound
<1>2. CASE MI!SyncApply
  <2>1. row \in RowType /\ RowSound(row) /\ told \in BOOLEAN
    BY DEF MirrorInv, MirrorType
  <2>2. PICK c, x : c = MI!Cancelled(row, "merchant") /\ x = MI!Activated(row)
    OBVIOUS
  <2>3. /\ c \in RowType /\ RowOK(c, told, local \cup {"report"})
        /\ x \in RowType /\ RowOK(x, told, local) /\ x.st = "active"
    BY <2>1, <2>2 DEF MI!Cancelled, MI!Activated, RowType, Types, RowOK, Backed
  <2>4. UNCHANGED <<proc, remote, op, inflight, told>>
    BY <1>2 DEF MI!SyncApply
  <2>5. \/ row' = c /\ local' = local \cup {"report"}
        \/ row' \in {x, row} /\ local' = local
    BY <1>2, <2>2 DEF MI!SyncApply
  <2> QED
    BY <2>1, <2>3, <2>4, <2>5, RowChanges DEF RowSound
<1> QED
  BY <1>1, <1>2

\* Every step of the mirror.
LEMMA MirrorStep == MirrorInv /\ MI!Next => MirrorInv'
  BY RemoteStep, HandleEventStep, CancelSteps, ResumeSteps, AdminSteps, TierSteps, SyncSteps
  DEF MI!Next, MI!JobStep

-----------------------------------------------------------------------------
(* Ledger.                                                                 *)

\* What a refund can be booked under, and the rows.
Pays == Charges \cup {0} \cup {LE!Max(S) : S \in SUBSET Charges}
MovedRow == [of : Pays, amt : Nat]
RefundRow == [txn : Nat, of : Pays, amt : Nat]
AdminType == [at : {"idle", "call", "record", "create"}, pay : Pays, amt : Nat, txn : Nat]
HookType == [at : {"none", "sent", "create", "end", "unbooked", "passed", "done"}, named : BOOLEAN, pay : Pays]

LedgerType ==
    /\ charged \subseteq Charges
    /\ moved \in Seq(MovedRow) /\ refunds \in Seq(RefundRow)
    /\ admin \in [Admins -> AdminType] /\ hook \in [LE!Txns -> HookType]

\* Every row is of a refund that the processor has made, of its amount, and the only one of it.
Booked ==
    /\ \A i \in 1..Len(refunds) : /\ refunds[i].txn \in 1..Len(moved)
                                  /\ refunds[i].amt = moved[refunds[i].txn].amt
    /\ \A i, j \in 1..Len(refunds) : refunds[i].txn = refunds[j].txn => i = j
\* So is what a request or a notice is about to write.
AdminSound ==
    \A w \in Admins : admin[w].at \in {"record", "create"} =>
        admin[w].txn \in 1..Len(moved) /\ admin[w].amt = moved[admin[w].txn].amt
HookSound == \A t \in LE!Txns : hook[t].at # "none" => t \in 1..Len(moved)
MovedBounded == \A c \in Pays : LE!TotalOf(moved, c) <= Price

LedgerInv == LedgerType /\ Booked /\ AdminSound /\ HookSound /\ MovedBounded

OfRows(rows, c) == {i \in 1..Len(rows) : rows[i].of = c}
AmountColumn(rows) == [i \in 1..Len(rows) |-> rows[i].amt]

\* The ledger's sum is the one SumProofs is about.
LEMMA SameSum ==
    ASSUME NEW f, NEW S
    PROVE  LE!SumFunctionOnSet(f, S) = SumFunctionOnSet(f, S)
  BY DEF LE!SumFunctionOnSet, SumFunctionOnSet, LE!FoldFunctionOnSet, FoldFunctionOnSet,
         LE!MapThenFoldSet, MapThenFoldSet

\* A total is the sum of a column over the rows of a charge, and a number.
LEMMA TotalIsSum ==
    ASSUME NEW R, NEW rows \in Seq(R), \A r \in R : r.amt \in Nat, NEW c
    PROVE  /\ LE!TotalOf(rows, c) = SumFunctionOnSet(AmountColumn(rows), OfRows(rows, c))
           /\ IsFiniteSet(OfRows(rows, c)) /\ OfRows(rows, c) \subseteq 1..Len(rows)
           /\ \A i \in 1..Len(rows) : /\ AmountColumn(rows)[i] = rows[i].amt
                                      /\ AmountColumn(rows)[i] \in Nat
           /\ LE!TotalOf(rows, c) \in Nat
<1>1. DOMAIN rows = 1..Len(rows) /\ Len(rows) \in Nat /\ \A i \in 1..Len(rows) : rows[i] \in R
  OBVIOUS
<1>2. LE!TotalOf(rows, c) = LE!SumFunctionOnSet(AmountColumn(rows), OfRows(rows, c))
  BY <1>1 DEF LE!TotalOf, AmountColumn, OfRows
<1>3. LE!TotalOf(rows, c) = SumFunctionOnSet(AmountColumn(rows), OfRows(rows, c))
  BY <1>2, SameSum
<1>4. OfRows(rows, c) \subseteq 1..Len(rows)
  BY DEF OfRows
<1>5. IsFiniteSet(OfRows(rows, c))
  <2>1. ASSUME NEW n \in Nat PROVE IsFiniteSet(1..n)
    BY ONLY FS_Interval
  <2>2. IsFiniteSet(1..Len(rows))
    BY ONLY <1>1, <2>1
  <2> QED
    BY <1>4, <2>2, FS_Subset
<1>6. \A i \in 1..Len(rows) : AmountColumn(rows)[i] = rows[i].amt /\ AmountColumn(rows)[i] \in Nat
  BY <1>1 DEF AmountColumn
<1>7. PICK f : f = AmountColumn(rows)
  OBVIOUS
<1>8. PICK S : S = OfRows(rows, c)
  OBVIOUS
<1>9. IsFiniteSet(S) /\ \A i \in S : f[i] \in Nat
  BY <1>4, <1>5, <1>6, <1>7, <1>8
<1>10. SumFunctionOnSet(f, S) \in Nat
  BY ONLY <1>9, SumNat
<1> QED
  BY <1>3, <1>4, <1>5, <1>6, <1>7, <1>8, <1>10

Adds(ms, ns, c, a) == ns = Append(ms, [of |-> c, amt |-> a])

\* A refund adds its amount to the total of its charge.
LEMMA TotalGrows ==
    ASSUME NEW ms \in Seq(MovedRow), NEW c \in Pays, NEW a \in Nat, NEW ns, Adds(ms, ns, c, a),
           NEW q
    PROVE  /\ q = c => LE!TotalOf(ns, q) = LE!TotalOf(ms, q) + a
           /\ q # c => LE!TotalOf(ns, q) = LE!TotalOf(ms, q)
<1>1. \A r \in MovedRow : r.amt \in Nat
  BY DEF MovedRow
<1>2. [of |-> c, amt |-> a] \in MovedRow
  BY DEF MovedRow
<1>3. PICK j : j = Len(ms) + 1
  OBVIOUS
<1>4. /\ ns \in Seq(MovedRow) /\ Len(ns) = j /\ j \in 1..Len(ns) /\ Len(ms) \in Nat
      /\ ns[j] = [of |-> c, amt |-> a]
      /\ \A i \in 1..Len(ms) : ns[i] = ms[i] /\ i \in 1..Len(ns)
      /\ \A i \in 1..Len(ns) : i \in 1..Len(ms) \/ i = j
      /\ j \notin 1..Len(ms)
  BY <1>2, <1>3 DEF Adds
<1>5. PICK f : f = AmountColumn(ms)
  OBVIOUS
<1>6. PICK g : g = AmountColumn(ns)
  OBVIOUS
<1>7. PICK S : S = OfRows(ms, q)
  OBVIOUS
<1>8. /\ LE!TotalOf(ms, q) = SumFunctionOnSet(f, S) /\ LE!TotalOf(ms, q) \in Nat
      /\ IsFiniteSet(S) /\ S \subseteq 1..Len(ms)
      /\ \A i \in 1..Len(ms) : f[i] = ms[i].amt /\ f[i] \in Nat
  BY <1>1, <1>5, <1>7, TotalIsSum
<1>9. /\ LE!TotalOf(ns, q) = SumFunctionOnSet(g, OfRows(ns, q))
      /\ \A i \in 1..Len(ns) : g[i] = ns[i].amt /\ g[i] \in Nat
  BY <1>1, <1>4, <1>6, TotalIsSum
<1>10. \A i \in S : f[i] \in Int /\ f[i] = g[i]
  BY <1>4, <1>8, <1>9
<1>11. SumFunctionOnSet(f, S) = SumFunctionOnSet(g, S)
  BY <1>8, <1>10, SumSame
<1>12. CASE q # c
  <2>1. OfRows(ns, q) = S
    BY <1>4, <1>7, <1>12 DEF OfRows
  <2> QED
    BY <1>8, <1>9, <1>11, <1>12, <2>1
<1>13. CASE q = c
  <2>1. OfRows(ns, q) = S \cup {j}
    BY <1>4, <1>7, <1>13 DEF OfRows
  <2>2. g[j] = a /\ g[j] \in Int /\ j \notin S /\ \A i \in S : g[i] \in Int
    BY <1>4, <1>8, <1>9, <1>10
  <2>3. SumFunctionOnSet(g, S \cup {j}) = g[j] + SumFunctionOnSet(g, S)
    BY <1>8, <2>2, SumAdd
  <2>4. LE!TotalOf(ns, q) = a + LE!TotalOf(ms, q)
    BY <1>8, <1>9, <1>11, <2>1, <2>2, <2>3
  <2> QED
    BY <1>8, <1>13, <2>4
<1> QED
  BY <1>12, <1>13

\* The processor's refund: a new transaction within what its charge has left.
LEMMA MovedGrows ==
    ASSUME LedgerInv, NEW c \in Pays, NEW a \in Nat, LE!ProcessorRefund(c, a)
    PROVE  /\ moved' \in Seq(MovedRow) /\ Len(moved') = Len(moved) + 1 /\ Len(moved) \in Nat
           /\ \A i \in 1..Len(moved) : moved'[i] = moved[i]
           /\ moved'[Len(moved) + 1] = [of |-> c, amt |-> a]
           /\ MovedBounded' /\ hook' \in [LE!Txns -> HookType] /\ HookSound'
<1>1. moved \in Seq(MovedRow) /\ moved' = Append(moved, [of |-> c, amt |-> a])
  BY DEF LedgerInv, LedgerType, LE!ProcessorRefund
<1>2. [of |-> c, amt |-> a] \in MovedRow
  BY DEF MovedRow
<1>3. /\ moved' \in Seq(MovedRow) /\ Len(moved') = Len(moved) + 1 /\ Len(moved) \in Nat
      /\ \A i \in 1..Len(moved) : moved'[i] = moved[i]
      /\ moved'[Len(moved) + 1] = [of |-> c, amt |-> a]
  BY <1>1, <1>2
<1>4. MovedBounded'
  <2> SUFFICES ASSUME NEW q \in Pays PROVE LE!TotalOf(moved', q) <= Price
    BY DEF MovedBounded
  <2>1. /\ q = c => LE!TotalOf(moved', q) = LE!TotalOf(moved, q) + a
        /\ q # c => LE!TotalOf(moved', q) = LE!TotalOf(moved, q)
    <3>1. Adds(moved, moved', c, a)
      BY <1>1 DEF Adds
    <3> QED
      BY <1>1, <3>1, TotalGrows
  <2>2. LE!TotalOf(moved, c) + a <= Price /\ LE!TotalOf(moved, q) <= Price
    BY DEF LE!ProcessorRefund, LedgerInv, MovedBounded
  <2> QED
    BY <2>1, <2>2
<1>5. Len(moved) + 1 \in LE!Txns
  BY <1>3, LedgerAssumption DEF LE!ProcessorRefund, LE!Txns
<1>6. hook' \in [LE!Txns -> HookType]
  <2>1. ASSUME NEW named \in BOOLEAN
        PROVE  [at |-> "sent", named |-> named, pay |-> 0] \in HookType
    BY DEF HookType, Pays
  <2> QED
    BY <2>1 DEF LE!ProcessorRefund, LedgerInv, LedgerType
<1>7. HookSound'
  <2> SUFFICES ASSUME NEW t \in LE!Txns, hook'[t].at # "none" PROVE t \in 1..Len(moved')
    BY DEF HookSound, LE!Txns
  <2>1. CASE t = Len(moved) + 1
    BY <1>3, <2>1
  <2>2. CASE t # Len(moved) + 1
    <3>1. hook'[t] = hook[t]
      BY <1>5, <2>2 DEF LE!ProcessorRefund, LedgerInv, LedgerType
    <3>2. t \in 1..Len(moved)
      BY <3>1 DEF LedgerInv, HookSound
    <3> QED
      BY <1>3, <3>2
  <2> QED
    BY <2>1, <2>2
<1> QED
  BY <1>3, <1>4, <1>6, <1>7

\* What was booked and what requests know stays true of the longer list.
LEMMA BookedStays ==
    ASSUME LedgerInv, refunds' = refunds, Len(moved') = Len(moved) + 1, Len(moved) \in Nat,
           \A i \in 1..Len(moved) : moved'[i] = moved[i]
    PROVE  /\ Booked'
           /\ \A w \in Admins : admin[w].at \in {"record", "create"} =>
                 admin[w].txn \in 1..Len(moved') /\ admin[w].amt = moved'[admin[w].txn].amt
<1>1. Booked'
  BY DEF LedgerInv, Booked
<1> QED
  BY <1>1 DEF LedgerInv, AdminSound

\* An insert that passes the index books a transaction for the first time.
LEMMA Inserts ==
    ASSUME LedgerInv, moved' = moved, NEW t \in 1..Len(moved), NEW c \in Pays, NEW a,
           a = moved[t].amt, LE!Create(t, c, a)
    PROVE  refunds' \in Seq(RefundRow) /\ Booked'
<1>1. /\ refunds \in Seq(RefundRow) /\ moved \in Seq(MovedRow) /\ moved[t] \in MovedRow
      /\ Len(moved) \in Nat
  BY DEF LedgerInv, LedgerType
<1>2. a \in Nat /\ t \in Nat
  BY <1>1 DEF MovedRow
<1>3. PICK r : r = [txn |-> t, of |-> c, amt |-> a]
  OBVIOUS
<1>4. r \in RefundRow /\ r.txn = t /\ r.amt = a
  BY <1>2, <1>3 DEF RefundRow
<1>5. refunds' = Append(refunds, r)
  BY <1>3 DEF LE!Create
<1>6. /\ refunds' \in Seq(RefundRow) /\ Len(refunds') = Len(refunds) + 1
      /\ Len(refunds) \in Nat
      /\ refunds'[Len(refunds) + 1] = r
      /\ \A i \in 1..Len(refunds) : refunds'[i] = refunds[i]
      /\ \A i \in 1..Len(refunds') : i \in 1..Len(refunds) \/ i = Len(refunds) + 1
  BY <1>1, <1>4, <1>5
<1>7. \A i \in 1..Len(refunds) : refunds[i].txn # t
  <2>1. DOMAIN refunds = 1..Len(refunds)
    BY <1>1
  <2> QED
    BY <2>1 DEF LE!Create, LE!GetByTransactionID
<1>8. \A i \in 1..Len(refunds') : /\ refunds'[i].txn \in 1..Len(moved)
                                  /\ refunds'[i].amt = moved[refunds'[i].txn].amt
  BY <1>4, <1>6 DEF LedgerInv, Booked
<1>9. \A i, j \in 1..Len(refunds') : refunds'[i].txn = refunds'[j].txn => i = j
  BY <1>4, <1>6, <1>7 DEF LedgerInv, Booked
<1> QED
  BY <1>6, <1>8, <1>9 DEF Booked

\* An idle request promises nothing.
LEMMA IdleAdminType == LE!IdleAdmin \in AdminType /\ LE!IdleAdmin.at = "idle"
  BY DEF LE!IdleAdmin, AdminType, Pays

\* A request that gives up leaves the others as they are.
LEMMA LeaveKeeps ==
    ASSUME LedgerInv, moved' = moved, NEW w \in Admins, LE!Leave(w)
    PROVE  admin' \in [Admins -> AdminType] /\ AdminSound'
<1>1. admin' = [admin EXCEPT ![w] = LE!IdleAdmin] /\ admin \in [Admins -> AdminType]
  BY DEF LE!Leave, LedgerInv, LedgerType
<1>2. admin' \in [Admins -> AdminType]
  BY <1>1, IdleAdminType
<1>3. \A v \in Admins : admin'[v] = admin[v] \/ admin'[v].at = "idle"
  BY <1>1, IdleAdminType
<1> QED
  BY <1>2, <1>3 DEF LedgerInv, AdminSound

\* Steps that touch the requests only.
LEMMA AdminOnly ==
    ASSUME LedgerInv, UNCHANGED <<charged, moved, refunds, hook>>,
           admin' \in [Admins -> AdminType], AdminSound'
    PROVE  LedgerInv'
  BY DEF LedgerInv, LedgerType, Booked, HookSound, MovedBounded

\* Steps that touch one notice that the processor has sent.
LEMMA HookMoves ==
    ASSUME LedgerInv, NEW t \in LE!Txns, hook[t].at # "none", NEW h \in HookType,
           hook' = [hook EXCEPT ![t] = h], moved' = moved
    PROVE  hook' \in [LE!Txns -> HookType] /\ HookSound'
<1>1. hook \in [LE!Txns -> HookType] /\ t \in 1..Len(moved)
  BY DEF LedgerInv, LedgerType, HookSound
<1>2. hook' \in [LE!Txns -> HookType]
  BY <1>1
<1>3. \A s \in LE!Txns : hook'[s].at # "none" => s \in 1..Len(moved)
  <2> SUFFICES ASSUME NEW s \in LE!Txns, hook'[s].at # "none" PROVE s \in 1..Len(moved)
    OBVIOUS
  <2>1. CASE s = t
    BY <1>1, <2>1
  <2>2. CASE s # t
    BY <1>1, <2>2 DEF LedgerInv, HookSound
  <2> QED
    BY <2>1, <2>2
<1> QED
  BY <1>2, <1>3 DEF HookSound, LE!Txns

\* A notice's step, by its next place.
LEMMA GotoMoves ==
    ASSUME LedgerInv, NEW t \in LE!Txns, hook[t].at # "none",
           NEW step \in {"none", "sent", "create", "end", "unbooked", "passed", "done"},
           LE!Goto(t, step), moved' = moved
    PROVE  hook' \in [LE!Txns -> HookType] /\ HookSound'
<1>1. hook \in [LE!Txns -> HookType] /\ hook[t] \in HookType
  BY DEF LedgerInv, LedgerType
<1>2. PICK h : h = [hook[t] EXCEPT !.at = step]
  OBVIOUS
<1>3. h \in HookType
  BY <1>1, <1>2 DEF HookType
<1>4. hook' = [hook EXCEPT ![t] = h]
  BY <1>2 DEF LE!Goto
<1> QED
  BY <1>3, <1>4, HookMoves

\* The requests of the administrators.
LEMMA AdminRefundStep ==
    ASSUME LedgerInv, NEW w \in Admins, NEW c \in Charges, NEW a \in LE!Amounts,
           LE!AdminRefund(w, c, a)
    PROVE  LedgerInv'
<1>1. PICK r : r = [at |-> "call", pay |-> c, amt |-> a, txn |-> 0]
  OBVIOUS
<1>2. r \in AdminType /\ r.at = "call"
  BY <1>1, LedgerAssumption DEF AdminType, Pays, LE!Amounts
<1>3. /\ admin' = [admin EXCEPT ![w] = r] /\ admin \in [Admins -> AdminType]
      /\ UNCHANGED <<charged, moved, refunds, hook>>
  BY <1>1 DEF LE!AdminRefund, LE!AdminStep, LedgerInv, LedgerType
<1>4. admin' \in [Admins -> AdminType] /\ \A v \in Admins : admin'[v] = admin[v] \/ admin'[v].at = "call"
  BY <1>2, <1>3
<1>5. AdminSound'
  BY <1>3, <1>4 DEF LedgerInv, AdminSound
<1> QED
  BY <1>3, <1>4, <1>5, AdminOnly

\* The processor does what the request asks, and the request may learn of it.
LEMMA AdminCallStep ==
    ASSUME LedgerInv, NEW w \in Admins, LE!AdminRefundCall(w)
    PROVE  LedgerInv'
<1>1. admin \in [Admins -> AdminType] /\ admin[w] \in AdminType
  BY DEF LedgerInv, LedgerType
<1>2. PICK c \in Pays : c = admin[w].pay
  BY <1>1 DEF AdminType
<1>3. PICK a \in Nat : a = admin[w].amt
  BY <1>1 DEF AdminType
<1>4. LE!ProcessorRefund(c, a) /\ UNCHANGED <<charged, refunds>>
  BY <1>2, <1>3 DEF LE!AdminRefundCall, LE!AdminStep
<1>5. /\ moved' \in Seq(MovedRow) /\ Len(moved') = Len(moved) + 1 /\ Len(moved) \in Nat
      /\ \A i \in 1..Len(moved) : moved'[i] = moved[i]
      /\ moved'[Len(moved) + 1] = [of |-> c, amt |-> a]
      /\ MovedBounded' /\ hook' \in [LE!Txns -> HookType] /\ HookSound'
  BY <1>4, MovedGrows
<1>6. /\ Booked'
      /\ \A v \in Admins : admin[v].at \in {"record", "create"} =>
            admin[v].txn \in 1..Len(moved') /\ admin[v].amt = moved'[admin[v].txn].amt
  BY <1>4, <1>5, BookedStays
<1>7. PICK r \in AdminType :
         /\ admin' = [admin EXCEPT ![w] = r]
         /\ \/ r.at = "idle"
            \/ r.txn = Len(moved) + 1 /\ r.amt = a
  <2>1. CASE admin' = [admin EXCEPT ![w].at = "record", ![w].txn = Len(moved) + 1]
    <3>0. PICK n \in Nat : n = Len(moved) + 1
      BY <1>5
    <3>1. PICK r : r = [admin[w] EXCEPT !.at = "record", !.txn = n]
      OBVIOUS
    <3>2. r \in AdminType /\ r.txn = n /\ r.amt = a
      BY <1>1, <1>3, <3>1 DEF AdminType
    <3>3. admin' = [admin EXCEPT ![w] = r]
      BY <1>1, <2>1, <3>0, <3>1
    <3> QED
      BY <3>0, <3>2, <3>3
  <2>2. CASE LE!Leave(w)
    BY <2>2, IdleAdminType DEF LE!Leave
  <2> QED
    BY <2>1, <2>2 DEF LE!AdminRefundCall
<1>8. admin' \in [Admins -> AdminType]
  BY <1>1, <1>7
<1>9. AdminSound'
  <2>1. ASSUME NEW v \in Admins, admin'[v].at \in {"record", "create"}
        PROVE  admin'[v].txn \in 1..Len(moved') /\ admin'[v].amt = moved'[admin'[v].txn].amt
    <3>1. CASE v = w
      BY <1>1, <1>5, <1>7, <2>1, <3>1
    <3>2. CASE v # w
      BY <1>1, <1>6, <1>7, <2>1, <3>2
    <3> QED
      BY <3>1, <3>2
  <2> QED
    BY <2>1 DEF AdminSound
<1> QED
  BY <1>4, <1>5, <1>6, <1>8, <1>9 DEF LedgerInv, LedgerType

\* Validating once more moves the request on, or ends it.
LEMMA RefundStep ==
    ASSUME LedgerInv, NEW w \in Admins, LE!Refund(w)
    PROVE  LedgerInv'
<1>1. admin \in [Admins -> AdminType] /\ admin[w] \in AdminType /\ admin[w].at = "record"
  BY DEF LedgerInv, LedgerType, LE!Refund, LE!At
<1>2. UNCHANGED <<charged, moved, refunds, hook>>
  BY DEF LE!Refund, LE!AdminStep
<1>3. CASE LE!Leave(w)
  BY <1>2, <1>3, LeaveKeeps, AdminOnly
<1>4. CASE admin' = [admin EXCEPT ![w].at = "create"]
  <2>1. PICK r : r = [admin[w] EXCEPT !.at = "create"]
    OBVIOUS
  <2>2. r \in AdminType /\ r.txn = admin[w].txn /\ r.amt = admin[w].amt
    BY <1>1, <2>1 DEF AdminType
  <2>3. admin' = [admin EXCEPT ![w] = r]
    BY <1>1, <1>4, <2>1
  <2>4. admin' \in [Admins -> AdminType]
    BY <1>1, <2>2, <2>3
  <2>5. \A v \in Admins : \/ admin'[v] = admin[v]
                          \/ /\ admin[v].at = "record" /\ admin'[v].txn = admin[v].txn
                             /\ admin'[v].amt = admin[v].amt
    BY <1>1, <2>2, <2>3
  <2>6. AdminSound'
    BY <1>2, <2>5 DEF LedgerInv, AdminSound
  <2> QED
    BY <1>2, <2>4, <2>6, AdminOnly
<1> QED
  BY <1>3, <1>4 DEF LE!Refund

\* The request's insert.
LEMMA RefundCreateStep ==
    ASSUME LedgerInv, NEW w \in Admins, LE!RefundCreate(w)
    PROVE  LedgerInv'
<1>1. /\ admin[w] \in AdminType /\ admin[w].at = "create" /\ LE!Leave(w)
      /\ UNCHANGED <<charged, moved, hook>>
  BY DEF LedgerInv, LedgerType, LE!RefundCreate, LE!At, LE!AdminStep
<1>2. admin' \in [Admins -> AdminType] /\ AdminSound'
  BY <1>1, LeaveKeeps
<1>3. CASE refunds' = refunds
  BY <1>1, <1>2, <1>3, AdminOnly
<1>4. CASE LE!Create(admin[w].txn, admin[w].pay, admin[w].amt)
  <2>1. /\ admin[w].txn \in 1..Len(moved) /\ admin[w].amt = moved[admin[w].txn].amt
        /\ admin[w].pay \in Pays
    BY <1>1 DEF LedgerInv, AdminSound, AdminType
  <2>2. refunds' \in Seq(RefundRow) /\ Booked'
    BY <1>1, <1>4, <2>1, Inserts
  <2> QED
    BY <1>1, <1>2, <2>2 DEF LedgerInv, LedgerType, HookSound, MovedBounded
<1> QED
  BY <1>3, <1>4 DEF LE!RefundCreate

\* The notices of the processor.
LEMMA HookNextStep ==
    ASSUME LedgerInv, NEW t \in LE!Txns, LE!HookNext(t) \/ LE!HookCrash(t)
    PROVE  LedgerInv'
<1>1. /\ hook \in [LE!Txns -> HookType] /\ hook[t] \in HookType
      /\ UNCHANGED <<charged, moved, admin>>
  BY DEF LedgerInv, LedgerType, LE!HookNext, LE!HookCrash, LE!HandleRefundSuccess,
         LE!HandleRefundCreate, LE!HandleRefundEnd, LE!HookStep
<1>2. hook[t].at # "none"
  BY DEF LE!HookNext, LE!HookCrash, LE!HandleRefundSuccess,
         LE!HandleRefundCreate, LE!HandleRefundEnd, LE!HookAt
<1>3. ASSUME refunds' = refunds, hook' \in [LE!Txns -> HookType], HookSound' PROVE LedgerInv'
  BY <1>1, <1>3 DEF LedgerInv, LedgerType, Booked, AdminSound, MovedBounded
<1>4. ASSUME NEW step \in {"none", "sent", "create", "end", "unbooked", "passed", "done"},
             LE!Goto(t, step), refunds' = refunds
      PROVE  LedgerInv'
  BY <1>1, <1>2, <1>3, <1>4, GotoMoves
<1>5. CASE LE!HandleRefundSuccess(t)
  <2>1. ASSUME NEW c \in LE!Original(t), hook' = [hook EXCEPT ![t].at = "create", ![t].pay = c]
        PROVE  LedgerInv'
    <3>1. c \in Pays
      <4>1. charged \subseteq Charges
        BY DEF LedgerInv, LedgerType
      <4>2. PICK S \in SUBSET Charges : c \in charged \/ c = LE!Max(S)
        BY <4>1, <2>1 DEF LE!Original, LE!GetLatestChargeBySubscriptionID
      <4> QED
        BY <4>1, <4>2 DEF Pays
    <3>2. PICK h : h = [hook[t] EXCEPT !.at = "create", !.pay = c]
      OBVIOUS
    <3>3. h \in HookType
      BY <1>1, <3>1, <3>2 DEF HookType
    <3>4. hook' = [hook EXCEPT ![t] = h]
      BY <1>1, <2>1, <3>2
    <3>5. refunds' = refunds
      BY <1>5 DEF LE!HandleRefundSuccess
    <3> QED
      BY <1>1, <1>2, <1>3, <3>3, <3>4, <3>5, HookMoves
  <2>2. refunds' = refunds
    BY <1>5 DEF LE!HandleRefundSuccess
  <2> QED
    BY <1>4, <1>5, <2>1, <2>2 DEF LE!HandleRefundSuccess
<1>6. CASE LE!HandleRefundCreate(t)
  <2>1. CASE LE!Create(t, hook[t].pay, moved[t].amt) /\ LE!Goto(t, "end")
    <3>1. t \in 1..Len(moved) /\ hook[t].pay \in Pays
      BY <1>1, <1>2 DEF LedgerInv, HookSound, HookType
    <3>2. refunds' \in Seq(RefundRow) /\ Booked'
      BY <1>1, <2>1, <3>1, Inserts
    <3>3. hook' \in [LE!Txns -> HookType] /\ HookSound'
      BY <1>1, <1>2, <2>1, GotoMoves
    <3> QED
      BY <1>1, <3>2, <3>3 DEF LedgerInv, LedgerType, AdminSound, MovedBounded
  <2>2. CASE refunds' = refunds /\ LE!Goto(t, "sent")
    BY <1>4, <2>2
  <2> QED
    BY <1>6, <2>1, <2>2 DEF LE!HandleRefundCreate
<1>7. CASE LE!HandleRefundEnd(t)
  BY <1>4, <1>7 DEF LE!HandleRefundEnd
<1>8. CASE LE!HookCrash(t)
  BY <1>4, <1>8 DEF LE!HookCrash
<1> QED
  BY <1>5, <1>6, <1>7, <1>8 DEF LE!HookNext

\* Every step of the ledger.
LEMMA LedgerStep == LedgerInv /\ LE!Next => LedgerInv'
<1> SUFFICES ASSUME LedgerInv, LE!Next PROVE LedgerInv'
  OBVIOUS
<1>1. ASSUME NEW c \in Charges, LE!RecordCharge(c) PROVE LedgerInv'
  BY <1>1 DEF LE!RecordCharge, LedgerInv, LedgerType, Booked, AdminSound, HookSound, MovedBounded
<1>2. ASSUME NEW c \in Charges, NEW a \in LE!Amounts, LE!PortalRefund(c, a) PROVE LedgerInv'
  <2>1. c \in Pays /\ a \in Nat /\ LE!ProcessorRefund(c, a) /\ UNCHANGED <<charged, refunds, admin>>
    BY <1>2, LedgerAssumption DEF Pays, LE!Amounts, LE!PortalRefund
  <2>2. /\ moved' \in Seq(MovedRow) /\ Len(moved') = Len(moved) + 1 /\ Len(moved) \in Nat
        /\ \A i \in 1..Len(moved) : moved'[i] = moved[i]
        /\ MovedBounded' /\ hook' \in [LE!Txns -> HookType] /\ HookSound'
    BY <2>1, MovedGrows
  <2>3. Booked' /\ AdminSound'
    BY <2>1, <2>2, BookedStays DEF AdminSound
  <2> QED
    BY <2>1, <2>2, <2>3 DEF LedgerInv, LedgerType
<1>3. ASSUME NEW w \in Admins, LE!AdminRefundFails(w) \/ LE!AdminCrash(w) PROVE LedgerInv'
  <2>1. LE!Leave(w) /\ UNCHANGED <<charged, moved, refunds, hook>>
    BY <1>3 DEF LE!AdminRefundFails, LE!AdminCrash, LE!AdminStep
  <2> QED
    BY <2>1, LeaveKeeps, AdminOnly
<1> QED
  BY <1>1, <1>2, <1>3, AdminRefundStep, AdminCallStep, RefundStep, RefundCreateStep, HookNextStep
  DEF LE!Next

-----------------------------------------------------------------------------
(* The composition.                                                        *)

\* The parts begin as they do by themselves.
LEMMA InitParts == OperationsInit => IntakeInv /\ LogInv /\ MirrorInv /\ LedgerInv
<1> SUFFICES ASSUME OperationsInit PROVE IntakeInv /\ LogInv /\ MirrorInv /\ LedgerInv
  OBVIOUS
<1>1. IntakeInv
  BY DEF OperationsInit, IK!Init, IntakeInv
<1>2. LogInv
  BY DEF OperationsInit, EL!Init, EL!IdleFlush, LogInv
<1>3. MirrorInv
  <2>1. MI!NoRow.plan \in Plans
    BY NoRowType DEF RowType
  <2>2. MI!Init
    BY DEF OperationsInit
  <2>3. op \in [MI!Ops -> OpType] /\ \A o \in MI!Ops : op[o] = MI!IdleOp
    BY <2>2, NoRowType DEF MI!Init
  <2> QED
    BY <2>1, <2>2, <2>3, NoRowType
    DEF MI!Init, MirrorInv, MirrorType, RemoteType, RowSound, OpSound, Asked
<1>4. LedgerInv
  <2>1. LE!Init
    BY DEF OperationsInit
  <2>2. /\ admin \in [Admins -> AdminType] /\ \A w \in Admins : admin[w].at = "idle"
    BY <2>1, IdleAdminType DEF LE!Init
  <2>3. LE!NoHook \in HookType /\ LE!NoHook.at = "none"
    BY DEF LE!NoHook, HookType, Pays
  <2>4. moved = <<>> /\ refunds = <<>> /\ charged = {} /\ hook = [t \in LE!Txns |-> LE!NoHook]
    BY <2>1 DEF LE!Init
  <2>5. LedgerType
    BY <2>2, <2>3, <2>4 DEF LedgerType
  <2>6. Booked /\ AdminSound /\ HookSound
    BY <2>2, <2>3, <2>4 DEF Booked, AdminSound, HookSound
  <2>7. MovedBounded
    <3> SUFFICES ASSUME NEW c \in Pays PROVE LE!TotalOf(moved, c) <= Price
      BY DEF MovedBounded
    <3>1. moved \in Seq(MovedRow) /\ \A r \in MovedRow : r.amt \in Nat
      BY <2>5 DEF LedgerType, MovedRow
    <3>2. LE!TotalOf(moved, c) = SumFunctionOnSet(AmountColumn(moved), OfRows(moved, c))
      BY <3>1, TotalIsSum
    <3>3. OfRows(moved, c) = {}
      BY <2>4 DEF OfRows
    <3> QED
      BY <3>2, <3>3, SumEmpty, LedgerAssumption
  <2> QED
    BY <2>5, <2>6, <2>7 DEF LedgerInv
<1> QED
  BY <1>1, <1>2, <1>3, <1>4

\* Only one of them moves.
LEMMA OneMoves ==
    ASSUME [OperationsNext]_allVars
    PROVE  /\ IK!Next \/ UNCHANGED intakeVars
           /\ EL!Next \/ UNCHANGED logVars
           /\ MI!Next \/ UNCHANGED mirrorVars
           /\ LE!Next \/ UNCHANGED ledgerVars
  BY DEF OperationsNext, allVars, Timeline, Mirror, Ledger, Disputes, Intake, Log

\* So each keeps its invariant.
LEMMA NextParts ==
    ASSUME IntakeInv, LogInv, MirrorInv, LedgerInv, [OperationsNext]_allVars
    PROVE  (IntakeInv /\ LogInv /\ MirrorInv /\ LedgerInv)'
<1>1. IntakeInv'
  <2>1. CASE UNCHANGED intakeVars
    BY <2>1 DEF intakeVars, IntakeInv
  <2> QED
    BY <2>1, OneMoves, IntakeStep
<1>2. LogInv'
  <2>1. CASE UNCHANGED logVars
    BY <2>1 DEF logVars, LogInv, Traced, EL!Batch
  <2> QED
    BY <2>1, OneMoves, LogStep
<1>3. MirrorInv'
  <2>1. CASE UNCHANGED mirrorVars
    BY <2>1 DEF mirrorVars, MirrorInv, MirrorType, RowSound, EventSound, OpSound
  <2> QED
    BY <2>1, OneMoves, MirrorStep
<1>4. LedgerInv'
  <2>1. CASE UNCHANGED ledgerVars
    BY <2>1 DEF ledgerVars, LedgerInv, LedgerType, Booked, AdminSound, HookSound, MovedBounded
  <2> QED
    BY <2>1, OneMoves, LedgerStep
<1> QED
  BY <1>1, <1>2, <1>3, <1>4

\* All of it holds in every behaviour.
LEMMA PartsHold == OperationsSpec => [](IntakeInv /\ LogInv /\ MirrorInv /\ LedgerInv)
<1>1. OperationsInit => IntakeInv /\ LogInv /\ MirrorInv /\ LedgerInv
  BY InitParts
<1>2. IntakeInv /\ LogInv /\ MirrorInv /\ LedgerInv /\ [OperationsNext]_allVars
        => (IntakeInv /\ LogInv /\ MirrorInv /\ LedgerInv)'
  BY NextParts
<1> QED
  BY <1>1, <1>2, PTL DEF OperationsSpec

\* However an event comes in again, by either door, under either name of the gateway and
\* with the fields of its form in any order, there are never two jobs of it at a time.
THEOREM QueuesOnce == OperationsSpec => []OneJobPerEvent
<1>1. IntakeInv => OneJobPerEvent
  <2> SUFFICES ASSUME IntakeInv, NEW j \in jobs, NEW k \in jobs, j.event = k.event PROVE j = k
    BY DEF OneJobPerEvent, IK!OneJobPerEvent
  <2>1. /\ j = [key |-> KeyOf(j.event), event |-> j.event]
        /\ k = [key |-> KeyOf(k.event), event |-> k.event]
    BY DEF IntakeInv
  <2> QED
    BY <2>1
<1> QED
  BY <1>1, PartsHold, PTL

\* An event whose sender was told that it is accepted was queued as itself: no other event's
\* job was taken for its own, whatever events there are and however often jobs are cleaned.
THEOREM QueuesAccepted == OperationsSpec => []AcceptedIsQueued
<1>1. IntakeInv => AcceptedIsQueued
  BY DEF IntakeInv, AcceptedIsQueued, IK!AcceptedIsQueued
<1> QED
  BY <1>1, PartsHold, PTL

\* No order of renames, reads, batches, failures and crashes loses an event that a call
\* has logged, for any number of events and any limits of the spool.
THEOREM LogKeeps == OperationsSpec => []LoggedIsKept
<1>1. LogInv => LoggedIsKept
  BY DEF LogInv, Traced, LoggedIsKept, EL!LoggedIsKept
<1> QED
  BY <1>1, PartsHold, PTL

\* No request, webhook, job or report shows a row as cancelled that the processor was not
\* asked to stop, whatever order they come in and however old the row that they write back
\* is; but for the places that cancel without asking, whose traces its cancel_type bears.
THEOREM CancelsRemotely == OperationsSpec => []LocalCancelIsRemote
<1>1. MirrorInv => LocalCancelIsRemote
  <2> SUFFICES ASSUME MirrorInv, row.st = "cancelled", ~told
               PROVE  local \cap MI!Excuses(row.type) # {}
    BY DEF LocalCancelIsRemote, MI!LocalCancelIsRemote
  <2>1. row \in RowType /\ row.type # "none" /\ Backed(row.type, told, local)
    BY DEF MirrorInv, MirrorType, RowSound, RowOK
  <2>2. row.type \in {"user", "merchant", "expired", "chargeback"}
    BY <2>1 DEF RowType, Types
  <2>3. PICK why \in local : why \in MI!Excuses(row.type)
    BY <2>1, <2>2 DEF Backed, MI!Excuses
  <2> QED
    BY <2>3
<1> QED
  BY <1>1, PartsHold, PTL

\* The ledger books no more refunds of a payment than the processor has made of it, and so
\* no more than was paid, for any number of charges, requests and notices and any price;
\* unless a notice without its transaction was booked under another charge.
THEOREM RefundsStayWithinCharge == OperationsSpec => []RefundsWithinCharge
<1>1. LedgerInv => RefundsWithinCharge
  <2> SUFFICES ASSUME LedgerInv, NEW c \in Charges, ~LE!Misbooked(c)
               PROVE  LE!TotalOf(refunds, c) <= Price
    BY DEF RefundsWithinCharge, LE!RefundsWithinCharge, LE!GetRefundTotalByPaymentID
  <2>1. /\ refunds \in Seq(RefundRow) /\ moved \in Seq(MovedRow)
        /\ \A r \in RefundRow : r.amt \in Nat
        /\ \A r \in MovedRow : r.amt \in Nat
    BY DEF LedgerInv, LedgerType, RefundRow, MovedRow
  <2>2. PICK f : f = AmountColumn(refunds)
    OBVIOUS
  <2>3. PICK S : S = OfRows(refunds, c)
    OBVIOUS
  <2>4. PICK g : g = AmountColumn(moved)
    OBVIOUS
  <2>5. PICK T : T = OfRows(moved, c)
    OBVIOUS
  <2>6. /\ LE!TotalOf(refunds, c) = SumFunctionOnSet(f, S) /\ LE!TotalOf(refunds, c) \in Nat
        /\ IsFiniteSet(S) /\ S \subseteq 1..Len(refunds)
        /\ \A i \in 1..Len(refunds) : f[i] = refunds[i].amt
    BY <2>1, <2>2, <2>3, TotalIsSum
  <2>7. /\ LE!TotalOf(moved, c) = SumFunctionOnSet(g, T) /\ LE!TotalOf(moved, c) \in Nat
        /\ IsFiniteSet(T) /\ T \subseteq 1..Len(moved)
        /\ \A i \in 1..Len(moved) : g[i] = moved[i].amt /\ g[i] \in Nat
    BY <2>1, <2>4, <2>5, TotalIsSum
  <2>8. PICK m : m = [i \in S |-> refunds[i].txn]
    OBVIOUS
  <2>9. ASSUME NEW i \in S
        PROVE  m[i] = refunds[i].txn /\ m[i] \in T /\ f[i] = g[m[i]]
    <3>1. i \in 1..Len(refunds) /\ refunds[i].of = c /\ m[i] = refunds[i].txn
      BY <2>3, <2>8 DEF OfRows
    <3>2. m[i] \in 1..Len(moved) /\ refunds[i].amt = moved[m[i]].amt
      BY <3>1 DEF LedgerInv, Booked
    <3>3. moved[m[i]].of = c
      BY <2>1, <3>1 DEF LE!Misbooked
    <3>4. m[i] \in T
      BY <2>5, <3>2, <3>3 DEF OfRows
    <3> QED
      BY <2>6, <2>7, <3>1, <3>2, <3>4
  <2>10. m \in [S -> T] /\ \A i \in S : f[i] = g[m[i]]
    BY <2>8, <2>9
  <2>11. \A i, j \in S : m[i] = m[j] => i = j
    BY <2>6, <2>9 DEF LedgerInv, Booked
  <2>12. \A y \in T : g[y] \in Nat
    BY <2>7
  <2>13. SumFunctionOnSet(f, S) <= SumFunctionOnSet(g, T)
    BY <2>6, <2>7, <2>10, <2>11, <2>12, SumInjected
  <2>14. LE!TotalOf(moved, c) <= Price
    BY DEF LedgerInv, MovedBounded, Pays
  <2> QED
    BY <2>6, <2>7, <2>13, <2>14, LedgerAssumption
<1> QED
  BY <1>1, PartsHold, PTL

=============================================================================
