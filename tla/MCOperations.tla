---------------------------- MODULE MCOperations ----------------------------
(* Components that share no state with one another, for TLC: entitlement   *)
(* timelines, the mirror of the processor, refunds, chargebacks, the       *)
(* intake of webhooks and the event log.  A behaviour is one of the        *)
(* component that part names, the others stay as they are; an idle one     *)
(* begins in one way.                                                      *)
EXTENDS Entitlements, TLC

CONSTANTS sub1, pay1
CONSTANTS Plans, MaxAttempts, MaxMoves, MaxErrors
CONSTANTS Charges, OwnerOf, Price, Admins, MaxRefunds, MaxRefundFaults
CONSTANTS Payments, DayOf, MaxSlips
CONSTANTS Occurrences, MaxDeliveries, MaxCleanings
CONSTANTS Events, KindChoices, e1, e2, e3, MaxRecords, TrimTarget, FlushLimit, MaxLogFaults

VARIABLES part,
          proc, client, remote, row, op, inflight, sync, told, local, moves, errors,
          gateway, declined, charged, refunds, moved, admin, hook, ended, mishaps,
          booked, otherCard, batch, struck, spared, slips,
          accepted, queued, jobs, deliveries, cleanings,
          kind, call, order, file, stored, dead, trimmed, dropped, flush, faults

mirrorVars == <<proc, client, remote, row, op, inflight, sync, told, local, moves, errors>>
ledgerVars == <<gateway, declined, charged, refunds, moved, admin, hook, ended, mishaps>>
disputeVars == <<booked, otherCard, batch, struck, spared, slips>>
intakeVars == <<accepted, queued, jobs, deliveries, cleanings>>
logVars == <<kind, call, order, file, stored, dead, trimmed, dropped, flush, faults>>
allVars == <<part, vars, mirrorVars, ledgerVars, disputeVars, intakeVars, logVars>>

\* A subscription and a one-off payment.
TwoSources == {<<"subscription", sub1>>, <<"one_off", pay1>>}

\* Three charges, two of one subscription; the third is within a week of the second.
ThreeOwners == <<1, 1, 2>>
ThreeDays == <<0, 30, 32>>

\* The same identifier at two processors, and CCBill's events, which have none.
FiveOccurrences ==
    {[prov |-> p, id |-> "1", type |-> "t", body |-> "b"] : p \in {"mobius", "stripe"}} \cup
    {[prov |-> "ccbill", id |-> "", type |-> o[1], body |-> [form |-> o[2], text |-> o[3]]] :
        o \in {<<"t", TRUE, "b">>, <<"t", TRUE, "c">>, <<"u", FALSE, "b">>}}

\* All four kinds of event occur, payments twice.
TwoKindChoices ==
    {(e1 :> "subscription") @@ (e2 :> "payment") @@ (e3 :> "acu"),
     (e1 :> "payment") @@ (e2 :> "chargeback") @@ (e3 :> "payment")}

MI == INSTANCE Mirror
LE == INSTANCE Ledger WITH MaxFaults <- MaxRefundFaults
DI == INSTANCE Disputes
IK == INSTANCE Intake
EL == INSTANCE EventLog WITH MaxFaults <- MaxLogFaults

ASSUME PlansAssumption == Plans # {}
ASSUME LedgerAssumption == Price \in Nat /\ MaxRefunds \in Nat

\* Processors number their events, CCBill does not; two of its events differ in their type
\* or in what is left of the body.
ASSUME OccurrencesAssumption ==
    \A e, f \in Occurrences :
        /\ e.prov \in {"mobius", "stripe", "ccbill"}
        /\ e.prov = "ccbill" \/ e.id # ""
        /\ e.prov = f.prov /\ e.prov # "ccbill" /\ e.id = f.id => e = f
        /\ /\ e.prov = "ccbill" /\ f.prov = "ccbill" /\ e.type = f.type
           /\ IK!NormalizeCCBillPayload(e.body, "as sent") = IK!NormalizeCCBillPayload(f.body, "as sent")
           => e = f

\* The last charge may be a failed renewal; the ones before it went through.
LastMayFail == \A c \in declined, d \in Charges : d <= c

Parts == {"timelines", "mirror", "ledger", "disputes", "intake", "log"}

OperationsInit ==
    /\ part \in Parts
    /\ Init
    /\ MI!Init /\ (part # "mirror" => proc = "stripe")
    /\ LE!Init /\ (part # "ledger" => gateway = "stripe") /\ LastMayFail
    /\ DI!Init
    /\ IK!Init
    /\ EL!Init /\ (part # "log" => kind = CHOOSE k \in KindChoices : TRUE)

Timeline(A) == /\ part = "timelines" /\ A
               /\ UNCHANGED <<part, mirrorVars, ledgerVars, disputeVars, intakeVars, logVars>>
Mirror(A) == /\ part = "mirror" /\ A
             /\ UNCHANGED <<part, vars, ledgerVars, disputeVars, intakeVars, logVars>>
Ledger(A) == /\ part = "ledger" /\ A
             /\ UNCHANGED <<part, vars, mirrorVars, disputeVars, intakeVars, logVars>>
Disputes(A) == /\ part = "disputes" /\ A
               /\ UNCHANGED <<part, vars, mirrorVars, ledgerVars, intakeVars, logVars>>
Intake(A) == /\ part = "intake" /\ A
             /\ UNCHANGED <<part, vars, mirrorVars, ledgerVars, disputeVars, logVars>>
Log(A) == /\ part = "log" /\ A
          /\ UNCHANGED <<part, vars, mirrorVars, ledgerVars, disputeVars, intakeVars>>

OperationsNext == \/ Timeline(Next) \/ Mirror(MI!Next) \/ Ledger(LE!Next)
                  \/ Disputes(DI!Next) \/ Intake(IK!Next) \/ Log(EL!Next)

\* The fairness of the components, each on behaviours of its own.
Fairness ==
    /\ WF_allVars(Mirror(MI!CancelJob \/ MI!CancelJobCall \/ MI!CancelJobWrite))
    /\ WF_allVars(Mirror(MI!ResumeJob \/ MI!ResumeJobCall \/ MI!ResumeJobWrite))
    /\ \A e \in MI!Ends \cup MI!Receipts : WF_allVars(Mirror(MI!HandleEvent(e)))
    /\ \A t \in LE!Txns : WF_allVars(Ledger(LE!HookNext(t)))
    /\ \A c \in Charges : WF_allVars(Ledger(LE!RecordCharge(c)))
    /\ WF_allVars(Disputes(\E p \in Payments : DI!HandleEntry(p)))
    /\ \A e \in Events : WF_allVars(Log(EL!CallStep(e)))
    /\ WF_allVars(Log(EL!FlushStep))

OperationsSpec == OperationsInit /\ [][OperationsNext]_allVars /\ Fairness

-----------------------------------------------------------------------------

\* Mirror: a row is cancelled only after the processor has stopped or was asked to.
LocalCancelIsRemote == MI!LocalCancelIsRemote

\* Mirror: the end of a subscription at the processor cancels its row in the end.
EndIsMirrored == MI!EndIsMirrored

\* Mirror: a cancellation the API accepted reaches the processor.
CancelIsHonoured == MI!CancelIsHonoured

\* Ledger: no payment has more refunds booked than was paid.
RefundsWithinCharge == LE!RefundsWithinCharge

\* Ledger: a refund of the gateway is in the ledger in the end.
RefundIsRecorded == LE!RefundIsRecorded

\* Disputes: a chargeback that can be matched ends its subscription in the end.
DisputeEndsOwner == DI!DisputeEndsOwner

\* Intake: there are never two jobs of one event at a time.
OneJobPerEvent == IK!OneJobPerEvent

\* Intake: no event that was accepted was taken for another one.
AcceptedIsQueued == IK!AcceptedIsQueued

\* EventLog: a call that has returned leaves its event in ClickHouse, in the spool or in
\* the dead-letter directory, unless the disk or the capacity rule took it.
LoggedIsKept == EL!LoggedIsKept

\* EventLog: no file stays in the spool for ever once ClickHouse answers.
SpoolDrains == EL!SpoolDrains
=============================================================================
