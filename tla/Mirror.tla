------------------------------- MODULE Mirror -------------------------------
(***************************************************************************)
(* One subscription as its processor keeps it (remote) and as              *)
(* billing.subscriptions mirrors it (row), for Stripe, an NMI-backed       *)
(* gateway or CCBill.  What moves the two apart and together again: the    *)
(* user's cancel and resume requests, which are River jobs; the            *)
(* administrator's cancellation and the change of tier, which are HTTP     *)
(* requests; the webhooks, which arrive in any order; and the              *)
(* subscription-sync command.  Each of them reads the row, calls the       *)
(* processor, and then writes the row, mostly all columns of the one it    *)
(* has read.                                                               *)
(*                                                                         *)
(* The webhook handlers that act on CCBill's and NMI's events, the windows *)
(* and the payments are Lifecycle's; here an event only has its effect on  *)
(* the row.  Some of them cancel the row and leave the processor's         *)
(* subscription as it is.  The row keeps its status, cancel_type, and the  *)
(* plan (price and product).                                               *)
(***************************************************************************)
EXTENDS Naturals

CONSTANTS Plans,        \* prices of a tier group
          MaxAttempts,  \* attempts River gives a job
          MaxMoves,     \* bound: requests, and steps the processor takes by itself
          MaxErrors     \* bound: calls that fail

VARIABLES proc,      \* the processor
          client,    \* its client is configured, and the row has the processor's id
          remote,    \* the processor's subscription
          row,       \* the row
          op,        \* requests in progress, by kind
          inflight,  \* webhooks on their way
          sync,      \* what subscription-sync has been told by the processor
          told,      \* history: the processor has stopped, or was asked to
          local,     \* history: why rows were cancelled without asking the processor
          moves, errors

mirrorVars == <<proc, client, remote, row, op, inflight, sync, told, local, moves, errors>>

Ops == {"cancel", "resume", "admin", "tier"}
NoRow == [st |-> "none", type |-> "none", plan |-> CHOOSE p \in Plans : TRUE]
IdleOp == [at |-> "idle", snap |-> NoRow, n |-> 0]

Init == /\ proc \in {"stripe", "nmi", "ccbill"}
        /\ client \in (IF proc = "nmi" THEN BOOLEAN ELSE {TRUE})
        /\ remote = [st |-> "none", ends |-> FALSE, plan |-> NoRow.plan]
        /\ row = NoRow
        /\ op = [o \in Ops |-> IdleOp]
        /\ inflight = {}
        /\ sync = "idle"
        /\ told = FALSE /\ local = {}
        /\ moves = 0 /\ errors = 0

Move == moves < MaxMoves /\ moves' = moves + 1
Error == errors < MaxErrors /\ errors' = errors + 1

Event(type, st, plan) == [type |-> type, st |-> st, plan |-> plan]
Updated(r) == IF proc = "stripe" THEN {Event("updated", r.st, r.plan)} ELSE {}
Send(types, r) == inflight' = inflight \cup {Event(t, r.st, r.plan) : t \in types} \cup Updated(r)

-----------------------------------------------------------------------------
(* The processor.                                                          *)

Becomes(r, types) == /\ Move
                     /\ remote' = r
                     /\ Send(types, r)
                     /\ UNCHANGED <<proc, client, row, op, sync, local, errors>>

\* The first and every further charge that goes through.
RemoteCharge == /\ remote.st # "canceled" /\ ~remote.ends
                /\ Becomes([remote EXCEPT !.st = "active"], {"paid"})
                /\ UNCHANGED told

RemoteDecline == /\ remote.st = "active" /\ ~remote.ends
                 /\ Becomes([remote EXCEPT !.st = "past_due"], {"failed"})
                 /\ UNCHANGED told

\* The period of a subscription that was cancelled is over, the processor has given up
\* on it, or somebody has ended it at the processor.
RemoteEnd == /\ remote.st \in {"active", "past_due"}
             /\ Becomes([remote EXCEPT !.st = "canceled"], {"deleted"})
             /\ told' = TRUE

\* A charge is disputed, or most of it is refunded in the processor's pages; it goes on
\* charging.  Stripe's notices of these are not handled.
RemoteReverse == /\ remote.st # "none" /\ proc # "stripe"
                 /\ Becomes(remote, {"reversed"})
                 /\ UNCHANGED told

-----------------------------------------------------------------------------
(* Webhooks.                                                               *)

Activated(r) == [r EXCEPT !.st = "active", !.type = "none"]
Cancelled(r, type) == [r EXCEPT !.st = "cancelled", !.type = type]

\* chk_cancelled_has_type
Accepted(r) == r.st = "cancelled" => r.type # "none"

\* The event is handled; a handler that returns an error leaves it to the next attempt.
HandledFor(e, r, why) == /\ e \in inflight
                         /\ Accepted(r)
                         /\ row' = r
                         /\ local' = local \cup why
                         /\ inflight' = inflight \ {e}
                         /\ UNCHANGED <<proc, client, remote, op, sync, told, moves, errors>>
Handled(e, r) == HandledFor(e, r, {})

HandleInvoicePaid(e) ==
    /\ e.type = "paid"
    /\ Handled(e, IF row.st = "none" THEN [Activated(row) EXCEPT !.plan = e.plan]
                  ELSE Activated(row))

\* applyStripeSubscriptionStatus: cancel_type is neither set nor cleared.
ApplyStripeSubscriptionStatus(r, st) ==
    [r EXCEPT !.st = CASE st = "active" -> "active"
                       [] st = "past_due" -> "past_due"
                       [] st = "canceled" -> "cancelled"]

HandleSubscriptionUpdated(e) ==
    /\ e.type = "updated"
    /\ Handled(e, IF row.st = "none" THEN row
                  ELSE ApplyStripeSubscriptionStatus([row EXCEPT !.plan = e.plan], e.st))

\* The cancel_type an end has: CCBill's may also be an expiration.
EndTypes == CASE proc = "stripe" -> {"user"}
              [] proc = "nmi" -> {"merchant"}
              [] proc = "ccbill" -> {"merchant", "expired"}

\* Plausible bug: only an active row is cancelled.
HandleSubscriptionDeletedActive(e) ==
    /\ e.type = "deleted"
    /\ row.st # "none"
    /\ \E type \in EndTypes : Handled(e, IF row.st = "active" THEN Cancelled(row, type) ELSE row)

\* CancelMembership needs a row.  NMI's handler passes over a subscription it does not
\* know, and one that is cancelled already.
HandleSubscriptionDeleted(e) ==
    /\ e.type = "deleted"
    /\ \/ proc = "nmi" /\ row.st \in {"none", "cancelled"} /\ Handled(e, row)
       \/ /\ row.st # "none" /\ ~(proc = "nmi" /\ row.st = "cancelled")
          /\ \E type \in EndTypes : Handled(e, Cancelled(row, type))

\* FailMembership, for NMI: the last failure cancels the row, and with dunning_mode off
\* every failure does, which leaves cancel_type as it is.  Any failure may be the last.
FailMembership(e) ==
    \/ HandledFor(e, Cancelled(row, "expired"), {"dunning"})
    \/ HandledFor(e, [row EXCEPT !.st = "cancelled"], {"dunning"})

\* CCBill's handler needs a row.
HandleInvoicePaymentFailed(e) ==
    /\ e.type = "failed"
    /\ \/ row.st = "none" /\ proc # "ccbill" /\ Handled(e, row)
       \/ row.st # "none" /\ Handled(e, [row EXCEPT !.st = "past_due"])
       \/ row.st # "none" /\ proc = "nmi" /\ FailMembership(e)

\* A refund of 80 percent or more, or a chargeback, ends the membership here.  NMI's
\* handlers pass over an unknown subscription, and only log that the cancellation failed.
HandleReversal(e) ==
    /\ e.type = "reversed"
    /\ \/ proc = "nmi" /\ Handled(e, row)
       \/ /\ row.st # "none"
          /\ \E type \in {"merchant", "chargeback"} :
                HandledFor(e, Cancelled(row, type), {"reversal"})

HandleEvent(e) == \/ HandleInvoicePaid(e) \/ HandleInvoicePaymentFailed(e)
                  \/ HandleSubscriptionUpdated(e) \/ HandleSubscriptionDeleted(e)
                  \/ HandleReversal(e)

-----------------------------------------------------------------------------
(* Requests: read the row, call the processor, write the row.              *)

At(o, step) == op[o].at = step
Goto(o, step) == op' = [op EXCEPT ![o].at = step]

\* A job that fails is retried until its attempts are used up.
Again(o) == op' = [op EXCEPT ![o].n = @ + 1,
                             ![o].at = IF op[o].n + 1 < MaxAttempts THEN "queued" ELSE "discarded"]
\* A request that fails has failed.
GiveUp(o) == op' = [op EXCEPT ![o] = IdleOp]

Fails(o) == IF o \in {"cancel", "resume"} THEN Again(o) ELSE GiveUp(o)

Enqueue(o) == /\ Move
              /\ op' = [op EXCEPT ![o] = [IdleOp EXCEPT !.at = "queued"]]
              /\ UNCHANGED <<proc, client, remote, row, inflight, sync, told, local, errors>>

Read(o) == /\ op' = [op EXCEPT ![o].at = "remote", ![o].snap = row]
           /\ UNCHANGED <<proc, client, remote, row, inflight, sync, told, local, errors>>

\* The call reaches the processor, and its answer may be lost.
Call(o, r, types) ==
    /\ remote.st \in {"active", "past_due"}
    /\ remote' = r
    /\ Send(types, r)
    /\ told' = (told \/ r.ends \/ r.st = "canceled")
    /\ \/ Goto(o, "local") /\ UNCHANGED errors
       \/ Error /\ Fails(o)
    /\ UNCHANGED <<proc, client, row, sync, local, moves>>

\* It does not, or the processor refuses: it has ended the subscription.
CallFails(o) ==
    /\ \/ remote.st = "canceled" /\ UNCHANGED errors
       \/ Error
    /\ Fails(o)
    /\ UNCHANGED <<proc, client, remote, row, inflight, sync, told, local, moves>>

Write(o, r) ==
    /\ \/ /\ Accepted(r)
          /\ row' = r
          /\ op' = [op EXCEPT ![o] = IdleOp]
          /\ UNCHANGED errors
       \/ /\ Error /\ Fails(o)
          /\ UNCHANGED row
    /\ UNCHANGED <<proc, client, remote, inflight, sync, told, local, moves>>

\* Stripe ends a subscription at the end of its period; NMI deletes it.  Without a client
\* for NMI, or an id, the row is cancelled and nobody else is told.
StripeCancelSubscription == [remote EXCEPT !.ends = TRUE]
DeleteRecurringSubscription == [remote EXCEPT !.st = "canceled"]
CancelAtProcessor(o) ==
    \/ proc = "stripe" /\ Call(o, StripeCancelSubscription, {})
    \/ proc = "nmi" /\ client /\ Call(o, DeleteRecurringSubscription, {"deleted"})
    \/ client /\ CallFails(o)
    \/ /\ ~client /\ Goto(o, "local")
       /\ local' = local \cup {"unasked"}
       /\ UNCHANGED <<proc, client, remote, row, inflight, sync, told, moves, errors>>

\* Where a job is over: it has done its work, its attempts are used up, it took an error
\* for a subscription that is not there, or it has cancelled another subscription.
Over == {"idle", "discarded", "missed", "astray"}

\* The user asks for a cancellation; CCBill has its own pages for that.
RequestCancel == /\ op["cancel"].at \in Over
                 /\ row.st # "none" /\ proc # "ccbill"
                 /\ Enqueue("cancel")

\* Plausible bug: a row that is already cancelled is taken for done.
CancelJobUnlessCancelled ==
    /\ At("cancel", "queued")
    /\ \/ row.st # "cancelled" /\ Read("cancel")
       \/ /\ row.st = "cancelled" /\ GiveUp("cancel")
          /\ UNCHANGED <<proc, client, remote, row, inflight, sync, told, local, errors>>
    /\ UNCHANGED moves

\* An error of GetByID is taken for a subscription that is not there: the job is done.
Missed(o) == /\ Error /\ Goto(o, "missed")
             /\ UNCHANGED <<proc, client, remote, row, inflight, sync, told, local>>

\* CancelUserSubscription cancels the user's newest subscription that is active and whose
\* period is not over: it may be this one, another one, or none, which is an error.
GetActiveSubscription ==
    \/ row.st = "active" /\ Read("cancel")
    \/ /\ Goto("cancel", "astray") \/ Again("cancel")
       /\ UNCHANGED <<proc, client, remote, row, inflight, sync, told, local, errors>>

\* The job starts.
CancelJob == /\ At("cancel", "queued")
             /\ \/ Missed("cancel")
                \/ proc = "stripe" /\ Read("cancel")
                \/ proc = "nmi" /\ GetActiveSubscription
             /\ UNCHANGED moves

CancelJobCall == At("cancel", "remote") /\ CancelAtProcessor("cancel")

\* CancelMembership reads the row anew, CancelUserSubscription writes the one it has.
CancelJobWrite ==
    /\ At("cancel", "local")
    /\ Write("cancel", Cancelled(IF proc = "stripe" THEN row ELSE op["cancel"].snap, "user"))

\* Resuming is for Stripe's subscriptions that are cancelled here.
RequestResume == /\ op["resume"].at \in Over
                 /\ row.st = "cancelled" /\ proc = "stripe"
                 /\ Enqueue("resume")

ResumeJob == At("resume", "queued") /\ (Missed("resume") \/ Read("resume")) /\ UNCHANGED moves

StripeResumeSubscription == [remote EXCEPT !.ends = FALSE]
ResumeJobCall == /\ At("resume", "remote")
                 /\ \/ Call("resume", StripeResumeSubscription, {})
                    \/ CallFails("resume")

ResumeJobWrite == At("resume", "local") /\ Write("resume", Activated(op["resume"].snap))

\* Plausible bug: the row is cancelled first.
AdminCancelFirst == /\ At("admin", "idle")
                    /\ row.st = "active" /\ proc # "ccbill"
                    /\ Move
                    /\ row' = Cancelled(row, "merchant")
                    /\ op' = [op EXCEPT !["admin"].at = "remote", !["admin"].snap = row]
                    /\ UNCHANGED <<proc, client, remote, inflight, sync, told, local, errors>>

\* The administrator cancels an active subscription.
AdminCancel == /\ At("admin", "idle")
               /\ row.st = "active" /\ proc # "ccbill"
               /\ Move /\ Read("admin")

AdminCancelCall == At("admin", "remote") /\ CancelAtProcessor("admin")

AdminCancelWrite == At("admin", "local") /\ Write("admin", Cancelled(op["admin"].snap, "merchant"))

\* A tier change of Stripe, up or down, takes effect at once; the status is not looked at.
\* The snapshot gets the new plan and is written back as it is.
TierChange(p) == /\ At("tier", "idle")
                 /\ row.st # "none" /\ proc = "stripe" /\ p # row.plan
                 /\ Move
                 /\ op' = [op EXCEPT !["tier"].at = "remote",
                                     !["tier"].snap = [row EXCEPT !.plan = p]]
                 /\ UNCHANGED <<proc, client, remote, row, inflight, sync, told, local, errors>>

UpdateSubscriptionPrice == [remote EXCEPT !.plan = op["tier"].snap.plan]
TierChangeCall == /\ At("tier", "remote")
                  /\ \/ Call("tier", UpdateSubscriptionPrice, {})
                     \/ CallFails("tier")

TierChangeWrite == At("tier", "local") /\ Write("tier", op["tier"].snap)

-----------------------------------------------------------------------------
(* subscription-sync --apply --add-remote, for NMI and CCBill.             *)

\* NMI's report has the subscriptions that are not deleted, up to a number of pages.
FetchRemoteSubscriptions == IF remote.st \in {"active", "past_due"} THEN {"listed", "absent"}
                            ELSE {"absent"}

\* What the processor reports: is the subscription in it?  CCBill's report is complete.
SyncFetch == /\ sync = "idle" /\ proc # "stripe"
             /\ Move
             /\ sync' \in IF proc = "nmi" THEN FetchRemoteSubscriptions
                         ELSE IF remote.st \in {"active", "past_due"} THEN {"listed"} ELSE {"absent"}
             /\ UNCHANGED <<proc, client, remote, row, op, inflight, told, local, errors>>

\* An active row the report does not have is cancelled; a subscription CCBill reports
\* and that is not active here is added or renewed, without a charge.
SyncApply == /\ sync # "idle"
             /\ row' = CASE sync = "absent" /\ row.st = "active" -> Cancelled(row, "merchant")
                         [] sync = "listed" /\ row.st # "active" /\ proc = "ccbill" -> Activated(row)
                         [] OTHER -> row
             /\ local' = local \cup (IF sync = "absent" /\ row.st = "active" THEN {"report"} ELSE {})
             /\ sync' = "idle"
             /\ UNCHANGED <<proc, client, remote, op, inflight, told, moves, errors>>

-----------------------------------------------------------------------------

JobStep == CancelJob \/ CancelJobCall \/ CancelJobWrite \/ ResumeJob \/ ResumeJobCall \/ ResumeJobWrite

Next == \/ RemoteCharge \/ RemoteDecline \/ RemoteEnd \/ RemoteReverse
        \/ \E e \in inflight : HandleEvent(e)
        \/ RequestCancel \/ RequestResume \/ JobStep
        \/ AdminCancel \/ AdminCancelCall \/ AdminCancelWrite
        \/ (\E p \in Plans : TierChange(p)) \/ TierChangeCall \/ TierChangeWrite
        \/ SyncFetch \/ SyncApply

Ends == {Event("deleted", "canceled", p) : p \in Plans}
Receipts == {Event("paid", "active", p) : p \in Plans}

\* River runs a job that is queued, and the notices of a payment and of the end of a
\* subscription are handled in the end; the other ones may be late for ever.
Fairness == /\ WF_mirrorVars(CancelJob \/ CancelJobCall \/ CancelJobWrite)
            /\ WF_mirrorVars(ResumeJob \/ ResumeJobCall \/ ResumeJobWrite)
            /\ \A e \in Ends \cup Receipts : WF_mirrorVars(HandleEvent(e))

-----------------------------------------------------------------------------

\* What excuses a cancelled row of the given cancel_type when the processor was not told.
Excuses(type) == CASE type = "user" -> {"unasked"}
                   [] type = "merchant" -> {"unasked", "reversal", "report"}
                   [] type = "expired" -> {"dunning"}
                   [] type = "chargeback" -> {"reversal"}

\* A row does not say cancelled while the processor was never asked to stop and has not
\* stopped by itself, whoever wrote it and from however old a copy; unless one of the
\* places that cancel without asking has, and that place is one its cancel_type can have
\* come from.  A user's cancellation, above all, always was with the processor, except
\* where no client of it is configured.
LocalCancelIsRemote == row.st = "cancelled" => told \/ local \cap Excuses(row.type) # {}

\* When the processor ends a subscription its row is cancelled in the end, whatever the
\* row has become by then: the notice is not lost on a row that is past due, that a request
\* has just written back, or, but for NMI, that is not there yet.
EndIsMirrored == (inflight \cap Ends # {} /\ (proc = "nmi" => row.st # "none")) ~> (row.st = "cancelled")

\* A cancellation the API has accepted reaches the processor, whatever the row says by
\* then; unless its job is discarded after its last attempt, cannot read the row, or finds
\* another subscription of the user, or there is no client to ask with.
CancelIsHonoured ==
    (At("cancel", "queued") /\ client) ~>
        (remote.ends \/ remote.st = "canceled" \/ op["cancel"].at \in Over \ {"idle"})
=============================================================================
