------------------------------- MODULE Ledger -------------------------------
(***************************************************************************)
(* The payments ledger (billing.payments) and refunds.  An                 *)
(* administrator's refund asks the processor first and writes the ledger   *)
(* after; the processor's notice of the same refund writes it too, unless  *)
(* it is there already.                                                    *)
(*                                                                         *)
(* The charges are of subscriptions of an NMI-backed gateway or of Stripe, *)
(* which sends no notice of a refund that is handled.  All of them are of  *)
(* one price and numbered in the order of their dates; one that NMI has    *)
(* declined is put into the ledger as well, with its amount.  CCBill's     *)
(* refunds are made in its portal (Lifecycle has their handler).           *)
(***************************************************************************)
EXTENDS Naturals, Sequences, FiniteSetsExt, Functions

CONSTANTS Charges,     \* charges the processor has been asked for, numbers
          OwnerOf,     \* the subscription of each
          Price,       \* amount of each
          Admins,      \* refund requests that may be in progress at a time
          MaxRefunds,  \* bound: refunds the processor makes
          MaxFaults    \* bound: calls that fail, crashes

VARIABLES gateway,   \* the processor
          declined,  \* charges it has declined
          charged,   \* charges that are in the ledger
          refunds,   \* refunds that are, in the order they were inserted
          moved,     \* the processor's refunds; the number is the transaction id
          admin,     \* the administrators' requests
          hook,      \* notices of refunds, by transaction id
          ended,     \* subscriptions that a refund has ended
          mishaps

ledgerVars == <<gateway, declined, charged, refunds, moved, admin, hook, ended, mishaps>>

Txns == 1..MaxRefunds
IdleAdmin == [at |-> "idle", pay |-> 0, amt |-> 0, txn |-> 0]
NoHook == [at |-> "none", named |-> FALSE, pay |-> 0]

Init == /\ gateway \in {"nmi", "stripe"}
        /\ declined \in (IF gateway = "nmi" THEN SUBSET Charges ELSE {{}})
        /\ charged = {} /\ refunds = <<>> /\ moved = <<>>
        /\ admin = [w \in Admins |-> IdleAdmin]
        /\ hook = [t \in Txns |-> NoHook]
        /\ ended = {}
        /\ mishaps = 0

Fault == mishaps < MaxFaults /\ mishaps' = mishaps + 1
NoFault == UNCHANGED mishaps

\* The webhook of a sale, or of a failed one, puts its charge into the ledger.
RecordCharge(c) == /\ c \notin charged
                   /\ charged' = charged \cup {c}
                   /\ UNCHANGED <<gateway, declined, refunds, moved, admin, hook, ended, mishaps>>

-----------------------------------------------------------------------------
(* Refunds.                                                                *)

TotalOf(rows, c) == SumFunctionOnSet([i \in DOMAIN rows |-> rows[i].amt],
                                     {i \in DOMAIN rows : rows[i].of = c})
GetRefundTotalByPaymentID(c) == TotalOf(refunds, c)

\* The status of the charge is not looked at.
ValidateRefund(c, a) == a > 0 /\ GetRefundTotalByPaymentID(c) + a <= Price

GetByTransactionID(t) == {i \in DOMAIN refunds : refunds[i].txn = t}

\* Plausible bug: the index on (processor, transaction_id) is missing.
CreateUnchecked(t, c, a) == refunds' = Append(refunds, [txn |-> t, of |-> c, amt |-> a])

\* The index on (processor, transaction_id) lets no second row of a transaction in.
Create(t, c, a) == /\ GetByTransactionID(t) = {}
                   /\ refunds' = Append(refunds, [txn |-> t, of |-> c, amt |-> a])

\* The processor refunds no more than it has charged; it sends a notice, which may or may
\* not have the transaction that is refunded.
ProcessorRefund(c, a) ==
    /\ Len(moved) < MaxRefunds /\ c \notin declined
    /\ TotalOf(moved, c) + a <= Price
    /\ moved' = Append(moved, [of |-> c, amt |-> a])
    /\ IF gateway = "nmi"
       THEN \E named \in BOOLEAN :
              hook' = [hook EXCEPT ![Len(moved) + 1] = [at |-> "sent", named |-> named, pay |-> 0]]
       ELSE UNCHANGED hook

\* Somebody refunds a charge at the processor.
PortalRefund(c, a) == /\ ProcessorRefund(c, a)
                      /\ UNCHANGED <<gateway, declined, charged, refunds, admin, ended, mishaps>>

AdminStep == UNCHANGED <<gateway, declined, charged, ended>>
At(w, step) == admin[w].at = step
Leave(w) == admin' = [admin EXCEPT ![w] = IdleAdmin]

AdminRefund(w, c, a) ==
    /\ At(w, "idle") /\ c \in charged /\ ValidateRefund(c, a)
    /\ admin' = [admin EXCEPT ![w] = [at |-> "call", pay |-> c, amt |-> a, txn |-> 0]]
    /\ UNCHANGED <<refunds, moved, hook, mishaps>> /\ AdminStep

\* The call is refused, or does not get through.
AdminRefundFails(w) ==
    /\ At(w, "call") /\ Leave(w)
    /\ \/ Fault
       \/ /\ NoFault
          /\ admin[w].pay \in declined \/ TotalOf(moved, admin[w].pay) + admin[w].amt > Price
    /\ UNCHANGED <<refunds, moved, hook>> /\ AdminStep

\* It goes through, and its answer may be lost.
AdminRefundCall(w) ==
    /\ At(w, "call")
    /\ ProcessorRefund(admin[w].pay, admin[w].amt)
    /\ \/ NoFault /\ admin' = [admin EXCEPT ![w].at = "record", ![w].txn = Len(moved) + 1]
       \/ Fault /\ Leave(w)
    /\ UNCHANGED refunds /\ AdminStep

\* PaymentService.Refund validates once more; the check and the insert are two statements.
Refund(w) ==
    /\ At(w, "record")
    /\ \/ ValidateRefund(admin[w].pay, admin[w].amt) /\ admin' = [admin EXCEPT ![w].at = "create"]
       \/ ~ValidateRefund(admin[w].pay, admin[w].amt) /\ Leave(w)
    /\ UNCHANGED <<refunds, moved, hook, mishaps>> /\ AdminStep

\* "refund issued but failed to record" is all that comes of a failure here.
RefundCreate(w) ==
    /\ At(w, "create") /\ Leave(w)
    /\ \/ Create(admin[w].txn, admin[w].pay, admin[w].amt) /\ NoFault
       \/ GetByTransactionID(admin[w].txn) # {} /\ UNCHANGED <<refunds, mishaps>>
       \/ Fault /\ UNCHANGED refunds
    /\ UNCHANGED <<moved, hook>> /\ AdminStep

AdminCrash(w) == /\ admin[w].at \in {"record", "create"} /\ Leave(w) /\ Fault
                 /\ UNCHANGED <<refunds, moved, hook>> /\ AdminStep

-----------------------------------------------------------------------------
(* handleRefundSuccess.                                                    *)

HookStep == UNCHANGED <<gateway, declined, charged, moved, admin>>
HookAt(t, step) == hook[t].at = step
Goto(t, step) == hook' = [hook EXCEPT ![t].at = step]

GetLatestChargeBySubscriptionID(s) == LET of == {c \in charged : OwnerOf[c] = s}
                                      IN IF of = {} THEN {} ELSE {Max(of)}

Original(t) == IF hook[t].named /\ moved[t].of \in charged THEN {moved[t].of}
               ELSE GetLatestChargeBySubscriptionID(OwnerOf[moved[t].of])

\* Plausible bug: a notice is left to the request that has made the refund.
HandleRefundSuccessLater(t) ==
    /\ HookAt(t, "sent")
    /\ \/ (\E w \in Admins : admin[w].txn = t) /\ Goto(t, "end") /\ NoFault
       \/ \E c \in Original(t) :
             /\ GetByTransactionID(t) = {} /\ ValidateRefund(c, moved[t].amt)
             /\ hook' = [hook EXCEPT ![t].at = "create", ![t].pay = c]
             /\ NoFault
    /\ UNCHANGED <<refunds, ended>> /\ HookStep

\* A refund whose subscription cannot be read is passed over; one whose charge is not known
\* is not booked.  An amount the charge has not left is an error: the job is tried again.
HandleRefundSuccess(t) ==
    /\ HookAt(t, "sent")
    /\ \/ Goto(t, "passed") /\ Fault
       \/ GetByTransactionID(t) # {} /\ Goto(t, "end") /\ NoFault
       \/ GetByTransactionID(t) = {} /\ Original(t) = {} /\ Goto(t, "unbooked") /\ NoFault
       \/ \E c \in Original(t) :
             /\ GetByTransactionID(t) = {} /\ ValidateRefund(c, moved[t].amt)
             /\ hook' = [hook EXCEPT ![t].at = "create", ![t].pay = c]
             /\ NoFault
    /\ UNCHANGED <<refunds, ended>> /\ HookStep

HandleRefundCreate(t) ==
    /\ HookAt(t, "create")
    /\ \/ Create(t, hook[t].pay, moved[t].amt) /\ Goto(t, "end") /\ NoFault
       \/ GetByTransactionID(t) # {} /\ Goto(t, "sent") /\ UNCHANGED <<refunds, mishaps>>
       \/ Goto(t, "sent") /\ Fault /\ UNCHANGED refunds
    /\ UNCHANGED ended /\ HookStep

\* 80 percent of the price ends the subscription; a failure to do so is only logged.
ShouldTerminate(t) == (moved[t].amt * 100) \div Price >= 80
HandleRefundEnd(t) ==
    /\ \/ HookAt(t, "end") /\ Goto(t, "done")
       \/ HookAt(t, "unbooked") /\ Goto(t, "passed")
    /\ \/ ended' = ended \cup (IF ShouldTerminate(t) THEN {OwnerOf[moved[t].of]} ELSE {}) /\ NoFault
       \/ ShouldTerminate(t) /\ Fault /\ UNCHANGED ended
    /\ UNCHANGED refunds /\ HookStep

HookCrash(t) == /\ hook[t].at \in {"create", "end", "unbooked"} /\ Goto(t, "sent") /\ Fault
                /\ UNCHANGED <<refunds, ended>> /\ HookStep

-----------------------------------------------------------------------------

HookNext(t) == HandleRefundSuccess(t) \/ HandleRefundCreate(t) \/ HandleRefundEnd(t)
Amounts == 1..Price

Next == \/ \E c \in Charges : RecordCharge(c)
        \/ \E c \in Charges, a \in Amounts : \/ PortalRefund(c, a)
                                             \/ \E w \in Admins : AdminRefund(w, c, a)
        \/ \E w \in Admins : \/ AdminRefundFails(w) \/ AdminRefundCall(w)
                             \/ Refund(w) \/ RefundCreate(w) \/ AdminCrash(w)
        \/ \E t \in Txns : HookNext(t) \/ HookCrash(t)

\* River runs a webhook's job until it succeeds, the ones of the sales too.
Fairness == /\ \A t \in Txns : WF_ledgerVars(HookNext(t))
            /\ \A c \in Charges : WF_ledgerVars(RecordCharge(c))

-----------------------------------------------------------------------------

\* Refunds that are booked under another charge than the one the processor has refunded.
Misbooked(c) == \E i \in DOMAIN refunds : refunds[i].of = c /\ moved[refunds[i].txn].of # c

\* However the administrators' requests, their retries and the processor's notices of the
\* same refunds interleave, the ledger does not refund a payment twice over: it books no
\* more than was paid, unless a refund of another charge was put under it.
RefundsWithinCharge == \A c \in Charges : Misbooked(c) \/ GetRefundTotalByPaymentID(c) <= Price

\* A refund that the gateway has made and whose notice names the transaction is in the
\* ledger in the end, although the request that made it died or lost the answer, and
\* although the charge was not in the ledger yet; unless its notice was passed over because
\* the subscription could not be read or no charge of it is known, or the charge has no
\* amount left because another one's refund was booked under it.
RefundIsRecorded == \A t \in Txns :
    (HookAt(t, "sent") /\ hook[t].named) ~> \/ GetByTransactionID(t) # {}
                                            \/ HookAt(t, "passed")
                                            \/ t \in DOMAIN moved /\ Misbooked(moved[t].of)
=============================================================================
