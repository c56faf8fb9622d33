------------------------------ MODULE Checkout ------------------------------
(***************************************************************************)
(* POST /v1/checkout for card purchases (NMI) and for payments on Stripe's *)
(* hosted page or CCBill's form, with the payment methods they create and  *)
(* use: the sagas of CheckoutSessionService, CheckoutService,              *)
(* CheckoutNMISaleService and VaultService over the idempotency records,   *)
(* the processor and the database, and the webhooks that complete a        *)
(* payment made elsewhere.                                                 *)
(*                                                                         *)
(* One user.  An attempt is one request that got past its idempotency key; *)
(* its name also stands for the session, the vault entry, the transaction  *)
(* or recurring subscription and the rows the request creates.  Every call *)
(* of a service and every statement is a step; the idempotency records are *)
(* taken to be in Redis (Idempotency has the details), and may expire      *)
(* while their request runs: nothing bounds a call of the processor.       *)
(***************************************************************************)
EXTENDS Integers

CONSTANTS Attempts, Keys,
          Recurring,   \* prices of NMI subscriptions
          Sales,       \* prices of one-time NMI sales
          Hosted,      \* one-time prices paid on Stripe's page
          Forms,       \* prices of CCBill subscriptions, bought on its form
          Lasting,     \* one-time prices whose access has no end
          None,
          MaxFaults    \* bound on crashes, timeouts and failed statements

Elsewhere == Hosted \cup Forms
Prices == Recurring \cup Sales \cup Elsewhere

ASSUME CheckoutAssumption ==
    /\ None \notin Attempts \cup Keys \cup Prices
    /\ Recurring \cap Sales = {} /\ Elsewhere \cap (Recurring \cup Sales) = {}
    /\ Hosted \cap Forms = {}
    /\ Lasting \subseteq Sales \cup Hosted
    /\ MaxFaults \in Nat

VARIABLES att,        \* the requests
          session,    \* rows of billing.checkout_sessions, by status
          outer,      \* idempotency records of checkout_session, by client key
          inner,      \* those of nmi_sale and nmi_subscription without a client key
          vault,      \* customer vault entries at NMI
          methods,    \* rows of billing.payment_methods
          del,        \* DeleteVault in progress, by payment method
          remote,     \* what processors carried out: recurring subscriptions, charges
          row,        \* rows of billing.subscriptions, by status
          payments,   \* rows of billing.payments
          granted,    \* payments whose entitlements were pushed
          credited,   \* hosted payments whose credits were deposited
          dropping,   \* payment methods DeletePaymentMethod has found unused
          copies,     \* what readers of a session will write back as its status
          hook,       \* the handlers of checkout.session.completed and NewSaleSuccess
          pick,       \* the session such a handler marks
          marred,     \* history: a step after which nobody cleans up has failed
          dropped,    \* history: rows DeletePaymentMethod deleted
          undone,     \* history: sessions that had succeeded when a copy was written
          faults

books == <<row, payments, granted, credited>>
drops == <<dropping, dropped>>
cards == <<vault, methods, del, drops>>
reads == <<copies, undone>>
hooks == <<hook, pick>>
records == <<outer, inner>>
vars == <<att, session, records, cards, remote, books, reads, hooks, marred, faults>>

Outcome == {"success", "failed", "redirect"}
Steps == {"check", "begin", "vault", "method", "call", "cleanup", "save", "grant",
          "settle", "close", "done"}
\* Card is the attempt whose payment method is used: its own if it came with a
\* payment token.  Price is None for a request that only adds a card.  Txn is
\* the attempt whose transaction the request reports, and that is saved with
\* a session that succeeds.
Attempt == [pc: Steps, key: Keys \cup {None}, price: Prices \cup {None},
            card: Attempts \cup {None}, txn: Attempts \cup {None}, out: Outcome]
\* By: the attempt that wrote the record last.
IdempotencyRecord == [st: {"pending", "success", "failed"}, by: Attempts]
Status == {"created", "requires_action", "succeeded", "failed", "expired"}
RowStatus == {"pending", "active", "cancelled"}
HookStep == {"no", "grant", "form", "mark", "write", "credit"}
ASSUME NoneIsNothing == None \notin Attempt \cup IdempotencyRecord \cup Status \cup RowStatus

TypeOK ==
    /\ att \in [Attempts -> Attempt \cup {None}]
    /\ session \in [Attempts -> Status \cup {None}]
    /\ outer \in [Keys -> IdempotencyRecord \cup {None}]
    /\ inner \in [Prices -> IdempotencyRecord \cup {None}]
    /\ vault \subseteq Attempts /\ methods \subseteq Attempts
    /\ del \in [Attempts -> {"no", "remote", "local"}]
    /\ remote \subseteq Attempts
    /\ row \in [Attempts -> RowStatus \cup {None}]
    /\ payments \subseteq Attempts /\ granted \subseteq payments /\ credited \subseteq payments
    /\ dropping \subseteq Attempts /\ dropped \subseteq Attempts
    /\ copies \in [Attempts -> SUBSET {"expired", "failed"}] /\ undone \subseteq Attempts
    /\ hook \in [Attempts -> HookStep] /\ pick \in [Attempts -> Attempts]
    /\ marred \subseteq Attempts
    /\ faults \in 0..MaxFaults

Init ==
    /\ att = [a \in Attempts |-> None] /\ session = [a \in Attempts |-> None]
    /\ outer = [k \in Keys |-> None] /\ inner = [p \in Prices |-> None]
    /\ vault = {} /\ methods = {} /\ del = [a \in Attempts |-> "no"]
    /\ remote = {}
    /\ row = [a \in Attempts |-> None] /\ payments = {} /\ granted = {} /\ credited = {}
    /\ dropping = {} /\ dropped = {}
    /\ copies = [a \in Attempts |-> {}] /\ undone = {}
    /\ hook = [a \in Attempts |-> "no"] /\ pick = [a \in Attempts |-> a]
    /\ marred = {} /\ faults = 0

At(a, pc) == att[a] # None /\ att[a].pc = pc
Goto(a, pc) == att' = [att EXCEPT ![a].pc = pc]
Ends(a, pc, out) == att' = [att EXCEPT ![a].pc = pc, ![a].out = out]
Fault == faults < MaxFaults /\ faults' = faults + 1
Of(p) == {a \in Attempts : att[a] # None /\ att[a].price = p}

----------------------------------------------------------------------------
(* Requests.                                                               *)

\* Begin of an idempotency record that is not there; Complete and Fail, which
\* write the record whatever has become of it.
Claimed(a) == [st |-> "pending", by |-> a]
Recorded(a, st) == [st |-> st, by |-> a]

\* validatePayment: NMI takes a token or a payment method of the user, the
\* others only fields of a form.
ValidPayment(a, p, c) == IF p \in Elsewhere THEN c = None ELSE c = a \/ c \in methods

\* A request whose key has a record is answered from it and ends there.
CreateSession(a, k, p, c) ==
    /\ att[a] = None
    /\ k # None => outer[k] = None
    /\ ValidPayment(a, p, c)
    /\ att' = [att EXCEPT ![a] = [pc |-> "check", key |-> k, price |-> p, card |-> c,
                                  txn |-> None, out |-> "failed"]]
    /\ session' = [session EXCEPT ![a] = "created"]
    /\ outer' = IF k = None THEN outer ELSE [outer EXCEPT ![k] = Claimed(a)]
    /\ UNCHANGED <<inner, cards, remote, books, reads, hooks, marred, faults>>

\* POST /v1/me/payment-methods.
AddPaymentMethod(a) ==
    /\ att[a] = None
    /\ att' = [att EXCEPT ![a] = [pc |-> "vault", key |-> None, price |-> None, card |-> a,
                                  txn |-> None, out |-> "failed"]]
    /\ UNCHANGED <<session, records, cards, remote, books, reads, hooks, marred, faults>>

\* GetUserProductCoverage: a pending row has no period and counts as access
\* without an end.  Access that ends only delays the start, which CCBill
\* cannot do.
Blocked(p) ==
    \/ \E b \in Of(p) : row[b] = "pending" \/ (p \in Forms /\ row[b] = "active")
    \/ p \in Lasting /\ Of(p) \cap granted # {}

\* Checkout refuses what the user already has.
CheckEligibility(a) ==
    /\ At(a, "check") /\ Blocked(att[a].price)
    /\ Ends(a, "close", "failed")
    /\ UNCHANGED <<session, records, cards, remote, books, reads, hooks, marred, faults>>

\* processCCBillSubscription, processStripePayment: the user is sent to the
\* form or the page.
ProcessCCBillSubscription(a) == att[a].price \in Forms /\ Ends(a, "close", "redirect")
ProcessStripePayment(a) == att[a].price \in Hosted /\ Ends(a, "close", "redirect")

\* A session with a client key has an inner key of its own, which nobody else
\* claims; the other sessions share one per user and price.
ClaimInner(a) == Goto(a, IF att[a].key = None THEN "begin" ELSE "vault")

ProcessNMISale(a) == att[a].price \in Sales /\ ClaimInner(a)

ProcessSubscription(a) ==
    \/ ProcessCCBillSubscription(a)
    \/ att[a].price \in Recurring /\ ClaimInner(a)

ProcessOneTimePurchase(a) == ProcessStripePayment(a) \/ ProcessNMISale(a)

Proceed(a) ==
    /\ At(a, "check") /\ ~Blocked(att[a].price)
    /\ ProcessSubscription(a) \/ ProcessOneTimePurchase(a)
    /\ UNCHANGED <<session, records, cards, remote, books, reads, hooks, marred, faults>>

\* The request answers what the record holds.
Replays(a, rec) ==
    att' = [att EXCEPT ![a].pc = "close", ![a].out = "success", ![a].txn = rec.by]

\* Mistake: a request in progress is taken for a success.
BeginReplayingPending(a) ==
    LET p == att[a].price
        rec == inner[p]
    IN  /\ At(a, "begin")
        /\ IF rec = None
           THEN inner' = [inner EXCEPT ![p] = Claimed(a)] /\ Goto(a, "vault")
           ELSE Replays(a, rec) /\ UNCHANGED inner
        /\ UNCHANGED <<session, outer, cards, remote, books, reads, hooks, marred, faults>>

\* Begin under the generated key of the user and the price.
Begin(a) ==
    LET p == att[a].price
        rec == inner[p]
    IN  /\ At(a, "begin")
        /\ CASE rec = None -> inner' = [inner EXCEPT ![p] = Claimed(a)] /\ Goto(a, "vault")
             [] rec # None /\ rec.st = "success" -> Replays(a, rec) /\ UNCHANGED inner
             [] OTHER -> Ends(a, "close", "failed") /\ UNCHANGED inner
        /\ UNCHANGED <<session, outer, cards, remote, books, reads, hooks, marred, faults>>

----------------------------------------------------------------------------
(* ResolveVault.                                                           *)

\* The request is over, or goes on to charge the card.
AfterVault(a) == IF att[a].price = None THEN Ends(a, "done", "success") ELSE Goto(a, "call")
GiveUp(a) == Ends(a, IF att[a].price = None THEN "done" ELSE "settle", "failed")

\* A payment method that is gone by now fails the request.
UseMethod(a) ==
    /\ At(a, "vault") /\ att[a].card # a
    /\ IF att[a].card \in methods THEN Goto(a, "call") ELSE GiveUp(a)
    /\ UNCHANGED <<session, records, cards, remote, books, reads, hooks, marred, faults>>

CreateVault(a) ==
    /\ At(a, "vault") /\ att[a].card = a
    /\ vault' = vault \cup {a}
    /\ Goto(a, "method")
    /\ UNCHANGED <<session, records, methods, del, drops, remote, books, reads, hooks, marred, faults>>

\* The processor refuses the card.
CreateVaultFails(a) ==
    /\ At(a, "vault") /\ att[a].card = a
    /\ GiveUp(a)
    /\ UNCHANGED <<session, records, cards, remote, books, reads, hooks, marred, faults>>

StoreMethod(a) ==
    /\ At(a, "method")
    /\ methods' = methods \cup {a}
    /\ AfterVault(a)
    /\ UNCHANGED <<session, records, vault, del, drops, remote, books, reads, hooks, marred, faults>>

\* Mistake: the entry at the processor is left behind.
StoreMethodFailsUncompensated(a) ==
    /\ At(a, "method") /\ Fault
    /\ GiveUp(a)
    /\ UNCHANGED <<session, records, cards, remote, books, reads, hooks, marred>>

\* The insert fails and the entry is deleted again.
StoreMethodFails(a) ==
    /\ At(a, "method") /\ Fault
    /\ vault' = vault \ {a}
    /\ GiveUp(a)
    /\ UNCHANGED <<session, records, methods, del, drops, remote, books, reads, hooks, marred>>

\* The error of that deletion is dropped.
CompensationFails(a) ==
    /\ At(a, "method") /\ Fault
    /\ marred' = marred \cup {a}
    /\ GiveUp(a)
    /\ UNCHANGED <<session, records, cards, remote, books, reads, hooks>>

----------------------------------------------------------------------------
(* DELETE /v1/me/payment-methods/:id deletes the row, and leaves the entry *)
(* at NMI.  VaultService.DeleteVault deletes at NMI, then the row.         *)

Uses(b, statuses) == b \in methods /\ \E a \in Attempts : row[a] \in statuses /\ att[a].card = b

\* (A row that is past due counts as active here.)
DeletePaymentMethod(b) ==
    /\ b \in methods /\ b \notin dropping /\ ~Uses(b, {"active", "pending"})
    /\ dropping' = dropping \cup {b}
    /\ UNCHANGED <<att, session, records, vault, methods, del, dropped, remote, books, reads, hooks, marred, faults>>

DropMethod(b) ==
    /\ b \in dropping
    /\ dropping' = dropping \ {b}
    /\ methods' = methods \ {b}
    /\ dropped' = IF b \in methods THEN dropped \cup {b} ELSE dropped
    /\ UNCHANGED <<att, session, records, vault, del, remote, books, reads, hooks, marred, faults>>

\* Rows that are pending are not looked at.
InUse(b) == Uses(b, {"active"})

DeleteVault(b) ==
    /\ b \in methods /\ del[b] = "no" /\ ~InUse(b)
    /\ del' = [del EXCEPT ![b] = "remote"]
    /\ UNCHANGED <<att, session, records, vault, methods, drops, remote, books, reads, hooks, marred, faults>>

\* NMI refuses the deletion of an entry that is gone: nothing happens then.
DeleteCustomerVault(b) ==
    /\ del[b] = "remote"
    /\ vault' = vault \ {b}
    /\ del' = [del EXCEPT ![b] = IF b \in vault THEN "local" ELSE "no"]
    /\ UNCHANGED <<att, session, records, methods, drops, remote, books, reads, hooks, marred, faults>>

DeleteMethod(b) ==
    /\ del[b] = "local"
    /\ methods' = methods \ {b}
    /\ del' = [del EXCEPT ![b] = "no"]
    /\ UNCHANGED <<att, session, records, vault, drops, remote, books, reads, hooks, marred, faults>>

\* A failed call or a crash leaves it at that.
DeleteFails(b) ==
    /\ del[b] # "no" /\ Fault
    /\ del' = [del EXCEPT ![b] = "no"]
    /\ marred' = IF del[b] = "local" THEN marred \cup {b} ELSE marred
    /\ UNCHANGED <<att, session, records, vault, methods, drops, remote, books, reads, hooks>>

----------------------------------------------------------------------------
(* The processor and the books.                                            *)

\* The gateway bills a card of its vault: a subscription, or once.
AddRecurringSubscription(a) ==
    att[a].price \in Recurring /\ att[a].card \in vault /\ remote' = remote \cup {a}
RunSale(a) ==
    att[a].price \in Sales /\ att[a].card \in vault /\ remote' = remote \cup {a}

Call(a) ==
    /\ At(a, "call")
    /\ AddRecurringSubscription(a) \/ RunSale(a)
    /\ att' = [att EXCEPT ![a].pc = "save", ![a].txn = a]
    /\ UNCHANGED <<session, records, cards, books, reads, hooks, marred, faults>>

\* A card the request brought along is deleted again.
Cleanup(a) ==
    IF att[a].card = a
    THEN /\ Goto(a, "cleanup")
         /\ del' = IF del[a] = "no" /\ a \in methods /\ ~InUse(a)
                   THEN [del EXCEPT ![a] = "remote"] ELSE del
    ELSE GiveUp(a) /\ UNCHANGED del

\* Declined.
CallFails(a) ==
    /\ At(a, "call")
    /\ Cleanup(a)
    /\ UNCHANGED <<session, records, vault, methods, drops, remote, books, reads, hooks, marred, faults>>

\* Carried out, and the answer is lost.
CallTimesOut(a) ==
    /\ At(a, "call") /\ Fault
    /\ AddRecurringSubscription(a) \/ RunSale(a)
    /\ Cleanup(a)
    /\ UNCHANGED <<session, records, vault, methods, drops, books, reads, hooks, marred>>

CleanupDone(a) ==
    /\ At(a, "cleanup") /\ del[a] = "no"
    /\ GiveUp(a)
    /\ UNCHANGED <<session, records, cards, remote, books, reads, hooks, marred, faults>>

\* idx_subscriptions_user_product_active_pending.  The insert also fails if
\* the payment method it refers to is gone.
Open(p) == \E b \in Of(p) : row[b] \in {"pending", "active"}

InsertRow(a) ==
    LET p == att[a].price IN
    /\ At(a, "save") /\ p \in Recurring
    /\ IF Open(p) \/ att[a].card \notin methods THEN GiveUp(a) /\ UNCHANGED row
       ELSE /\ row' = [row EXCEPT ![a] = "pending"]
            /\ Ends(a, "settle", "success")
    /\ UNCHANGED <<session, records, cards, remote, payments, granted, credited, reads, hooks, marred, faults>>

RegisterPurchase(a) ==
    /\ At(a, "save") /\ att[a].price \in Sales
    /\ payments' = payments \cup {a}
    /\ Goto(a, "grant")
    /\ UNCHANGED <<session, records, cards, remote, row, granted, credited, reads, hooks, marred, faults>>

SaveFails(a) ==
    /\ At(a, "save") /\ Fault
    /\ GiveUp(a)
    /\ UNCHANGED <<session, records, cards, remote, books, reads, hooks, marred>>

Grant(a) ==
    /\ At(a, "grant")
    /\ granted' = granted \cup {a}
    /\ Ends(a, "settle", "success")
    /\ UNCHANGED <<session, records, cards, remote, row, payments, credited, reads, hooks, marred, faults>>

\* Only logged.
GrantFails(a) ==
    /\ At(a, "grant") /\ Fault
    /\ Ends(a, "settle", "success")
    /\ UNCHANGED <<session, records, cards, remote, books, reads, hooks, marred>>

\* Complete or Fail of the inner record.
Settle(a) ==
    LET p == att[a].price IN
    /\ At(a, "settle")
    /\ inner' = IF att[a].key = None THEN [inner EXCEPT ![p] = Recorded(a, att[a].out)] ELSE inner
    /\ Goto(a, "close")
    /\ UNCHANGED <<session, outer, cards, remote, books, reads, hooks, marred, faults>>

\* applyCheckoutResponse.
StatusOf(out) ==
    CASE out = "success" -> "succeeded" [] out = "redirect" -> "requires_action" [] OTHER -> "failed"

\* checkout_sessions_processor_transaction_id_idx: one session per transaction.
Taken(a) ==
    att[a].txn # None /\ att[a].out = "success"
    /\ \E b \in Attempts \ {a} : session[b] = "succeeded" /\ att[b].txn = att[a].txn

Answer(a, st) ==
    outer' = IF att[a].key = None THEN outer ELSE [outer EXCEPT ![att[a].key] = Recorded(a, st)]

\* The session is saved and the request answered, under its key if it has one.
Close(a) ==
    /\ At(a, "close")
    /\ session' = IF Taken(a) THEN session ELSE [session EXCEPT ![a] = StatusOf(att[a].out)]
    /\ Answer(a, IF att[a].out = "failed" \/ Taken(a) THEN "failed" ELSE "success")
    /\ Goto(a, "done")
    /\ UNCHANGED <<inner, cards, remote, books, reads, hooks, marred, faults>>

CloseFails(a) ==
    /\ At(a, "close") /\ Fault
    /\ Answer(a, "failed")
    /\ Ends(a, "done", "failed")
    /\ UNCHANGED <<session, inner, cards, remote, books, reads, hooks, marred>>

\* The process dies with the request.
Crash(a) ==
    /\ att[a] # None /\ att[a].pc # "done" /\ Fault
    /\ Ends(a, "done", "failed")
    /\ marred' = IF At(a, "method") THEN marred \cup {a} ELSE marred
    /\ UNCHANGED <<session, records, cards, remote, books, reads, hooks>>

\* The TTL of a record is five minutes, two and a half after a failure.
ExpireOuter(k) ==
    /\ outer[k] # None
    /\ outer' = [outer EXCEPT ![k] = None]
    /\ UNCHANGED <<att, session, inner, cards, remote, books, reads, hooks, marred, faults>>

ExpireInner(p) ==
    /\ inner[p] # None
    /\ inner' = [inner EXCEPT ![p] = None]
    /\ UNCHANGED <<att, session, outer, cards, remote, books, reads, hooks, marred, faults>>

\* What Lifecycle does with the row: the first charge, the end.
Activate(a) ==
    /\ row[a] = "pending" /\ a \in remote
    /\ row' = [row EXCEPT ![a] = "active"]
    /\ UNCHANGED <<att, session, records, cards, remote, payments, granted, credited, reads, hooks, marred, faults>>

Cancel(a) ==
    /\ row[a] \in {"pending", "active"}
    /\ row' = [row EXCEPT ![a] = "cancelled"]
    /\ UNCHANGED <<att, session, records, cards, remote, payments, granted, credited, reads, hooks, marred, faults>>

----------------------------------------------------------------------------
(* Stripe's page and CCBill's form.                                        *)

HostedPays(a) ==
    /\ At(a, "done") /\ att[a].price \in Elsewhere /\ att[a].out = "redirect"
    /\ a \notin remote
    /\ remote' = remote \cup {a}
    /\ UNCHANGED <<att, session, records, cards, books, reads, hooks, marred, faults>>

\* A session is read, and later written back with all its columns.
NotTerminal(a) == session[a] \in {"created", "requires_action"}

ReadAs(a, st) == copies' = [copies EXCEPT ![a] = @ \cup {st}]

\* GetSession of a session past expires_at.
GetSession(a) ==
    /\ NotTerminal(a)
    /\ ReadAs(a, "expired")
    /\ UNCHANGED <<att, session, records, cards, remote, books, undone, hooks, marred, faults>>

WriteBack(a, st) ==
    /\ st \in copies[a]
    /\ copies' = [copies EXCEPT ![a] = @ \ {st}]
    /\ session' = [session EXCEPT ![a] = st]
    /\ undone' = IF session[a] = "succeeded" THEN undone \cup {a} ELSE undone
    /\ UNCHANGED <<att, records, cards, remote, books, hooks, marred, faults>>

\* checkout.session.expired, MarkExpired: the page was never paid.
HandleExpired(a) ==
    /\ At(a, "done") /\ att[a].price \in Hosted /\ att[a].out = "redirect" /\ a \notin remote
    /\ att' = [att EXCEPT ![a].out = "failed"]
    /\ IF NotTerminal(a) THEN ReadAs(a, "expired") ELSE UNCHANGED copies
    /\ UNCHANGED <<session, records, cards, remote, books, undone, hooks, marred, faults>>

\* checkout.session.completed.  A delivery that finds the payment recorded
\* ends with an error.
HandleCompleted(a) ==
    /\ a \in remote /\ att[a].price \in Hosted /\ a \notin payments
    /\ payments' = payments \cup {a}
    /\ hook' = [hook EXCEPT ![a] = "grant"]
    /\ UNCHANGED <<att, session, records, cards, remote, row, granted, credited, reads, pick, marred, faults>>

HookGrant(a) ==
    /\ hook[a] = "grant"
    /\ granted' = granted \cup {a}
    /\ hook' = [hook EXCEPT ![a] = "mark"]
    /\ UNCHANGED <<att, session, records, cards, remote, row, payments, credited, reads, pick, marred, faults>>

\* What comes after MarkSucceeded: the credits of a hosted payment.
AfterMark(a) == IF att[a].price \in Hosted THEN "credit" ELSE "no"

\* Mistake: an expired session is not reopened.
HookReadUnexpired(a) ==
    /\ hook[a] = "mark"
    /\ hook' = [hook EXCEPT ![a] =
                  IF session[pick[a]] \in {"succeeded", "failed", "expired"} THEN AfterMark(a) ELSE "write"]
    /\ UNCHANGED <<att, session, records, cards, remote, books, reads, pick, marred, faults>>

\* MarkSucceeded, MarkSucceededWithSubscription: a session that expired in the
\* meantime succeeds as well.
HookRead(a) ==
    /\ hook[a] = "mark"
    /\ hook' = [hook EXCEPT ![a] =
                  IF session[pick[a]] \in {"succeeded", "failed"} THEN AfterMark(a) ELSE "write"]
    /\ UNCHANGED <<att, session, records, cards, remote, books, reads, pick, marred, faults>>

HookWrite(a) ==
    /\ hook[a] = "write"
    /\ session' = [session EXCEPT ![pick[a]] = "succeeded"]
    /\ att' = [att EXCEPT ![pick[a]].txn = a]
    /\ hook' = [hook EXCEPT ![a] = AfterMark(a)]
    /\ UNCHANGED <<records, cards, remote, books, reads, pick, marred, faults>>

HookCredit(a) ==
    /\ hook[a] = "credit"
    /\ credited' = credited \cup {a}
    /\ hook' = [hook EXCEPT ![a] = "no"]
    /\ UNCHANGED <<att, session, records, cards, remote, row, payments, granted, reads, pick, marred, faults>>

\* CCBill's NewSaleSuccess names the user and the price, not the session.
\* CreateMembership refuses a price that is active, and takes over the row an
\* earlier purchase of the price has left, with the access it had.
HandleNewSaleSuccess(a) ==
    LET p == att[a].price
        left == {b \in Of(p) : row[b] # None}
    IN  /\ a \in remote /\ p \in Forms /\ a \notin payments
        /\ \A b \in left : row[b] # "active"
        /\ row' = [b \in Attempts |-> IF b = a THEN "active" ELSE IF b \in left THEN None ELSE row[b]]
        /\ payments' = payments \cup {a}
        /\ granted' = IF left = {} THEN granted \cup {a} ELSE granted
        /\ hook' = [hook EXCEPT ![a] = "form"]
        /\ UNCHANGED <<att, session, records, cards, remote, credited, reads, pick, marred, faults>>

\* FindOpenByUserPriceProcessor takes the latest session that is open: any of
\* them may be.
OpenSessions(p) == {b \in Of(p) : NotTerminal(b)}

HookSession(a) ==
    /\ hook[a] = "form"
    /\ IF OpenSessions(att[a].price) = {}
       THEN hook' = [hook EXCEPT ![a] = "no"] /\ UNCHANGED pick
       ELSE /\ hook' = [hook EXCEPT ![a] = "mark"]
            /\ \E b \in OpenSessions(att[a].price) : pick' = [pick EXCEPT ![a] = b]
    /\ UNCHANGED <<att, session, records, cards, remote, books, reads, marred, faults>>

\* NewSaleFailure: the card was declined on the form, which the user may try
\* again.  MarkFailed of a session that is open.
HandleNewSaleFailure(a) ==
    /\ At(a, "done") /\ att[a].price \in Forms /\ att[a].out = "redirect" /\ a \notin remote
    /\ \E b \in OpenSessions(att[a].price) : ReadAs(b, "failed")
    /\ UNCHANGED <<att, session, records, cards, remote, books, undone, hooks, marred, faults>>

\* An error or a crash after the payment is recorded: a failed grant or update
\* of the session is logged, the rest ends the handler.
HookFails(a) ==
    /\ hook[a] # "no" /\ Fault
    /\ \E next \in {"no"} \cup (CASE hook[a] = "grant" -> {"mark"}
                                  [] hook[a] \in {"mark", "write"} -> {AfterMark(a)}
                                  [] OTHER -> {}) :
          hook' = [hook EXCEPT ![a] = next]
    /\ marred' = marred \cup {a}
    /\ UNCHANGED <<att, session, records, cards, remote, books, reads, pick>>

----------------------------------------------------------------------------
Request(a) ==
    \/ CheckEligibility(a) \/ Proceed(a) \/ Begin(a)
    \/ UseMethod(a) \/ CreateVault(a) \/ CreateVaultFails(a) \/ StoreMethod(a)
    \/ Call(a) \/ CallFails(a) \/ CleanupDone(a)
    \/ InsertRow(a) \/ RegisterPurchase(a) \/ Grant(a)
    \/ Settle(a) \/ Close(a)

RequestFaults(a) ==
    \/ StoreMethodFails(a) \/ CompensationFails(a) \/ CallTimesOut(a)
    \/ SaveFails(a) \/ GrantFails(a) \/ CloseFails(a) \/ Crash(a)

Hook(a) ==
    \/ HandleCompleted(a) \/ HookGrant(a) \/ HandleNewSaleSuccess(a) \/ HookSession(a)
    \/ HookRead(a) \/ HookWrite(a) \/ HookCredit(a)

Next ==
    \E a \in Attempts :
       \/ \E k \in Keys \cup {None}, p \in Prices, c \in Attempts \cup {None} :
             CreateSession(a, k, p, c)
       \/ AddPaymentMethod(a)
       \/ Request(a) \/ RequestFaults(a)
       \/ DeletePaymentMethod(a) \/ DropMethod(a)
       \/ DeleteVault(a) \/ DeleteCustomerVault(a) \/ DeleteMethod(a) \/ DeleteFails(a)
       \/ Activate(a) \/ Cancel(a)
       \/ HostedPays(a) \/ GetSession(a)
       \/ \E st \in {"expired", "failed"} : WriteBack(a, st)
       \/ HandleExpired(a) \/ HandleNewSaleFailure(a)
       \/ Hook(a) \/ HookFails(a)
       \/ \E k \in Keys : ExpireOuter(k)
       \/ \E p \in Prices : ExpireInner(p)

\* The event of a paid session is delivered until its handler has run (Webhooks).
Spec == Init /\ [][Next]_vars /\ \A a \in Attempts : WF_vars(Hook(a))

----------------------------------------------------------------------------
\* A session succeeds only when there is something to show for it: its
\* subscription row or payment, its own or the one of the request it repeats,
\* whatever records expire under running requests and are written again.
SucceededIsServed ==
    \A a \in Attempts : session[a] = "succeeded" =>
       LET t == att[a].txn IN
       t # None /\ IF att[t].price \in Recurring THEN row[t] # None ELSE t \in payments

\* Once nobody is deleting it, a row of billing.payment_methods has its entry
\* in NMI's vault, so that the card can be charged; an entry without a row is
\* one whose row the user deleted, unless one of the steps failed after which
\* the code does not clean up.
VaultInStep ==
    \A b \in Attempts \ marred :
       /\ b \in methods /\ del[b] = "no" => b \in vault
       /\ b \in vault /\ ~At(b, "method") => b \in methods \cup dropped

\* A payment on Stripe's page that is not recorded yet brings access and the
\* success of its session for good, also when the session has expired or is
\* expiring, unless the handler fails half way.  There is one way to lose the
\* success again: a GetSession that read the session before writes it after.
PaidIsDelivered ==
    \A a \in Attempts :
       a \in remote \ payments /\ att[a].price \in Hosted
       ~> [](a \in marred \/ (a \in granted /\ (session[a] = "succeeded" \/ a \in undone)))
=============================================================================
