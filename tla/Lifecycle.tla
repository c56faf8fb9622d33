----------------------------- MODULE Lifecycle -----------------------------
(***************************************************************************)
(* The membership lifecycle of one user: the CCBill and NMI webhook        *)
(* handlers, SubscriptionLifecycleService, which most of them call, and    *)
(* the scheduling of a downgrade, acting on billing.subscriptions,         *)
(* billing.entitlements and billing.payments.                              *)
(*                                                                         *)
(* Every operation is a database transaction that first SELECTs the        *)
(* subscription row without locking it and later UPDATEs all its columns,  *)
(* then the entitlement windows.  So an operation is two steps: Begin      *)
(* takes the snapshot, the operation's own action commits what it makes of *)
(* the snapshot.  Between the two any other transaction may commit; from   *)
(* the UPDATE on, the row lock and the timeline's advisory lock keep       *)
(* others out until the commit.  A row the table's constraints reject      *)
(* aborts the transaction.                                                 *)
(*                                                                         *)
(* Webhook handlers look at the row once more before the transaction       *)
(* starts, and may be delayed after that look; a condition on the status   *)
(* they saw then says nothing about the snapshot and is no guard here.     *)
(* What a handler does after its transaction (credits, checkout session,   *)
(* notification, event log) is in other modules or left out.               *)
(*                                                                         *)
(* Users share nothing, so one is enough.  A product has one price.  A     *)
(* purchase reuses the row that has its price, so a member of Subs stands  *)
(* for one row; a second purchase of a price the row has left behind       *)
(* through a downgrade would be a row of its own.                          *)
(***************************************************************************)
EXTENDS Timeline

CONSTANTS Subs,            \* subscriptions of the user
          NMISubs,         \* those billed by an NMI-backed processor; the rest CCBill
          Ents, Premium,   \* entitlement names; the default one
          Products, NoProduct,
          TierRank, EntSpec, \* product.tier_rank, product.entitlements_spec
          ProductOf,       \* the product each subscription is first bought for
          Workers, NoTx,   \* concurrent transactions
          Txns,            \* processor transaction ids
          Dates,           \* period ends and retry dates processors report
          Cycle,           \* the price's billing_cycle_days
          DunningInterval, MaxDunningFailures,
          DunningMode,     \* feature_flags.dunning_mode
          KeepEntitlements,\* feature_flags.disable_entitlement_expiration
          MaxTime,         \* bound: the clock runs over 1..MaxTime
          MaxWindows       \* bound on the rows of a timeline

Paid(s) == <<"subscription", s>>
Grace(s) == <<"grace", s>>

ASSUME LifecycleAssumption ==
    /\ NMISubs \subseteq Subs
    /\ Premium \in Ents
    /\ NoProduct \notin Products
    /\ TierRank \in [Products -> Nat] /\ EntSpec \in [Products -> SUBSET Ents]
    /\ ProductOf \in [Subs -> Products]
    /\ Dates \subseteq 1..Horizon
    /\ Cycle \in Nat \ {0} /\ DunningInterval \in Nat \ {0}
    /\ MaxDunningFailures \in Nat \ {0, 1}
    /\ DunningMode \in {"on", "dry_run_only", "off"}
    /\ KeepEntitlements \in BOOLEAN
    /\ MaxTime \in 1..Horizon /\ MaxWindows \in Nat
    /\ \A s \in Subs : Paid(s) \in Sources /\ Grace(s) \in Sources

VARIABLES now,       \* the clock
          sub,       \* rows of billing.subscriptions
          windows,   \* rows of billing.entitlements, by entitlement
          payments,  \* transaction ids in billing.payments, of declined charges too
          tx,        \* snapshot of each open transaction
          disputed   \* history: charged back since the last purchase

vars == <<now, sub, windows, payments, tx, disputed>>

Null == -1
Time == 0..Horizon \cup {Null}
Status == {"none", "pending", "active", "past_due", "cancelled"} \* none: no such row
CancelType == {"none", "user", "merchant", "expired", "chargeback"}

\* noted: does cancel_feedback mention a chargeback?  retry_attempts NULL is
\* 0: the column is never 0.
Row == [product: Products, scheduled: Products \cup {NoProduct},
        status: Status, pstart: Time, pend: Time, cancelledAt: Time, endedAt: Time,
        ctype: CancelType, noted: BOOLEAN,
        attempts: 0..MaxDunningFailures, nextRetry: Time]
NoRow(s) ==
    [product |-> ProductOf[s], scheduled |-> NoProduct,
     status |-> "none", pstart |-> Null, pend |-> Null, cancelledAt |-> Null, endedAt |-> Null,
     ctype |-> "none", noted |-> FALSE, attempts |-> 0, nextRetry |-> Null]
Tx == [sub: Subs, row: Row]

Init ==
    /\ now = 1
    /\ sub = [s \in Subs |-> NoRow(s)]
    /\ windows = [k \in Ents |-> <<>>]
    /\ payments = {}
    /\ tx = [w \in Workers |-> NoTx]
    /\ disputed = {}

Tick ==
    /\ now < MaxTime
    /\ now' = now + 1
    /\ UNCHANGED <<sub, windows, payments, tx, disputed>>

\* The SELECT every operation starts with.
Begin(w, s) ==
    /\ tx[w] = NoTx
    /\ tx' = [tx EXCEPT ![w] = [sub |-> s, row |-> sub[s]]]
    /\ UNCHANGED <<now, sub, windows, payments, disputed>>

\* The operation returns an error, or nothing to do, and rolls back.
Rollback(w) ==
    /\ tx[w] # NoTx
    /\ tx' = [tx EXCEPT ![w] = NoTx]
    /\ UNCHANGED <<now, sub, windows, payments, disputed>>

----------------------------------------------------------------------------
\* chk_cancelled_has_timestamp, chk_cancelled_has_type, chk_valid_period,
\* chk_ended_not_before_cancelled.
RowChecks(r) ==
    /\ r.pstart # Null /\ r.pend # Null => r.pstart < r.pend
    /\ r.status = "cancelled" => r.cancelledAt # Null /\ r.ctype # "none"
    /\ r.endedAt # Null /\ r.cancelledAt # Null => r.endedAt >= r.cancelledAt

\* idx_subscriptions_user_active: one active subscription per user;
\* idx_subscriptions_user_product_active_pending: one that is active or
\* pending per product.
UniqueOpen(s, r) ==
    \A q \in Subs \ {s} :
       /\ ~(r.status = "active" /\ sub[q].status = "active")
       /\ ~(/\ {r.status, sub[q].status} \subseteq {"active", "pending"}
            /\ r.product = sub[q].product)

Accepted(s, r) == RowChecks(r) /\ UniqueOpen(s, r)

\* UPDATE of all columns, whatever was committed since the snapshot, COMMIT.
Save(w, r) ==
    LET s == tx[w].sub IN
    /\ Accepted(s, r)
    /\ sub' = [sub EXCEPT ![s] = r]
    /\ tx' = [tx EXCEPT ![w] = NoTx]

SetWindows(new) ==
    /\ \A k \in Ents : Len(new[k]) <= MaxWindows
    /\ windows' = new

Activated(r, start, end) ==
    [r EXCEPT !.status = "active", !.pstart = start, !.pend = end, !.cancelledAt = Null,
              !.endedAt = Null, !.ctype = "none", !.noted = FALSE]
NotRetrying(r) == [r EXCEPT !.attempts = 0, !.nextRetry = Null]

\* TerminalCancelReason: only a chargeback is terminal.
Terminal(r) == r.status = "cancelled" /\ (r.ctype = "chargeback" \/ r.noted)

\* assertActiveTransitionAllowed, which no caller overrides.
MayActivate(r) == ~Terminal(r)

\* The names a product grants; Premium stands in for an empty spec, but not
\* in RenewMembership.
Granted(p) == IF EntSpec[p] = {} THEN {Premium} ELSE EntSpec[p]

\* The processor's date when it lies behind the start, else one billing cycle.
PeriodEnd(start, date) == IF date > start THEN date ELSE start + Cycle

PushedUntil(ws, src, notBefore, end) ==
    Pushed(ws, src, TailStart(ws, now, notBefore), end)

\* Plausible bug: the last window is made longer instead of another one added.
ExtendedInPlace(s, names, notBefore, end) ==
    [k \in Ents |->
       IF k \in names /\ windows[k] # <<>>
       THEN [windows[k] EXCEPT ![Len(windows[k])].end = Max({@, end})]
       ELSE IF k \in names THEN PushedUntil(windows[k], Paid(s), notBefore, end)
       ELSE windows[k]]

\* Windows with an entitlement granted to s cleared of grace and extended.
Extended(s, names, notBefore, end) ==
    [k \in Ents |->
       IF k \in names
       THEN PushedUntil(Revoked(windows[k], now, {Grace(s)}), Paid(s), notBefore, end)
       ELSE windows[k]]
RevokedFrom(srcs) == [k \in Ents |-> Revoked(windows[k], now, srcs)]

----------------------------------------------------------------------------
\* Checkout records the subscription it has just opened at NMI.  CCBill
\* subscriptions have no row before their first sale.
CreatePending(s) ==
    /\ s \in NMISubs
    /\ sub[s].status = "none"
    /\ Accepted(s, [sub[s] EXCEPT !.status = "pending"])
    /\ sub' = [sub EXCEPT ![s].status = "pending"]
    /\ UNCHANGED <<now, windows, payments, tx, disputed>>

(* Operations on the snapshot of worker w.                                 *)

\* A window the subscription already owns, even a past one, counts as
\* granted.  A push that turns out to be a no-op returns nil, which the
\* caller dereferences: the transaction is rolled back.
GrantPurchased(s, product, end) ==
    LET missing == {k \in Granted(product) : ~ExistsBySource(windows[k], Paid(s))}
        new == [k \in Ents |-> IF k \in missing THEN PushedUntil(windows[k], Paid(s), now, end)
                               ELSE windows[k]]
    IN  /\ \A k \in missing : new[k] # windows[k]
        /\ SetWindows(new)

\* The payment row of a purchase.  One that is already there, or that cannot
\* be written, is not an obstacle.
RecordPurchase(ids) == payments' = payments \cup ids

\* createMembershipCore, in a transaction.
CreateMembership(w, ids, date) ==
    LET s == tx[w].sub
        end == PeriodEnd(now, date)
    IN  /\ tx[w].row.status # "active"
        /\ tx[w].row.status = "none" => s \notin NMISubs /\ sub[s].status = "none"
        /\ end <= Horizon
        /\ Save(w, Activated(tx[w].row, now, end))
        /\ GrantPurchased(s, tx[w].row.product, end)
        /\ RecordPurchase(ids)
        /\ disputed' = disputed \ {s}
        /\ UNCHANGED now

\* CCBill's first sale.
HandleNewSaleSuccess(w, t, date) ==
    tx[w].sub \notin NMISubs /\ CreateMembership(w, {t}, date)

\* NMI has opened the subscription and its first charge is due: the pending
\* row is activated under a reference of its own, before the charge is known.
HandleAddSubscription(w) ==
    tx[w].sub \in NMISubs /\ CreateMembership(w, {}, Null)

\* A downgrade is scheduled for the next renewal, whatever the status.
ProcessDowngrade(w, p) ==
    LET r == tx[w].row IN
    /\ TierRank[p] < TierRank[r.product]
    /\ r.scheduled = NoProduct
    /\ Save(w, [r EXCEPT !.scheduled = p])
    /\ UNCHANGED <<now, windows, payments, disputed>>

\* Mistake: the downgrade takes nothing away.
DowngradedKeeping(s, old, product, new) == new

\* The windows after a downgrade from old to product: what only the old
\* product grants is revoked.  Its grace windows stay.
Downgraded(s, old, product, new) ==
    [k \in Ents |-> IF k \in EntSpec[old] \ EntSpec[product]
                    THEN Revoked(new[k], now, {Paid(s)}) ELSE new[k]]

\* The payment row is the idempotency marker: a known transaction changes
\* nothing.
RenewMembership(w, t, date) ==
    LET s == tx[w].sub
        r == tx[w].row
        product == IF r.scheduled = NoProduct THEN r.product ELSE r.scheduled
        start == IF r.pend = Null THEN now ELSE r.pend
        end == PeriodEnd(start, date)
    IN  /\ r.status \notin {"none", "pending"} /\ MayActivate(r)
        /\ t \notin payments
        /\ end <= Horizon
        /\ Save(w, [NotRetrying(Activated(r, start, end)) EXCEPT !.product = product,
                                                          !.scheduled = NoProduct])
        /\ SetWindows(Downgraded(s, r.product, product,
                                 Extended(s, EntSpec[product], start, end)))
        /\ payments' = payments \cup {t}
        /\ UNCHANGED <<now, disputed>>

HandleRenewalSuccess(w, t, date) ==
    tx[w].sub \notin NMISubs /\ RenewMembership(w, t, date)

\* A charge of NMI activates a row the handler saw pending, and renews any
\* other, one that HandleAddSubscription has just activated included.  A
\* renewal that a chargeback forbids is dropped without an error.
RenewFromCharge(w, t) == RenewMembership(w, t, Null)

HandleTransactionSaleSuccess(w, t) ==
    /\ tx[w].sub \in NMISubs
    /\ CreateMembership(w, {t}, Null) \/ RenewFromCharge(w, t)

ReactivateMembership(w, date) ==
    LET s == tx[w].sub
        r == tx[w].row
    IN  /\ r.status # "none" /\ MayActivate(r)
        /\ date > now
        /\ Save(w, NotRetrying(Activated(r, now, date)))
        /\ SetWindows(Extended(s, Granted(r.product), now, date))
        /\ UNCHANGED <<now, payments, disputed>>

\* CCBill's reactivation event, with a renewal date in the future.
HandleUserReactivation(w, date) ==
    tx[w].sub \notin NMISubs /\ ReactivateMembership(w, date)

Cancelled(r, ct, ended) ==
    [r EXCEPT !.status = "cancelled", !.ctype = ct, !.cancelledAt = now, !.endedAt = ended]

\* At once, or at the end of the paid period; the caller's feedback replaces
\* cancel_feedback.  Grace windows stay.
CancelMembership(w, ct, noted, revokeAccess) ==
    LET r == tx[w].row
        pend == IF revokeAccess THEN now ELSE r.pend
        ended == IF pend > now THEN pend ELSE now
    IN  /\ r.status # "none"
        /\ Save(w, [Cancelled(r, ct, ended) EXCEPT
                      !.pstart = IF revokeAccess /\ @ >= now THEN now - 1 ELSE @,
                      !.pend = pend, !.noted = noted])
        /\ SetWindows(IF pend > now THEN windows ELSE RevokedFrom({Paid(tx[w].sub)}))
        /\ disputed' = IF ct = "chargeback" THEN disputed \cup {tx[w].sub} ELSE disputed
        /\ UNCHANGED <<now, payments>>

\* Who calls it: CCBill's cancellation event, NMI's deletion of a
\* subscription, an NMI refund of most of the price, an NMI chargeback.  CCBill
\* gives a reason in its own words, which may mention a chargeback; the
\* feedback of the NMI handlers is their own.
HandleCancel(w) ==
    /\ tx[w].sub \notin NMISubs
    /\ \E ct \in {"merchant", "expired"}, noted \in BOOLEAN : CancelMembership(w, ct, noted, FALSE)

HandleDeleteSubscription(w) ==
    tx[w].sub \in NMISubs /\ CancelMembership(w, "merchant", FALSE, FALSE)

HandleRefundSuccess(w) ==
    tx[w].sub \in NMISubs /\ CancelMembership(w, "merchant", FALSE, TRUE)

HandleChargebackComplete(w) ==
    tx[w].sub \in NMISubs /\ CancelMembership(w, "chargeback", TRUE, TRUE)

\* cancel_feedback stays as it is.
ExpireMembership(w) ==
    LET s == tx[w].sub IN
    /\ tx[w].row.status # "none"
    /\ Save(w, Cancelled(tx[w].row, "expired", now))
    /\ SetWindows(RevokedFrom({Paid(s), Grace(s)}))
    /\ UNCHANGED <<now, payments, disputed>>

HandleExpiration(w) == tx[w].sub \notin NMISubs /\ ExpireMembership(w)

\* ResetCurrentPeriods of a row that has a period: one that is over is
\* cleared, and its end dated two minutes back.
LapsedCleared(r) ==
    IF r.pend <= now THEN [r EXCEPT !.pstart = Null, !.pend = Null, !.endedAt = now - 1] ELSE r

\* A refund of most of the price terminates the subscription, unless its
\* period has been cleared before; the reason CCBill gives, if any, replaces
\* cancel_feedback, and may mention a chargeback.
TerminateForRefund(w) ==
    LET r == LapsedCleared(tx[w].row) IN
    /\ tx[w].row.pend # Null
    /\ \E noted \in BOOLEAN :
          Save(w, [Cancelled(r, "merchant", r.endedAt) EXCEPT !.noted = noted])
    /\ SetWindows(RevokedFrom({Paid(tx[w].sub)}))

\* CCBill's refund event.  A small one writes the row back as it was read.
\* The refund's own payment row is left out.
HandleRefund(w, terminate) ==
    /\ tx[w].sub \notin NMISubs
    /\ tx[w].row.status # "none"
    /\ \/ terminate /\ TerminateForRefund(w)
       \/ ~terminate /\ Save(w, tx[w].row) /\ UNCHANGED windows
    /\ UNCHANGED <<now, payments, disputed>>

\* CCBill's billing date change event moves the end of the period, and
\* nothing else.
HandleBillingDateChange(w, date) ==
    /\ tx[w].sub \notin NMISubs
    /\ tx[w].row.status # "none"
    /\ Save(w, [tx[w].row EXCEPT !.pend = date])
    /\ UNCHANGED <<now, windows, payments, disputed>>

\* updateEntitlementsForUpgrade: what only the old product grants is revoked,
\* what only the new one grants is pushed unless the subscription had it
\* before; the windows of what both grant stay as they are.
WindowsAfterUpgrade(s, old, product, end) ==
    [k \in Ents |->
       IF k \in Granted(old) \ Granted(product) THEN Revoked(windows[k], now, {Paid(s)})
       ELSE IF k \in Granted(product) \ Granted(old) /\ ~ExistsBySource(windows[k], Paid(s))
       THEN PushedUntil(windows[k], Paid(s), now, end)
       ELSE windows[k]]

\* The row moves to another product and one cycle on (ActivateWithPrice),
\* cancelled or not, and takes CCBill's new subscription id.  A period that
\* would be over already is refused (Validate); one that ends right now makes
\* the new windows indefinite.
UpgradeMembership(w, p) ==
    LET r == tx[w].row
        start == IF r.pend = Null THEN now ELSE r.pend
        end == start + Cycle
    IN  /\ end \in now..Horizon
        /\ end = now => \A k \in Ents : IndefiniteIndexed(windows[k]) => HasIndefinite(windows[k])
        /\ Save(w, [Activated(r, start, end) EXCEPT !.product = p])
        /\ SetWindows(WindowsAfterUpgrade(tx[w].sub, r.product, p,
                                          IF end > now THEN end ELSE Never))

\* CCBill's upgrade event, to the product it bought already too.  A known
\* transaction changes nothing.
HandleUpgradeSuccess(w, t, p) ==
    /\ tx[w].sub \notin NMISubs
    /\ tx[w].row.status # "none"
    /\ t \notin payments
    /\ UpgradeMembership(w, p)
    /\ payments' = payments \cup {t}
    /\ UNCHANGED <<now, disputed>>

\* Mistake: the chargeback leaves the windows to run out.
TerminateForChargebackRowOnly(w) ==
    /\ tx[w].row.pend # Null
    /\ Save(w, [Cancelled(LapsedCleared(tx[w].row), "chargeback", now) EXCEPT !.noted = TRUE])
    /\ disputed' = disputed \cup {tx[w].sub}
    /\ UNCHANGED windows

\* ResetCurrentPeriods clears a period that is over, and refuses one that is
\* already cleared.
TerminateForChargeback(w) ==
    LET r == LapsedCleared(tx[w].row) IN
    /\ tx[w].row.pend # Null
    /\ Save(w, [Cancelled(r, "chargeback", now) EXCEPT !.noted = TRUE])
    /\ SetWindows(RevokedFrom({Paid(tx[w].sub)}))
    /\ disputed' = disputed \cup {tx[w].sub}

\* CCBill's chargeback event.
HandleChargeback(w) ==
    /\ tx[w].sub \notin NMISubs
    /\ tx[w].row.status # "none"
    /\ TerminateForChargeback(w)
    /\ UNCHANGED <<now, payments>>

\* Grace windows for the given names, from the end of the paid period on.
WithGrace(s, names, pend, until) ==
    [k \in Ents |->
       IF k \in names /\ pend # Null /\ until > pend
       THEN PushedUntil(windows[k], Grace(s), IF pend > now THEN pend ELSE now, until)
       ELSE windows[k]]

\* The retry CCBill announces, at most one interval behind the paid period.
CapCCBillRetryAt(date, pend) ==
    IF pend # Null /\ date > pend + DunningInterval THEN pend + DunningInterval ELSE date

\* OpenRails grants grace until CCBill's retry.
GrantCCBillGrace(w, retry) ==
    LET r == tx[w].row IN
    SetWindows(WithGrace(tx[w].sub, Granted(r.product), r.pend, retry))

\* CCBill's renewal failure event: CCBill retries, and says when.
HandleRenewalFailure(w, date) ==
    LET retry == CapCCBillRetryAt(date, tx[w].row.pend) IN
    /\ tx[w].sub \notin NMISubs
    /\ tx[w].row.status # "none"
    /\ retry <= Horizon
    /\ Save(w, [tx[w].row EXCEPT !.status = "past_due", !.nextRetry = retry, !.attempts = 0])
    /\ GrantCCBillGrace(w, retry)
    /\ UNCHANGED <<now, payments, disputed>>

\* Mistake: a failure does not schedule the next attempt.
AfterFailureUnscheduled(r) ==
    IF r.attempts + 1 < MaxDunningFailures
    THEN [r EXCEPT !.status = "past_due", !.attempts = @ + 1]
    ELSE [Cancelled(r, "expired", now) EXCEPT !.attempts = MaxDunningFailures]

\* What FailMembership makes of the row.  The last failure goes through
\* Subscription.Cancel, which dates the end of a lapsed period two minutes
\* before the cancellation, and refuses one that was never set, an error
\* FailMembership does not look at; with dunning off only status and ended_at
\* are set.  (Failures beyond the maximum are counted as the maximum.)
AfterFailure(r) ==
    IF DunningMode = "off"
    THEN [r EXCEPT !.status = "cancelled", !.endedAt = now]
    ELSE IF r.attempts + 1 < MaxDunningFailures
    THEN [r EXCEPT !.status = "past_due", !.attempts = @ + 1,
                   !.nextRetry = now + DunningInterval]
    ELSE IF r.pend = Null
    THEN [r EXCEPT !.status = "past_due", !.attempts = MaxDunningFailures]
    ELSE IF r.pend <= now
    THEN [Cancelled(r, "expired", now - 1) EXCEPT
            !.pstart = Null, !.pend = Null, !.noted = FALSE, !.attempts = MaxDunningFailures]
    ELSE [Cancelled(r, "expired", r.endedAt) EXCEPT
            !.noted = FALSE, !.attempts = MaxDunningFailures]

WindowsAfterFailure(s, r) ==
    IF r.status = "cancelled"
    THEN IF KeepEntitlements THEN windows ELSE RevokedFrom({Paid(s), Grace(s)})
    ELSE WithGrace(s, {k \in Ents : ExistsBySource(windows[k], Paid(s))}, r.pend, r.nextRetry)

FailMembership(w) ==
    LET s == tx[w].sub
        r == AfterFailure(tx[w].row)
    IN  /\ tx[w].row.status # "none"
        /\ r.nextRetry <= Horizon
        /\ Save(w, r)
        /\ SetWindows(WindowsAfterFailure(s, r))
        /\ UNCHANGED <<now, payments, disputed>>

\* NMI reports a declined charge.  Before it fails the membership the handler
\* writes the charge to the ledger as failed, in a transaction of its own; a
\* later success of the same id would find it there.
RecordDeclined(s, t) ==
    /\ s \in NMISubs
    /\ sub[s].status # "none"
    /\ t \notin payments
    /\ payments' = payments \cup {t}
    /\ UNCHANGED <<now, sub, windows, tx, disputed>>

HandleTransactionSaleFailure(w) == tx[w].sub \in NMISubs /\ FailMembership(w)

----------------------------------------------------------------------------
(* Events the handlers only write to the log: they leave the subscription  *)
(* as it is, a void or a failed upgrade of a charge included.              *)

LogOnly(w) ==
    /\ tx' = [tx EXCEPT ![w] = NoTx]
    /\ UNCHANGED <<now, sub, windows, payments, disputed>>

\* CCBill: the user is looked up, the subscription is not.
HandleUpgradeFailure(w) == tx[w].sub \notin NMISubs /\ LogOnly(w)
\* An unknown subscription is an error.
HandleCustomerDataUpdate(w) ==
    tx[w].sub \notin NMISubs /\ tx[w].row.status # "none" /\ LogOnly(w)
\* The sale that is voided may never have made a subscription.
HandleVoid(w) == tx[w].sub \notin NMISubs /\ LogOnly(w)

\* NMI: a change of the plan, a card updated by its bank, a refund or a void
\* that failed, and a void.
HandleUpdateSubscription(w) == tx[w].sub \in NMISubs /\ LogOnly(w)
HandleACUEvent(w) == tx[w].sub \in NMISubs /\ LogOnly(w)
HandleRefundFailure(w) == tx[w].sub \in NMISubs /\ LogOnly(w)
HandleVoidSuccess(w) == tx[w].sub \in NMISubs /\ LogOnly(w)
HandleVoidFailure(w) == tx[w].sub \in NMISubs /\ LogOnly(w)

----------------------------------------------------------------------------
(* The user asks for another tier.                                         *)

IsDowngrade(w, p) == TierRank[p] < TierRank[tx[w].row.product]

\* The request of an NMI upgrade carries neither a card nor a payment method:
\* ResolveVault refuses it before a successor is opened or anything charged.
\* (The idempotency record it leaves, failed, is not part of this state.)
ProcessUpgrade(w, p) == ~IsDowngrade(w, p) /\ LogOnly(w)

ProcessTierChangeNMI(w, p) ==
    tx[w].sub \in NMISubs /\ (ProcessUpgrade(w, p) \/ ProcessDowngrade(w, p))

\* The user is sent to CCBill's form; HandleUpgradeSuccess is what comes of it.
ProcessCCBillUpgrade(w, p) == ~IsDowngrade(w, p) /\ LogOnly(w)

\* CCBill cannot downgrade: the request is blocked.
ProcessTierChangeCCBill(w, p) ==
    tx[w].sub \notin NMISubs /\ (ProcessCCBillUpgrade(w, p) \/ (IsDowngrade(w, p) /\ LogOnly(w)))

\* Of the active subscription, or of one the request names, whatever its status.
TierChange(w, p) ==
    /\ tx[w].row.status # "none" /\ p # tx[w].row.product
    /\ ProcessTierChangeNMI(w, p) \/ ProcessTierChangeCCBill(w, p)

----------------------------------------------------------------------------
HandleCCBillWebhook(w) ==
    \/ \E t \in Txns, date \in Dates \cup {Null} :
          HandleNewSaleSuccess(w, t, date) \/ HandleRenewalSuccess(w, t, date)
    \/ \E date \in Dates \cup {Null} : HandleRenewalFailure(w, date)
    \/ \E t \in Txns, p \in Products : HandleUpgradeSuccess(w, t, p)
    \/ HandleUpgradeFailure(w)
    \/ HandleCancel(w)
    \/ HandleExpiration(w)
    \/ \E date \in Dates : HandleUserReactivation(w, date) \/ HandleBillingDateChange(w, date)
    \/ HandleCustomerDataUpdate(w)
    \/ \E terminate \in BOOLEAN : HandleRefund(w, terminate)
    \/ HandleVoid(w)
    \/ HandleChargeback(w)

HandleNMIWebhook(w) ==
    \/ HandleAddSubscription(w)
    \/ HandleUpdateSubscription(w)
    \/ HandleDeleteSubscription(w)
    \/ \E t \in Txns : HandleTransactionSaleSuccess(w, t)
    \/ HandleTransactionSaleFailure(w)
    \/ HandleACUEvent(w)
    \/ HandleChargebackComplete(w)
    \/ HandleRefundSuccess(w)
    \/ HandleRefundFailure(w)
    \/ HandleVoidSuccess(w)
    \/ HandleVoidFailure(w)

Commit(w) ==
    \/ HandleCCBillWebhook(w)
    \/ HandleNMIWebhook(w)
    \/ \E p \in Products : TierChange(w, p)

Next ==
    \/ Tick
    \/ \E s \in Subs : CreatePending(s)
    \/ \E s \in Subs, t \in Txns : RecordDeclined(s, t)
    \/ \E w \in Workers : \/ \E s \in Subs : Begin(w, s)
                          \/ tx[w] # NoTx /\ (Commit(w) \/ Rollback(w))

Spec == Init /\ [][Next]_vars

----------------------------------------------------------------------------
(* Properties.                                                             *)

\* Rows, windows, payments and snapshots have the shape of their Go models.
TypeOK ==
    /\ now \in 1..MaxTime
    /\ sub \in [Subs -> Row]
    /\ windows \in [Ents -> Seq(Window)]
    /\ payments \subseteq Txns
    /\ tx \in [Workers -> Tx \cup {NoTx}]
    /\ disputed \subseteq Subs

\* A subscription that its row calls terminal, as TerminalCancelReason reads
\* cancel_type and cancel_feedback, has no paid window that is or will be
\* active, whatever renewal or retry was under way.  NMI only: CCBill's reason
\* for a cancellation at the end of the period may mention a chargeback.
ChargebackEndsPaidAccess ==
    \A s \in Subs : Terminal(sub[s]) =>
       \A k \in Ents : \A i \in LiveWindows(windows[k]) :
          windows[k][i].src = Paid(s) => windows[k][i].end <= now

\* Where operations do not overlap, a subscription whose last cancellation was
\* for a chargeback has no paid window that is or will be active, through the
\* declines, dates, refunds and downgrades that its processor may still report.
ChargebackLeavesNothingPaid ==
    \A s \in Subs : sub[s].ctype = "chargeback" =>
       \A k \in Ents : \A i \in LiveWindows(windows[k]) :
          windows[k][i].src = Paid(s) => windows[k][i].end <= now

\* Where operations do not overlap, a subscription's paid windows that are
\* or will be active are for entitlements its product grants: a downgrade, and
\* whatever was cancelled, failed, bought or renewed around it, leaves none of
\* the old product behind.
PaidAccessIsOfProduct ==
    \A s \in Subs : \A k \in Ents \ Granted(sub[s].product) :
       \A i \in LiveWindows(windows[k]) :
          windows[k][i].src = Paid(s) => windows[k][i].end <= now

H == INSTANCE History WITH Timelines <- Ents, history <- windows

\* The lifecycle implements History: operations that revoke, extend and regrade
\* the timelines of several subscriptions at once only ever append at the tail
\* and end what is live; a renewal or a new date never moves a window.
LifecycleKeepsHistory == H!Spec

----------------------------------------------------------------------------
(* What comments and documents say of the program, and the code does not   *)
(* do.                                                                     *)

\* "Chargebacks are terminal cancellations": until the user buys again, no
\* late processor event makes the subscription active.
ChargebackIsTerminal ==
    \A s \in disputed : sub[s].status # "active"

============================================================================
