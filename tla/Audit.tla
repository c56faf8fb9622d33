------------------------------- MODULE Audit -------------------------------
(* The consistency audit (internal/audit) over the state of Lifecycle: each *)
(* check is the set of what its query finds, empty when there is nothing to *)
(* report.  The audit reads and never writes.  Checks of tables Lifecycle   *)
(* does not have (one-off payments, payment methods, admin grants, prices)  *)
(* are left out, so are S-E-1 and SS-1, which report what time alone makes  *)
(* of a subscription.  retry_attempts is compared with 5 in the queries,    *)
(* the default of the maximum.                                              *)
EXTENDS Lifecycle

\* Windows of a timeline that are neither revoked nor deleted and have not run out.
Current(k) == {i \in LiveWindows(windows[k]) : windows[k][i].end > now}
Kept(k) == {i \in 1..Len(windows[k]) : windows[k][i].state # "deleted"}

-----------------------------------------------------------------------------
(* Subscriptions and their entitlements.                                   *)

\* S-E-2: a current window of a subscription that is missing or over.
CheckOrphanSubscriptionEntitlements ==
    {x \in Subs \X Ents :
        /\ sub[x[1]].status \notin {"active", "pending", "past_due"}
        /\ \E i \in Current(x[2]) : windows[x[2]][i].src = Paid(x[1])}

\* S-E-3: a current window of a cancelled subscription that has ended_at.
CheckCancelledSubscriptionActiveEntitlements ==
    {x \in Subs \X Ents :
        /\ sub[x[1]].status = "cancelled" /\ sub[x[1]].endedAt # Null
        /\ \E i \in Current(x[2]) : windows[x[2]][i].src = Paid(x[1])}

\* S-E-4: a window of a cancelled subscription without ended_at that does not end with
\* the period.
CheckWrongEntitlementEndDate ==
    {x \in Subs \X Ents :
        /\ sub[x[1]].status = "cancelled" /\ sub[x[1]].cancelledAt # Null
        /\ sub[x[1]].endedAt = Null /\ sub[x[1]].pend # Null
        /\ \E i \in LiveWindows(windows[x[2]]) :
              windows[x[2]][i].src = Paid(x[1]) /\ windows[x[2]][i].end # sub[x[1]].pend}

\* FK-5, of the windows of subscriptions: the subscription is not there.
CheckEntitlementOrphanSource ==
    {x \in Subs \X Ents :
        /\ sub[x[1]].status = "none"
        /\ \E i \in Kept(x[2]) : windows[x[2]][i].src = Paid(x[1])}

\* S-E-5: the same, or a subscription of another user, which one user cannot have.
CheckEntitlementSourceMismatch == CheckEntitlementOrphanSource

-----------------------------------------------------------------------------
(* Duplicates.                                                             *)

\* D-1: two active subscriptions of the user.
CheckMultipleActiveSubscriptions ==
    {s \in Subs : sub[s].status = "active" /\ \E q \in Subs \ {s} : sub[q].status = "active"}

\* D-3: two windows of a timeline that overlap.
CheckOverlappingEntitlementWindows ==
    {k \in Ents : \E i, j \in LiveWindows(windows[k]) :
        /\ i < j
        /\ windows[k][i].start < windows[k][j].end
        /\ windows[k][j].start < windows[k][i].end}

-----------------------------------------------------------------------------
(* Subscriptions, entitlements, time.                                      *)

\* SS-2: cancelled without a time or a type.
CheckCancelledWithoutMetadata ==
    {s \in Subs : sub[s].status = "cancelled" /\ (sub[s].cancelledAt = Null \/ sub[s].ctype = "none")}

\* SS-3: past due without a retry although attempts are left.
CheckPastDueWithoutRetry ==
    {s \in Subs : /\ sub[s].status = "past_due" /\ sub[s].nextRetry = Null
                  /\ sub[s].attempts < MaxDunningFailures}

\* SS-4: a period that ends before it starts.
CheckInvalidPeriodDates ==
    {s \in Subs : sub[s].pstart # Null /\ sub[s].pend # Null /\ sub[s].pstart >= sub[s].pend}

\* SS-5: ended before it was cancelled.
CheckEndedBeforeCancelled ==
    {s \in Subs : /\ sub[s].endedAt # Null /\ sub[s].cancelledAt # Null
                  /\ sub[s].endedAt < sub[s].cancelledAt}

\* ES-3: a window that is empty.
CheckInvalidTimeWindow ==
    {k \in Ents : \E i \in Kept(k) :
        windows[k][i].end # Never /\ windows[k][i].start >= windows[k][i].end}

\* ES-5: two windows without an end on one timeline.
CheckMultipleIndefiniteEntitlements ==
    {k \in Ents : \E i, j \in LiveWindows(windows[k]) :
        i < j /\ windows[k][i].end = Never /\ windows[k][j].end = Never}

\* T-2: past due with no attempt left.
CheckStalePastDueMaxRetries ==
    {s \in Subs : sub[s].status = "past_due" /\ sub[s].attempts >= MaxDunningFailures}

-----------------------------------------------------------------------------

\* What registerAllChecks says is prevented: D-1, SS-2, SS-4, SS-5, ES-3 and ES-5.
Prevented == /\ CheckMultipleActiveSubscriptions = {}
             /\ CheckCancelledWithoutMetadata = {}
             /\ CheckInvalidPeriodDates = {}
             /\ CheckEndedBeforeCancelled = {}
             /\ CheckInvalidTimeWindow = {}
             /\ CheckMultipleIndefiniteEntitlements = {}

\* However two transactions with stale snapshots interleave, the audit finds nothing but
\* what cancellation at the end of a period leaves on purpose.  The checks that were taken
\* out because constraints prevent what they look for would find nothing, nor do those of
\* overlapping windows and of windows without a subscription; a subscription of NMI that is
\* past due has a retry and, once it had a period, attempts left; and the windows of a
\* subscription that is over are all explained: either the row says when it ended, or they
\* do not outlast the period.
AuditClean ==
    /\ Prevented
    /\ CheckOverlappingEntitlementWindows = {}
    /\ CheckEntitlementSourceMismatch = {}
    /\ CheckPastDueWithoutRetry \cap NMISubs = {}
    /\ \A s \in CheckStalePastDueMaxRetries : sub[s].pend = Null
    /\ CheckOrphanSubscriptionEntitlements \subseteq
          CheckCancelledSubscriptionActiveEntitlements \cup CheckWrongEntitlementEndDate
    /\ \A x \in CheckWrongEntitlementEndDate : \A i \in LiveWindows(windows[x[2]]) :
          windows[x[2]][i].src = Paid(x[1]) => windows[x[2]][i].end <= sub[x[1]].pend
=============================================================================
