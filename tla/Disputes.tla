------------------------------ MODULE Disputes ------------------------------
(***************************************************************************)
(* NMI's chargeback batches (handleChargebackComplete).  An entry names    *)
(* neither a payment nor a subscription: it is matched by amount, by the   *)
(* last four digits of the card the subscription has now, and by date.     *)
(* The subscription of the one candidate there is ends at once; two are    *)
(* left to manual review.  The job always completes: an entry that failed  *)
(* is counted and logged.                                                  *)
(*                                                                         *)
(* All payments are of one amount and were made with one card; an entry    *)
(* has the date of the payment.  CancelMembership is Lifecycle's.  The     *)
(* candidate may be another one's payment: an entry is matched with the    *)
(* cards of today, and with what the ledger has today.                     *)
(***************************************************************************)
EXTENDS Naturals, FiniteSets, FiniteSetsExt, Functions

CONSTANTS Payments,   \* the gateway's charges, numbers
          OwnerOf,    \* the subscription of each
          DayOf,      \* its day
          MaxSlips    \* bound: entries that fail, crashes, cards that are replaced

VARIABLES booked,     \* payments that are in the ledger
          otherCard,  \* subscriptions whose payment method has another card by now
          batch,      \* the entries of a batch, those left, the subscriptions seen
          struck,     \* subscriptions that were ended
          spared,     \* history: subscriptions whose end has failed
          slips

disputeVars == <<booked, otherCard, batch, struck, spared, slips>>

NoBatch == [of |-> {}, todo |-> {}, seen |-> {}]

Init == /\ booked = {} /\ otherCard = {}
        /\ batch = NoBatch
        /\ struck = {} /\ spared = {}
        /\ slips = 0

Slip == slips < MaxSlips /\ slips' = slips + 1

\* A sale webhook puts its payment into the ledger.
Book(p) == /\ p \notin booked
           /\ booked' = booked \cup {p}
           /\ UNCHANGED <<otherCard, batch, struck, spared, slips>>

\* The vault entry gets another card, or the subscription another entry.
ReplaceCard(s) == /\ Slip
                  /\ otherCard' = otherCard \cup {s}
                  /\ UNCHANGED <<booked, batch, struck, spared>>

\* The processor reports disputes.
Report(D) == /\ batch.todo = {} /\ D # {}
             /\ batch' = [of |-> D, todo |-> D, seen |-> {}]
             /\ UNCHANGED <<booked, otherCard, struck, spared, slips>>

-----------------------------------------------------------------------------

WithinAWeek(d, e) == d <= e + 7 /\ e <= d + 7

Candidates(p) == {q \in booked : OwnerOf[q] \notin otherCard /\ WithinAWeek(DayOf[q], DayOf[p])}

\* reconcileNMIChargebackEntry; two candidates are ambiguous.
Reconcile(p) == IF Cardinality(Candidates(p)) = 1 THEN Candidates(p) ELSE {}
Matches(p) == {OwnerOf[q] : q \in Reconcile(p)}

\* The entry is done with; a subscription is tried once in a batch, whatever comes of it.
Done(p, subs) == batch' = [batch EXCEPT !.todo = @ \ {p}, !.seen = @ \cup subs]

Pass(p) == /\ Matches(p) \subseteq batch.seen
           /\ Done(p, {})
           /\ UNCHANGED <<struck, spared, slips>>

CancelMembership(p) == \E s \in Matches(p) \ batch.seen :
    /\ Done(p, {s})
    /\ \/ struck' = struck \cup {s} /\ UNCHANGED <<spared, slips>>
       \/ Slip /\ spared' = spared \cup {s} /\ UNCHANGED struck

\* Plausible bug: the first entry that cannot be matched ends the batch.
ReconcileFailsAll(p) == /\ Slip
                        /\ batch' = [batch EXCEPT !.todo = {}]
                        /\ spared' = spared \cup {OwnerOf[p]}
                        /\ UNCHANGED struck

\* The query fails; the entry is left to manual review.
ReconcileFails(p) == /\ Slip
                     /\ Done(p, {})
                     /\ spared' = spared \cup {OwnerOf[p]}
                     /\ UNCHANGED struck

HandleEntry(p) == /\ p \in batch.todo
                  /\ Pass(p) \/ CancelMembership(p) \/ ReconcileFails(p)
                  /\ UNCHANGED <<booked, otherCard>>

\* The worker dies half way through, and the job starts again.
Crash == /\ batch.todo # {} /\ Slip
         /\ batch' = [batch EXCEPT !.todo = batch.of, !.seen = {}]
         /\ UNCHANGED <<booked, otherCard, struck, spared>>

Next == \/ \E p \in Payments : Book(p) \/ HandleEntry(p)
        \/ \E s \in Range(OwnerOf) : ReplaceCard(s)
        \/ \E D \in SUBSET Payments : Report(D)
        \/ Crash

\* River runs the batch's job to its end.
Fairness == WF_disputeVars(\E p \in Payments : HandleEntry(p))

-----------------------------------------------------------------------------

\* Payments that no other one is within a week of.
Alone == {p \in Payments : \A q \in Payments : WithinAWeek(DayOf[q], DayOf[p]) => q = p}

\* A chargeback of a payment that nothing else can be taken for ends its subscription in
\* the end, although another entry of the batch fails and although the worker dies half
\* way; unless the subscription's card is another one by then, or its own end has failed.
DisputeEndsOwner == \A p \in Alone :
    (p \in batch.todo /\ p \in booked) ~> (OwnerOf[p] \in struck \cup spared \cup otherCard)
=============================================================================
