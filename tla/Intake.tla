------------------------------- MODULE Intake -------------------------------
(***************************************************************************)
(* Where webhooks come in: the HTTP route and, for embedding hosts,        *)
(* Service.HandleWebhook.  A delivery is verified, reduced to what it is   *)
(* about and queued under a key; River keeps one job of a key as long as   *)
(* it keeps the job's row.  What becomes of the jobs is Webhooks'.         *)
(*                                                                         *)
(* An event is of a provider, has an identifier of its own (CCBill's have  *)
(* none), a type and a body.  The same event may come again, through       *)
(* either door, under either name of the provider, under several headers,  *)
(* with a signature of another time and, from CCBill, with the fields of   *)
(* its form in another order.                                              *)
(***************************************************************************)
EXTENDS Naturals

CONSTANTS Occurrences,    \* events: records of prov, id, type, body
          MaxDeliveries,  \* bound: deliveries
          MaxCleanings    \* bound: job rows River deletes

VARIABLES accepted,    \* history: events the sender was told are accepted
          queued,      \* history: events there was a job for
          jobs,        \* job rows: key and event
          deliveries, cleanings

intakeVars == <<accepted, queued, jobs, deliveries, cleanings>>

Init == accepted = {} /\ queued = {} /\ jobs = {} /\ deliveries = 0 /\ cleanings = 0

Doors == {"http", "service"}
NMINames == {"nmi", "mobius"}
NMIHeaders == {"Webhook-Signature", "X-Signature"}
Orders == {"as sent", "other"}

\* Plausible bug: the two names of the gateway are told apart.
CanonicalProviderAsGiven(name) == name

CanonicalProvider(name) == IF name = "nmi" THEN "mobius" ELSE name

\* The identifier, or else a hash of type and body.
ComputeUniqueKey(name, id, type, body) ==
    <<CanonicalProvider(name), IF id # "" THEN id ELSE <<type, body>>>>

\* Plausible bug: the body is not part of the key.
PrepareCCBillByType(e, order) == ComputeUniqueKey("ccbill", "", e.type, "")

\* NormalizeCCBillPayload: the fields of a form are sorted, a JSON body stays as it is.
NormalizeCCBillPayload(body, order) == IF body.form THEN body.text ELSE <<body.text, order>>
PrepareCCBill(e, order) == ComputeUniqueKey("ccbill", "", e.type, NormalizeCCBillPayload(e.body, order))

PrepareStripe(e) == ComputeUniqueKey("stripe", e.id, e.type, e.body)
PrepareNMI(e, name) == ComputeUniqueKey(CanonicalProvider(name), e.id, e.type, e.body)

\* A signature is of now, or its time is out of tolerance, or it is wrong.
Signatures == {"good", "old", "wrong"}
VerifySignature(sig) == sig = "good"

\* The HTTP route looks for the signature under four headers, the service under one.
SignatureFound(door, header) == door = "http" \/ header = "Webhook-Signature"

-----------------------------------------------------------------------------

Deliver == deliveries < MaxDeliveries /\ deliveries' = deliveries + 1

\* Unauthorized, forbidden, or a payload that cannot be read.
Refuse == UNCHANGED <<accepted, queued, jobs>>

\* enqueueWebhookJob, which may fail; the delivery is then not accepted.
EnqueueWebhookJob(e, key) ==
    \/ Refuse
    \/ /\ accepted' = accepted \cup {e}
       /\ IF \E j \in jobs : j.key = key THEN UNCHANGED <<queued, jobs>>
          ELSE /\ jobs' = jobs \cup {[key |-> key, event |-> e]}
               /\ queued' = queued \cup {e}

HandleNMIWebhook(e, door, name, header, sig) ==
    /\ e.prov = "mobius" /\ Deliver
    /\ IF SignatureFound(door, header) /\ VerifySignature(sig) /\ e.id # ""
       THEN EnqueueWebhookJob(e, PrepareNMI(e, name)) ELSE Refuse
    /\ UNCHANGED cleanings

HandleStripeWebhook(e, sig) ==
    /\ e.prov = "stripe" /\ Deliver
    /\ IF VerifySignature(sig) THEN EnqueueWebhookJob(e, PrepareStripe(e)) ELSE Refuse
    /\ UNCHANGED cleanings

\* The sender's address is what vouches for CCBill; a JSON body is always sent alike.
HandleCCBillWebhook(e, order, validIP) ==
    /\ e.prov = "ccbill" /\ Deliver
    /\ e.body.form \/ order = "as sent"
    /\ IF validIP /\ e.type # "" THEN EnqueueWebhookJob(e, PrepareCCBill(e, order)) ELSE Refuse
    /\ UNCHANGED cleanings

\* River deletes the rows of jobs that are done.
CleanJobs(j) == /\ cleanings < MaxCleanings /\ cleanings' = cleanings + 1
                /\ jobs' = jobs \ {j}
                /\ UNCHANGED <<accepted, queued, deliveries>>

Next == \/ \E e \in Occurrences, sig \in Signatures :
             \/ HandleStripeWebhook(e, sig)
             \/ \E door \in Doors, name \in NMINames, header \in NMIHeaders :
                  HandleNMIWebhook(e, door, name, header, sig)
        \/ \E e \in Occurrences, order \in Orders, validIP \in BOOLEAN :
             HandleCCBillWebhook(e, order, validIP)
        \/ \E j \in jobs : CleanJobs(j)

-----------------------------------------------------------------------------

\* However an event comes in again, its deliveries have one key: there are never two jobs
\* of one event at a time.
OneJobPerEvent == \A j, k \in jobs : j.event = k.event => j = k

\* An event the sender was told is accepted was queued as itself: no other event's job was
\* taken for its own.
AcceptedIsQueued == accepted \subseteq queued
=============================================================================
