------------------------------ MODULE Dunning ------------------------------
(* The dunning worker (internal/river/jobs_dunning.go): every four hours a  *)
(* run reads the past due subscriptions of the NMI gateway whose retry is   *)
(* due and, for each, takes the period's idempotency record, claims the row *)
(* for 15 minutes, charges the card and settles the outcome.  The lifecycle *)
(* transactions are those of Lifecycle, here with what they do to a retry.  *)
EXTENDS Naturals

CONSTANTS Subs, Runs,   \* subscriptions; runs that may overlap (a rescued job)
          NMIClients,   \* names of the configured gateway clients
          MaxRetries,   \* attempts after which FailMembership cancels
          MaxFaults     \* bound: crashes, calls and statements that fail

VARIABLES mode,     \* feature_flags.dunning_mode
          row,      \* rows: status, next_retry_at, retry_attempts
          card,     \* subscriptions with a usable payment method
          rec,      \* the idempotency record of the current period
          run,      \* the runs: subscriptions left, the one in hand and where
          charges,  \* charges the gateway made, by subscription
          faults

dunningVars == <<mode, row, card, rec, run, charges, faults>>

IdleRun == [todo |-> {}, pc |-> "idle"]

\* A subscription gets past due by a declined renewal, with its first retry ahead.
Init == /\ mode \in {"on", "dry_run_only", "off"}
        /\ row = [s \in Subs |-> [st |-> "past_due", next |-> "later", tries |-> 1]]
        /\ card \in SUBSET Subs
        /\ rec = [s \in Subs |-> "none"]
        /\ run = [r \in Runs |-> IdleRun]
        /\ charges = [s \in Subs |-> 0]
        /\ faults = 0

Fault == faults < MaxFaults /\ faults' = faults + 1
Goto(r, pc) == run' = [run EXCEPT ![r].pc = pc]
Next1(r, s) == run' = [run EXCEPT ![r] = [todo |-> @.todo \ {s}, pc |-> "next"]]
At(r, s, pc) == run[r].pc = pc /\ run[r].todo # {} /\ s = CHOOSE t \in run[r].todo : TRUE

\* next_retry_at, three days or the lease of 15 minutes ahead, goes by.
Elapse(s) == /\ row[s].next = "later"
             /\ row' = [row EXCEPT ![s].next = "due"]
             /\ UNCHANGED <<mode, card, rec, run, charges, faults>>

\* The idempotency record runs out.
RecordExpires(s) == /\ rec[s] # "none"
                    /\ rec' = [rec EXCEPT ![s] = "none"]
                    /\ UNCHANGED <<mode, row, card, run, charges, faults>>

Due(s) == row[s].st = "past_due" /\ row[s].next = "due"

Work(r) == /\ run[r].pc = "idle"
           /\ mode = "on" /\ NMIClients # {}
           /\ \E s \in Subs : Due(s)
           /\ run' = [run EXCEPT ![r] = [todo |-> {s \in Subs : Due(s)}, pc |-> "next"]]
           /\ UNCHANGED <<mode, row, card, rec, charges, faults>>

Done(r) == /\ run[r].pc = "next" /\ run[r].todo = {}
           /\ run' = [run EXCEPT ![r] = IdleRun]
           /\ UNCHANGED <<mode, row, card, rec, charges, faults>>

-----------------------------------------------------------------------------
(* The name of a subscription's processor.                                 *)

\* The columns are of type models.Processor, a defined type whose underlying type is string.
Processor == [type |-> "Processor", name |-> "mobius"]

\* A type switch on string or *string: a value of any other type is "".
normalizeProcessor(v) == IF v.type = "string" THEN v.name ELSE ""

\* The subscription's processor, or else its payment method's: columns of the same type.
resolveSubscriptionProcessor == normalizeProcessor(Processor)

-----------------------------------------------------------------------------
(* processSubscription.                                                    *)

\* No client of that name: the subscription is skipped.
NoClient(r, s) == /\ At(r, s, "next")
                  /\ resolveSubscriptionProcessor \notin NMIClients
                  /\ Next1(r, s)
                  /\ UNCHANGED <<mode, row, card, rec, charges, faults>>

\* IdempotencyService.Begin: a record that is there and not failed ends the attempt; an
\* error is logged and the attempt goes on without a record.
Begin(r, s) == /\ At(r, s, "next")
               /\ resolveSubscriptionProcessor \in NMIClients
               /\ \/ /\ rec[s] \in {"pending", "success"} /\ Next1(r, s)
                     /\ UNCHANGED <<rec, faults>>
                  \/ /\ rec[s] \in {"none", "failed"} /\ Goto(r, "claim")
                     /\ rec' = [rec EXCEPT ![s] = IF @ = "none" THEN "pending" ELSE @]
                     /\ UNCHANGED faults
                  \/ Fault /\ Goto(r, "claim unrecorded") /\ UNCHANGED rec
               /\ UNCHANGED <<mode, row, card, charges>>

Recorded(r, s, outcome) ==
    rec' = [rec EXCEPT ![s] = IF run[r].pc \in {"claim", "charge", "settle"} THEN outcome ELSE @]
After(r, recorded, unrecorded) ==
    Goto(r, IF run[r].pc \in {"claim", "charge", "settle"} THEN recorded ELSE unrecorded)

\* One UPDATE with the conditions of the query; a claim that finds nothing leaves the
\* record as it is.
claimDunningAttempt(r, s) ==
    /\ At(r, s, "claim") \/ At(r, s, "claim unrecorded")
    /\ \/ /\ Due(s) /\ row' = [row EXCEPT ![s].next = "later"]
          /\ After(r, "charge", "charge unrecorded") /\ UNCHANGED <<rec, faults>>
       \/ ~Due(s) /\ Next1(r, s) /\ UNCHANGED <<row, rec, faults>>
       \/ Fault /\ Next1(r, s) /\ Recorded(r, s, "failed") /\ UNCHANGED row
    /\ UNCHANGED <<mode, card, charges>>

\* FailMembership: another attempt in three days, or the end; its error is logged.
FailMembership(s) ==
    \/ /\ row[s].st = "past_due"
       /\ row' = [row EXCEPT ![s] = IF @.tries + 1 < MaxRetries
                                    THEN [@ EXCEPT !.tries = @ + 1, !.next = "later"]
                                    ELSE [st |-> "cancelled", next |-> "none", tries |-> 0]]
       /\ UNCHANGED faults
    \/ Fault /\ UNCHANGED row

\* No payment method, a request that fails (the charge may have gone through) or a refusal:
\* the record is failed first, then the failure policy is applied.
ChargeFails(r, s) ==
    /\ At(r, s, "charge") \/ At(r, s, "charge unrecorded")
    /\ charges' \in {charges} \cup {[charges EXCEPT ![s] = @ + 1] : c \in {s} \cap card}
    /\ Recorded(r, s, "failed") /\ FailMembership(s) /\ Next1(r, s)
    /\ UNCHANGED <<mode, card>>

AttemptManualRebill(r, s) ==
    /\ At(r, s, "charge") \/ At(r, s, "charge unrecorded")
    /\ s \in card
    /\ charges' = [charges EXCEPT ![s] = @ + 1]
    /\ After(r, "settle", "settle unrecorded")
    /\ UNCHANGED <<mode, row, card, rec, faults>>

\* RenewMembership activates the row for another period, which has no record; when it
\* fails the record of this one is failed although the card was charged.
Settle(r, s) ==
    /\ At(r, s, "settle") \/ At(r, s, "settle unrecorded")
    /\ \/ /\ row' = [row EXCEPT ![s] = [st |-> "active", next |-> "none", tries |-> 0]]
          /\ rec' = [rec EXCEPT ![s] = "none"] /\ UNCHANGED faults
       \/ Fault /\ Recorded(r, s, "failed") /\ UNCHANGED row
    /\ Next1(r, s)
    /\ UNCHANGED <<mode, card, charges>>

\* The process ends; River starts another run.
Crash(r) == /\ run[r].pc # "idle"
            /\ Fault
            /\ run' = [run EXCEPT ![r] = IdleRun]
            /\ UNCHANGED <<mode, row, card, rec, charges>>

processSubscription(r, s) == \/ NoClient(r, s) \/ Begin(r, s) \/ claimDunningAttempt(r, s)
                             \/ ChargeFails(r, s) \/ AttemptManualRebill(r, s) \/ Settle(r, s)

RunStep(r) == Work(r) \/ Done(r) \/ \E s \in Subs : processSubscription(r, s)

Next == \/ \E s \in Subs : Elapse(s) \/ RecordExpires(s)
        \/ \E r \in Runs : RunStep(r) \/ Crash(r)

\* Time passes, and the periodic job runs to its end.
Spec == /\ Init /\ [][Next]_dunningVars
        /\ \A s \in Subs : WF_dunningVars(Elapse(s)) /\ WF_dunningVars(RecordExpires(s))
        /\ \A r \in Runs : WF_dunningVars(RunStep(r))

-----------------------------------------------------------------------------

\* README.md:82, "Normal dunning - retry charges every 3 days, up to 5 attempts, then
\* cancel": with dunning on, a subscription whose retry is due is charged again, or leaves
\* past_due, in the end.
DueIsRetried == \A s \in Subs : mode = "on" /\ Due(s) ~> charges[s] > 0 \/ row[s].st # "past_due"
=============================================================================
