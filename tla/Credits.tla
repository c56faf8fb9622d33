------------------------------ MODULE Credits ------------------------------
(***************************************************************************)
(* Prepaid credits: the CreditsService of internal/modules/credits and the *)
(* two sweepers of internal/river that expire credit blocks and holds.     *)
(*                                                                         *)
(* Every action is one committed database transaction.  A call that        *)
(* returns an error rolls its transaction back and is no step; a call that *)
(* finds its idempotency key already used returns the old row and is no    *)
(* step either.  The transactions lock the balance row and the rows they   *)
(* change, so their statements do not interleave.                          *)
(*                                                                         *)
(* A deposit row of credit_transactions and the credit_blocks row inserted *)
(* with it are one record of blocks; the position in blocks is created_at. *)
(* Withdrawal rows only matter by their sum (withdrawn).                   *)
(***************************************************************************)
EXTENDS Integers, Sequences, FiniteSets, Functions

CONSTANTS Users, CreditTypes,   \* users and rows of billing.credit_types
          Keys, NoKey,          \* (source, source_id) pairs a caller may give; none
          Amounts,              \* amounts a caller may ask for
          MaxTime,              \* bound: the clock runs over 0..MaxTime
          ExpiryTimes,          \* expires_at values callers give to deposits
          HoldTimes,            \* expires_at values callers give to holds
          MaxBlocks, MaxHolds,  \* bounds on the rows created
          BatchSize,            \* rows per sweeper transaction
          Subs, SubUser, CreditsSpec, \* subscriptions: owner, product.credits_spec
          Periods               \* period ends of those subscriptions

ASSUME CreditsAssumption ==
    /\ Amounts \subseteq Nat \ {0}
    /\ MaxTime \in Nat /\ MaxBlocks \in Nat /\ MaxHolds \in Nat
    /\ BatchSize \in Nat \ {0}
    /\ ExpiryTimes \subseteq 0..MaxTime + 1
    /\ HoldTimes \subseteq 0..MaxTime
    /\ NoKey \notin Keys /\ NoKey \notin Subs \X CreditTypes \X Periods
    /\ SubUser \in [Subs -> Users]
    /\ \A s \in Subs : \A g \in CreditsSpec[s] :
          /\ g.ct \in CreditTypes /\ g.amount \in Nat \ {0} /\ g.days \in Nat
          /\ \A h \in CreditsSpec[s] : h.ct = g.ct => h = g  \* a map keyed by type

VARIABLES now,        \* the clock
          isActive,   \* credit_types.is_active
          balance,    \* user_credit_balances.balance
          held,       \* user_credit_balances.held_balance
          blocks,     \* deposits and their credit_blocks, in order of creation
          holds,      \* credit_transactions of type hold, in order of creation
          withdrawn   \* sum of the withdrawal rows of each account

vars == <<now, isActive, balance, held, blocks, holds, withdrawn>>

\* A NULL expires_at sorts last and is never reached.
Never == MaxTime + 1

Account == Users \X CreditTypes
Cadence == {"once", "per_renewal"}
GrantKey == Subs \X CreditTypes \X Periods
DepositKey == Keys \cup GrantKey \cup {NoKey}

Block == [acct: Account, key: DepositKey, original: Nat, remaining: Nat,
          expires: 0..Never]
HoldStatus == {"active", "captured", "released", "expired"}
Hold == [acct: Account, key: Keys, authorized: Nat, captured: Nat,
         expires: 0..MaxTime, status: HoldStatus]

BlocksOf(a) == {i \in 1..Len(blocks) : blocks[i].acct = a}
ActiveHoldsOf(a) ==
    {i \in 1..Len(holds) : holds[i].acct = a /\ holds[i].status = "active"}

\* Columns of the two tables, to sum over.
remaining == [i \in 1..Len(blocks) |-> blocks[i].remaining]
original == [i \in 1..Len(blocks) |-> blocks[i].original]
authorized == [i \in 1..Len(holds) |-> holds[i].authorized]
captured == [i \in 1..Len(holds) |-> holds[i].captured]

Remaining(a) == SumFunctionOnSet(remaining, BlocksOf(a))
Available(a) == balance[a] - held[a]

----------------------------------------------------------------------------
Init ==
    /\ now = 0
    /\ isActive = [ct \in CreditTypes |-> TRUE]
    /\ balance = [a \in Account |-> 0]
    /\ held = [a \in Account |-> 0]
    /\ blocks = <<>>
    /\ holds = <<>>
    /\ withdrawn = [a \in Account |-> 0]

Tick ==
    /\ now < MaxTime
    /\ now' = now + 1
    /\ UNCHANGED <<isActive, balance, held, blocks, holds, withdrawn>>

\* Activate and Deactivate of the credit type service.
SetActive(ct, on) ==
    /\ isActive[ct] # on
    /\ isActive' = [isActive EXCEPT ![ct] = on]
    /\ UNCHANGED <<now, balance, held, blocks, holds, withdrawn>>

----------------------------------------------------------------------------
(* Deposits.                                                               *)

Deposited(a, k) ==
    /\ k # NoKey
    /\ \E i \in 1..Len(blocks) : blocks[i].acct = a /\ blocks[i].key = k

NewBlock(a, k, amt, e) ==
    [acct |-> a, key |-> k, original |-> amt, remaining |-> amt, expires |-> e]

Deposit(a, k, amt, e) ==
    /\ isActive[a[2]]
    /\ Len(blocks) < MaxBlocks
    /\ ~Deposited(a, k)
    /\ balance' = [balance EXCEPT ![a] = @ + amt]
    /\ blocks' = Append(blocks, NewBlock(a, k, amt, e))
    /\ UNCHANGED <<now, isActive, held, holds, withdrawn>>

\* The grants of a product's credits_spec due on a subscription event that
\* the deterministic key (subscription, credit type, period end) still admits.
GrantKeyOf(s, ct, p) == <<s, ct, p>>
\* Mistake: the deterministic key is not looked up.
DueGrantsUnkeyed(s, p, cadence) == {g \in CreditsSpec[s] : g.cadence = cadence}
DueGrants(s, p, cadence) ==
    {g \in CreditsSpec[s] : /\ g.cadence = cadence
                            /\ ~Deposited(<<SubUser[s], g.ct>>, GrantKeyOf(s, g.ct, p))}
GrantedBlocks(s, p, cadence) ==
    LET GrantOf(g) == NewBlock(<<SubUser[s], g.ct>>, GrantKeyOf(s, g.ct, p), g.amount,
                               IF g.days = 0 THEN Never ELSE now + g.days)
    IN  {GrantOf(g) : g \in DueGrants(s, p, cadence)}

\* One transaction deposits every grant; one inactive credit type among the
\* specs of this cadence rolls the whole transaction back.  The specs are a
\* map, so the order of the new rows is arbitrary.
GrantSubscriptionCredits(s, p, cadence) ==
    LET new == GrantedBlocks(s, p, cadence) IN
    /\ \A g \in CreditsSpec[s] : g.cadence = cadence => isActive[g.ct]
    /\ new # {}
    /\ \A g \in DueGrants(s, p, cadence) : now + g.days <= MaxTime
    /\ \E n \in 1..MaxBlocks - Len(blocks) :
          \E f \in Bijection(1..n, new) : blocks' = blocks \o f
    /\ balance' = [a \in Account |->
                     IF \E b \in new : b.acct = a
                     THEN balance[a] + (CHOOSE b \in new : b.acct = a).original
                     ELSE balance[a]]
    /\ UNCHANGED <<now, isActive, held, holds, withdrawn>>

----------------------------------------------------------------------------
(* Spending.                                                               *)

\* Blocks a withdrawal may draw on, and its order: expires_at ascending with
\* NULL last, then created_at.
LiveBlocks(a) ==
    {i \in BlocksOf(a) : blocks[i].remaining > 0 /\ blocks[i].expires > now}
DrawnBefore(i, j) ==
    \/ blocks[i].expires < blocks[j].expires
    \/ blocks[i].expires = blocks[j].expires /\ i < j

\* The loop of withdrawBalanceAndBlocks: a block is touched only when every
\* earlier one is drained, until the amount or the live blocks are used up.
IsDraw(draw, a, amt) ==
    LET live == SumFunctionOnSet(remaining, LiveBlocks(a)) IN
    /\ \A i \in LiveBlocks(a) : draw[i] <= blocks[i].remaining
    /\ \A i, j \in LiveBlocks(a) :
          DrawnBefore(i, j) /\ draw[j] > 0 => draw[i] = blocks[i].remaining
    /\ SumFunctionOnSet(draw, LiveBlocks(a)) = IF live < amt THEN live ELSE amt

\* Mistake: the balance drops only by what the blocks gave.
WithdrawOnlyBlocks(a, amt) ==
    \E draw \in [LiveBlocks(a) -> 0..amt] :
       /\ IsDraw(draw, a, amt)
       /\ balance' = [balance EXCEPT ![a] = @ - SumFunctionOnSet(draw, LiveBlocks(a))]
       /\ blocks' = [i \in 1..Len(blocks) |->
                       IF i \in LiveBlocks(a)
                       THEN [blocks[i] EXCEPT !.remaining = @ - draw[i]]
                       ELSE blocks[i]]

\* The balance drops by the whole amount even when the live blocks do not
\* hold that much (the loop's leftover is not looked at).
WithdrawBalanceAndBlocks(a, amt) ==
    /\ balance' = [balance EXCEPT ![a] = @ - amt]
    /\ \E draw \in [LiveBlocks(a) -> 0..amt] :
          /\ IsDraw(draw, a, amt)
          /\ blocks' = [i \in 1..Len(blocks) |->
                          IF i \in LiveBlocks(a)
                          THEN [blocks[i] EXCEPT !.remaining = @ - draw[i]]
                          ELSE blocks[i]]

\* Mistake: the balance is checked, not what is available.
WithdrawFromBalance(a, amt) ==
    /\ isActive[a[2]]
    /\ balance[a] >= amt
    /\ WithdrawBalanceAndBlocks(a, amt)
    /\ withdrawn' = [withdrawn EXCEPT ![a] = @ + amt]
    /\ UNCHANGED <<now, isActive, held, holds>>

\* The withdrawal and its row.
WithdrawTx(a, amt) ==
    /\ Available(a) >= amt
    /\ WithdrawBalanceAndBlocks(a, amt)
    /\ withdrawn' = [withdrawn EXCEPT ![a] = @ + amt]

Withdraw(a, amt) ==
    /\ isActive[a[2]]
    /\ WithdrawTx(a, amt)
    /\ UNCHANGED <<now, isActive, held, holds>>

----------------------------------------------------------------------------
(* Holds.                                                                  *)

HoldExists(a, k) ==
    \E i \in 1..Len(holds) : holds[i].acct = a /\ holds[i].key = k

PlaceHold(a, k, amt, e) ==
    /\ isActive[a[2]]
    /\ Len(holds) < MaxHolds
    /\ ~HoldExists(a, k)
    /\ Available(a) >= amt
    /\ held' = [held EXCEPT ![a] = @ + amt]
    /\ holds' = Append(holds, [acct |-> a, key |-> k, authorized |-> amt,
                               captured |-> 0, expires |-> e, status |-> "active"])
    /\ UNCHANGED <<now, isActive, balance, blocks, withdrawn>>

\* Mistake: a capture gives back only what it takes.
CaptureHoldPartly(i, amt) ==
    LET h == holds[i]
        a == h.acct
    IN  /\ h.status = "active"
        /\ amt <= h.authorized
        /\ held' = [held EXCEPT ![a] = @ - amt]
        /\ WithdrawBalanceAndBlocks(a, amt)
        /\ holds' = [holds EXCEPT ![i] =
                        [@ EXCEPT !.status = "captured", !.captured = amt]]
        /\ UNCHANGED <<now, isActive, withdrawn>>

\* held_balance gives the whole authorization back before the amount is
\* withdrawn, so the withdrawal may use the reservation.  Neither the credit
\* type's is_active nor the hold's expires_at is looked at.
CaptureHold(i, amt) ==
    LET h == holds[i]
        a == h.acct
    IN  /\ h.status = "active"
        /\ amt <= h.authorized
        /\ Available(a) + h.authorized >= amt
        /\ held' = [held EXCEPT ![a] = @ - h.authorized]
        /\ WithdrawBalanceAndBlocks(a, amt)
        /\ holds' = [holds EXCEPT ![i] =
                        [@ EXCEPT !.status = "captured", !.captured = amt]]
        /\ UNCHANGED <<now, isActive, withdrawn>>

\* Mistake: a hold is released whatever its status.
ReleaseHoldAgain(i) ==
    /\ held' = [held EXCEPT ![holds[i].acct] = @ - holds[i].authorized]
    /\ holds' = [holds EXCEPT ![i].status = "released"]
    /\ UNCHANGED <<now, isActive, balance, blocks, withdrawn>>

ReleaseHold(i) ==
    /\ holds[i].status = "active"
    /\ held' = [held EXCEPT ![holds[i].acct] = @ - holds[i].authorized]
    /\ holds' = [holds EXCEPT ![i].status = "released"]
    /\ UNCHANGED <<now, isActive, balance, blocks, withdrawn>>

----------------------------------------------------------------------------
(* Sweepers.  A batch is the earliest BatchSize of the due rows that no    *)
(* other transaction has locked (SKIP LOCKED), so any few of the due rows. *)
(* The job reads the clock once, before its first batch, so a batch may    *)
(* work with any earlier time t.                                           *)

IsBatch(B, due) == B # {} /\ B \subseteq due /\ Cardinality(B) <= BatchSize

ExpiredBlocks(t) ==
    {i \in 1..Len(blocks) : blocks[i].remaining > 0 /\ blocks[i].expires <= t}

\* Mistake: the difference is not clamped.
AfterExpiryUnclamped(bal, amt) == bal - amt

\* A sweep never takes a balance below zero.
AfterExpiry(bal, amt) == IF bal < amt THEN 0 ELSE bal - amt

\* Mistake: the batch is charged to the balance, its blocks stay as they are.
CreditExpiryBatchBalanceOnly(t) ==
    \E B \in SUBSET ExpiredBlocks(t) :
       /\ IsBatch(B, ExpiredBlocks(t))
       /\ balance' = [a \in Account |->
                        AfterExpiry(balance[a],
                          SumFunctionOnSet(remaining, B \cap BlocksOf(a)))]
       /\ UNCHANGED <<now, isActive, held, holds, blocks, withdrawn>>

CreditExpiryBatch(t) ==
    \E B \in SUBSET ExpiredBlocks(t) :
       /\ IsBatch(B, ExpiredBlocks(t))
       /\ blocks' = [i \in 1..Len(blocks) |->
                       IF i \in B THEN [blocks[i] EXCEPT !.remaining = 0]
                       ELSE blocks[i]]
       /\ balance' = [a \in Account |->
                        AfterExpiry(balance[a],
                          SumFunctionOnSet(remaining, B \cap BlocksOf(a)))]
       /\ UNCHANGED <<now, isActive, held, holds, withdrawn>>

ExpiredHolds(t) ==
    {i \in 1..Len(holds) : holds[i].status = "active" /\ holds[i].expires <= t}

\* Mistake: the reservation is given back, the hold's status stays.
HoldExpiryBatchHeldOnly(t) ==
    \E B \in SUBSET ExpiredHolds(t) :
       /\ IsBatch(B, ExpiredHolds(t))
       /\ held' = [a \in Account |->
                     AfterExpiry(held[a],
                       SumFunctionOnSet(authorized, B \cap ActiveHoldsOf(a)))]
       /\ UNCHANGED <<now, isActive, balance, blocks, holds, withdrawn>>

HoldExpiryBatch(t) ==
    \E B \in SUBSET ExpiredHolds(t) :
       /\ IsBatch(B, ExpiredHolds(t))
       /\ holds' = [i \in 1..Len(holds) |->
                      IF i \in B THEN [holds[i] EXCEPT !.status = "expired"]
                      ELSE holds[i]]
       /\ held' = [a \in Account |->
                     AfterExpiry(held[a],
                       SumFunctionOnSet(authorized, B \cap ActiveHoldsOf(a)))]
       /\ UNCHANGED <<now, isActive, balance, blocks, withdrawn>>

CreditExpiryWorker == \E t \in 0..now : CreditExpiryBatch(t)
HoldExpiryWorker == \E t \in 0..now : HoldExpiryBatch(t)

----------------------------------------------------------------------------
Next ==
    \/ Tick
    \/ \E ct \in CreditTypes, on \in BOOLEAN : SetActive(ct, on)
    \/ \E a \in Account, k \in Keys \cup {NoKey}, amt \in Amounts, e \in ExpiryTimes :
          Deposit(a, k, amt, e)
    \/ \E s \in Subs, p \in Periods, cadence \in Cadence :
          GrantSubscriptionCredits(s, p, cadence)
    \/ \E a \in Account, amt \in Amounts : Withdraw(a, amt)
    \/ \E a \in Account, k \in Keys, amt \in Amounts, e \in HoldTimes :
          PlaceHold(a, k, amt, e)
    \/ \E i \in 1..Len(holds), amt \in Amounts : CaptureHold(i, amt)
    \/ \E i \in 1..Len(holds) : ReleaseHold(i)
    \/ CreditExpiryWorker
    \/ HoldExpiryWorker

\* River runs both sweepers periodically, and a failed job is retried.  (Not
\* so with feature_flags.disable_entitlement_expiration, which skips them.)
Fairness == WF_vars(CreditExpiryWorker) /\ WF_vars(HoldExpiryWorker)

Spec == Init /\ [][Next]_vars
FairSpec == Spec /\ Fairness

----------------------------------------------------------------------------
(* Properties.                                                             *)

\* Credit types, deposits with their blocks, and holds have the shape their
\* Go models declare; in particular no block is ever overdrawn.
RowsTypeOK ==
    /\ now \in 0..MaxTime
    /\ isActive \in [CreditTypes -> BOOLEAN]
    /\ blocks \in Seq(Block)
    /\ holds \in Seq(Hold)

\* Every table row has the shape its Go model declares.
TypeOK ==
    /\ RowsTypeOK
    /\ balance \in [Account -> Int]
    /\ held \in [Account -> Int]
    /\ withdrawn \in [Account -> Int]

\* held_balance is exactly what the active holds authorize: capture, release
\* and the hold sweeper each give a reservation back once and only once, so
\* the "shouldn't happen" clamp of HoldExpiryWorker is never needed.
HeldIsActiveHolds ==
    \A a \in Account :
       held[a] = SumFunctionOnSet(authorized, ActiveHoldsOf(a))

\* The spendable balance is never negative and never exceeds what is left in
\* the account's credit blocks, whatever the order of withdrawals, captures
\* and (clamped) expiry sweeps.
BalanceBacked ==
    \A a \in Account : 0 <= balance[a] /\ balance[a] <= Remaining(a)

\* No credit is created: what an account has withdrawn, captured and still
\* has never exceeds what was deposited into it.
NoCreditCreated ==
    \A a \in Account :
       withdrawn[a] + balance[a]
         + SumFunctionOnSet(captured, {i \in 1..Len(holds) : holds[i].acct = a})
       <= SumFunctionOnSet(original, BlocksOf(a))

\* A deposit key and a subscription grant key are honoured at most once per
\* account, however often the webhook or the caller retries.
DepositsIdempotent ==
    \A i, j \in 1..Len(blocks) :
       /\ blocks[i].acct = blocks[j].acct
       /\ blocks[i].key = blocks[j].key
       /\ blocks[i].key # NoKey
       => i = j

\* A capture takes between one credit and the authorization, and only a
\* captured hold has a captured amount.
CaptureWithinAuthorization ==
    \A i \in 1..Len(holds) :
       /\ holds[i].captured <= holds[i].authorized
       /\ holds[i].status = "captured" <=> holds[i].captured > 0

\* A hold leaves "active" at most once, whichever of capture, release and the
\* sweeper comes first, and its authorization never changes.
HoldsOnlyEnd ==
    \A i \in 1..Len(holds) :
       /\ i <= Len(holds')
       /\ holds'[i].authorized = holds[i].authorized
       /\ holds[i].status # "active" => holds'[i] = holds[i]
HoldLifecycle == [][HoldsOnlyEnd]_vars

\* While none of an account's blocks expires, a hold is a real reservation:
\* withdrawals and other captures leave every active hold covered, so its
\* capture succeeds.
HoldsCovered ==
    \A a \in Account :
       (\A i \in BlocksOf(a) : blocks[i].expires = Never) => held[a] <= balance[a]

\* A hold nobody captures or releases is given back by the sweeper once its
\* expires_at has passed.
ExpiredHoldsReturned ==
    \A i \in 1..MaxHolds :
       (i <= Len(holds) /\ i \in ExpiredHolds(now)) ~> (i \notin ExpiredHolds(now))

\* A block past its expires_at is eventually swept to zero.
ExpiredBlocksSwept ==
    \A i \in 1..MaxBlocks :
       (i <= Len(blocks) /\ i \in ExpiredBlocks(now)) ~> (i \notin ExpiredBlocks(now))

============================================================================
