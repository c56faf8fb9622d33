----------------------------- MODULE SolanaPay -----------------------------
(***************************************************************************)
(* Solana checkout sessions: CheckoutSessionService creates, reads, builds *)
(* transactions for and confirms sessions, SolanaPayService keeps pending  *)
(* payments in Redis, SolanaPayPoller looks for them on the chain, and     *)
(* both the poller and ConfirmSession call RegisterPurchase.               *)
(*                                                                         *)
(* A session row is read and later written back with all its columns, with *)
(* no lock and no transaction, so those are two steps.  A worker is an     *)
(* HTTP request or a pass of the poller over one reference; several        *)
(* instances of the service may run.  Each Postgres statement and each     *)
(* Redis update of the code is a step, except that creating a session is   *)
(* one: nobody knows the session or its reference before it returns.       *)
(*                                                                         *)
(* Time is left out: a session's expires_at, and the TTL of a Redis key,   *)
(* may pass at any moment.                                                 *)
(***************************************************************************)
EXTENDS Integers, FiniteSets

CONSTANTS Sessions, Refs, Sigs,  \* ids, reference keys, transaction signatures
          Wallets,
          Tokens, SOL,           \* token mints; the native one, counted in lamports
          TokenOf,               \* token_symbol of each session
          Quotes,                \* token amounts the price may be quoted at
          Amounts,               \* token amounts wallets send
          SigLimit,              \* signatures the poller asks for (10)
          Verifier,              \* is there a SolanaTransactionService?
          Workers,
          None,
          MaxFaults              \* bound on crashes and failed calls

ASSUME SolanaPayAssumption ==
    /\ Quotes \subseteq Nat \ {0} /\ Amounts \subseteq Nat \ {0}
    /\ SOL \in Tokens /\ TokenOf \in [Sessions -> Tokens]
    /\ SigLimit \in Nat \ {0} /\ Verifier \in BOOLEAN
    /\ None \notin Sessions \cup Refs \cup Sigs \cup Wallets
    /\ MaxFaults \in Nat

VARIABLES session,     \* rows of billing.checkout_sessions
          pending,     \* solana_pay:<reference>
          pendingSet,  \* pending_solana_payments
          consumed,    \* solana_pay_consumed:<reference>: the transaction
          payments,    \* rows of billing.payments of processor solana, by signature
          granted,     \* payments whose entitlements were pushed
          chain,       \* finalized transactions
          proc,        \* the workers
          offers,      \* history: the reference and amount quoted for a session
          faults       \* crashes and failed calls so far

redis == <<pending, pendingSet, consumed>>
vars == <<session, redis, payments, granted, chain, proc, offers, faults>>

Flow == {"transfer_request", "transaction_request"}
Status == {"requires_action", "succeeded", "failed", "expired"}
\* Flow None: creating the session failed before the token was stored.
Row == [status: Status, flow: Flow \cup {None}, ref: Refs \cup {None}, amount: Quotes,
        payer: Wallets \cup {None}, txn: Sigs \cup {None}, lapsed: BOOLEAN]
Pending == [sess: Sessions, amount: Quotes]
\* Earlier: the transactions on the chain before this one.
Transaction == [refs: SUBSET Refs, token: Tokens, amount: Amounts, payer: Wallets,
                earlier: SUBSET Sigs]
\* The metadata of a payment; None, None when ConfirmSession recorded it.
Payment == [ref: Refs \cup {None}, sess: Sessions \cup {None}]
Offer == [sess: Sessions, ref: Refs, amount: Quotes]
ASSUME NoneIsNothing == None \notin Row \cup Pending \cup Transaction \cup Payment \cup Flow

Idle == [pc |-> "idle"]
Expiring == [pc: {"expire"}, sess: Sessions, row: Row]
Building == [pc: {"build"}, sess: Sessions, row: Row]
\* By is who settles a payment: a request to confirm, or the poller, which
\* goes by the pending payment it read.
Settling == [pc: {"register", "grant", "mark", "finalize"}, by: {"confirm", "poller"},
             sess: Sessions, ref: Refs, sig: Sigs]
Saving == [pc: {"save"}, by: {"confirm", "poller"},
           sess: Sessions, ref: Refs, sig: Sigs, row: Row]

TypeOK ==
    /\ session \in [Sessions -> Row \cup {None}]
    /\ pending \in [Refs -> Pending \cup {None}] /\ pendingSet \subseteq Refs
    /\ consumed \in [Refs -> Sigs \cup {None}]
    /\ payments \in [Sigs -> Payment \cup {None}] /\ granted \subseteq Sigs
    /\ chain \in [Sigs -> Transaction \cup {None}]
    /\ proc \in [Workers -> {Idle} \cup Expiring \cup Building \cup Settling \cup Saving]
    /\ offers \subseteq Offer
    /\ faults \in 0..MaxFaults

Init ==
    /\ session = [s \in Sessions |-> None]
    /\ pending = [r \in Refs |-> None] /\ pendingSet = {}
    /\ consumed = [r \in Refs |-> None]
    /\ payments = [g \in Sigs |-> None] /\ granted = {}
    /\ chain = [g \in Sigs |-> None]
    /\ proc = [w \in Workers |-> Idle]
    /\ offers = {}
    /\ faults = 0

Idling(w) == proc[w] = Idle
Become(w, p) == proc' = [proc EXCEPT ![w] = p]
At(w, pc) == proc[w].pc = pc
Goto(w, pc) == Become(w, [proc[w] EXCEPT !.pc = pc])
Terminal(status) == status \in {"succeeded", "failed", "expired"}

----------------------------------------------------------------------------
(* The world: a wallet sends a transaction, time passes.                   *)

FreshRef(r) ==
    /\ \A o \in offers : o.ref # r
    /\ \A w \in Workers : At(w, "build") => proc[w].row.ref # r

\* Whoever knows references may put any of them into one transaction, of
\* whatever token.
Send(g, refs, token, amount, payer) ==
    /\ chain[g] = None
    /\ refs # {} /\ \A r \in refs : ~FreshRef(r)
    /\ chain' = [chain EXCEPT ![g] = [refs |-> refs, token |-> token, amount |-> amount,
                                      payer |-> payer, earlier |-> {h \in Sigs : chain[h] # None}]]
    /\ UNCHANGED <<session, redis, payments, granted, proc, offers, faults>>

Lapse(s) ==
    /\ session[s] # None /\ ~session[s].lapsed
    /\ session' = [session EXCEPT ![s].lapsed = TRUE]
    /\ UNCHANGED <<redis, payments, granted, chain, proc, offers, faults>>

ExpirePending(r) ==
    /\ pending[r] # None
    /\ pending' = [pending EXCEPT ![r] = None]
    /\ UNCHANGED <<session, pendingSet, consumed, payments, granted, chain, proc, offers, faults>>

\* A crash, or a call that returns an error: the worker gives up.  A failed
\* call of the poller is tried again when its back-off is over.
Fault(w) ==
    /\ ~Idling(w)
    /\ faults < MaxFaults
    /\ faults' = faults + 1
    /\ Become(w, Idle)
    /\ UNCHANGED <<session, redis, payments, granted, chain, offers>>

----------------------------------------------------------------------------
(* CreateSession: the row, and for a transfer request the pending payment. *)

NewRow(flow, ref, amount) ==
    [status |-> "requires_action", flow |-> flow, ref |-> ref, amount |-> amount,
     payer |-> None, txn |-> None, lapsed |-> FALSE]

\* storePendingPayment: the payment under its own key, the reference in the set.
StorePendingPayment(s, r, q) ==
    /\ pending' = [pending EXCEPT ![r] = [sess |-> s, amount |-> q]]
    /\ pendingSet' = pendingSet \cup {r}

\* The URL that asks a wallet for q tokens and lists r.
HandOut(s, r, q) == offers' = offers \cup {[sess |-> s, ref |-> r, amount |-> q]}

GeneratePayment(s, r, q) ==
    /\ session[s] = None
    /\ FreshRef(r)
    /\ session' = [session EXCEPT ![s] = NewRow("transfer_request", r, q)]
    /\ StorePendingPayment(s, r, q)
    /\ HandOut(s, r, q)
    /\ UNCHANGED <<consumed, payments, granted, chain, proc, faults>>

\* The reference of a transaction request comes with the first transaction.
InitializeTransactionRequest(s, q) ==
    /\ session[s] = None
    /\ session' = [session EXCEPT ![s] = NewRow("transaction_request", None, q)]
    /\ UNCHANGED <<redis, payments, granted, chain, proc, offers, faults>>

\* The purchase is not eligible, or a quote or a store fails: MarkFailed marks
\* the row that was inserted, which has neither flow nor token yet.
CreateFails(s, q) ==
    /\ session[s] = None
    /\ session' = [session EXCEPT ![s] = [NewRow(None, None, q) EXCEPT !.status = "failed"]]
    /\ UNCHANGED <<redis, payments, granted, chain, proc, offers, faults>>

----------------------------------------------------------------------------
(* GetSession, and a confirmation that comes too late, mark a session      *)
(* expired.                                                                *)

GetSession(w, s) ==
    /\ Idling(w)
    /\ session[s] # None /\ session[s].lapsed /\ ~Terminal(session[s].status)
    /\ Become(w, [pc |-> "expire", sess |-> s, row |-> session[s]])
    /\ UNCHANGED <<session, redis, payments, granted, chain, offers, faults>>

MarkExpired(w) ==
    /\ At(w, "expire")
    /\ session' = [session EXCEPT ![proc[w].sess] = [proc[w].row EXCEPT !.status = "expired"]]
    /\ Become(w, Idle)
    /\ UNCHANGED <<redis, payments, granted, chain, offers, faults>>

----------------------------------------------------------------------------
(* POST /v1/checkout/:id/solana-pay, for any session that is neither       *)
(* succeeded nor past expires_at.  Without a SolanaTransactionService it   *)
(* is refused.                                                             *)

\* BuildPaymentTransaction and setSolanaQuoteState: the price is quoted anew.
Quoted(row, r, q, wallet) == [row EXCEPT !.ref = r, !.payer = wallet, !.amount = q]

BuildSolanaPayTransaction(w, s, r, q, wallet) ==
    /\ Idling(w) /\ Verifier
    /\ session[s] # None /\ ~session[s].lapsed /\ session[s].status # "succeeded"
    /\ session[s].flow # None
    /\ IF session[s].ref = None THEN FreshRef(r) ELSE r = session[s].ref
    /\ Become(w, [pc |-> "build", sess |-> s, row |-> Quoted(session[s], r, q, wallet)])
    /\ UNCHANGED <<session, redis, payments, granted, chain, offers, faults>>

\* The unsigned transaction asks for the amount the row has now and lists its
\* reference.
BuildTransferTransaction(s, row) == HandOut(s, row.ref, row.amount)

BuildSave(w) ==
    LET s == proc[w].sess
        row == proc[w].row
    IN  /\ At(w, "build")
        /\ session' = [session EXCEPT ![s] = row]
        /\ BuildTransferTransaction(s, row)
        /\ Become(w, Idle)
        /\ UNCHANGED <<redis, payments, granted, chain, faults>>

----------------------------------------------------------------------------
(* VerifyTransfer.                                                         *)

\* fetchConfirmedTransaction: the signature is confirmed, without an error.
Confirmed(g) == chain[g] # None

\* A transfer of lamports: at least the amount, whatever token is expected.
EvaluateSystemTransfer(g, amount) == chain[g].token = SOL /\ chain[g].amount >= amount

\* A transfer of tokens: at least the amount, of the expected mint.
EvaluateTokenTransfer(g, token, amount) == chain[g].token = token /\ chain[g].amount >= amount

\* An instruction to the merchant's account covers the amount and, if a payer
\* is expected, is authorized by it.
FindTransferMatch(g, token, amount, payer) ==
    /\ EvaluateSystemTransfer(g, amount) \/ EvaluateTokenTransfer(g, token, amount)
    /\ payer # None => chain[g].payer = payer

\* The message lists the reference among its accounts.
MessageContainsKey(g, ref) == ref \in chain[g].refs

\* The receiving account has gained the amount, of lamports or of tokens.
VerifyBalanceChanges(g, amount) == chain[g].amount >= amount

\* Mistake: what the transaction moves is not looked at.
VerifyTransferByReference(g, ref, token, amount, payer) ==
    Confirmed(g) /\ MessageContainsKey(g, ref)

VerifyTransfer(g, ref, token, amount, payer) ==
    /\ Confirmed(g) /\ MessageContainsKey(g, ref)
    /\ FindTransferMatch(g, token, amount, payer) /\ VerifyBalanceChanges(g, amount)

\* SolanaTransactionService's: an amount and a reference are needed.
VerifyTransactionWithContent(g, ref, token, amount, payer) ==
    Verifier /\ amount > 0 /\ ref # None /\ VerifyTransfer(g, ref, token, amount, payer)

----------------------------------------------------------------------------
(* Settling: ConfirmSession and the poller.                                *)

\* Mistake: a payment with the signature is good enough.
MatchesAny(g, ref, s) == TRUE

\* The newest SigLimit transactions that name the reference.
SignaturesFor(r) ==
    LET named == {g \in Sigs : chain[g] # None /\ r \in chain[g].refs}
    IN  {g \in named : Cardinality({h \in named : g \in chain[h].earlier}) < SigLimit}

\* The poller's verifyPayment: the pending payment, from any wallet.  With no
\* SolanaTransactionService it goes by the reference alone.
VerifyPayment(g, r) ==
    Verifier => VerifyTransactionWithContent(g, r, TokenOf[pending[r].sess], pending[r].amount, None)

\* solanaPaymentMatchesPending, on the payment recorded for g.
MatchesPending(g, ref, s) == payments[g].ref = ref /\ payments[g].sess = s

Settle(w, by, s, ref, g, pc) ==
    Become(w, [pc |-> pc, by |-> by, sess |-> s, ref |-> ref, sig |-> g])

\* Not for a session that failed, nor once expires_at has passed.
ConfirmSession(w, s, g) ==
    LET row == session[s] IN
    /\ Idling(w)
    /\ row # None /\ row.status \notin {"succeeded", "failed"} /\ ~row.lapsed
    /\ row.ref # None
    /\ VerifyTransactionWithContent(g, row.ref, TokenOf[s], row.amount, row.payer)
    /\ Settle(w, "confirm", s, row.ref, g, "register")
    /\ UNCHANGED <<session, redis, payments, granted, chain, offers, faults>>

\* A session that already succeeded has its reference finalized again.
ConfirmSucceeded(w, s) ==
    LET row == session[s] IN
    /\ Idling(w)
    /\ row # None /\ row.status = "succeeded"
    /\ row.flow = "transfer_request" /\ row.ref # None
    /\ Settle(w, "confirm", s, row.ref, row.txn, "finalize")
    /\ UNCHANGED <<session, redis, payments, granted, chain, offers, faults>>

\* Mistake: a session that has expired is not looked for.
CheckPaymentUnexpired(w, r, g) ==
    /\ Idling(w)
    /\ r \in pendingSet /\ consumed[r] = None /\ pending[r] # None
    /\ session[pending[r].sess].status # "expired"
    /\ g \in SignaturesFor(r) /\ VerifyPayment(g, r)
    /\ Settle(w, "poller", pending[r].sess, r, g,
              IF payments[g] = None THEN "register" ELSE "finalize")
    /\ UNCHANGED <<session, redis, payments, granted, chain, offers, faults>>

\* checkPayment of a reference in the set, up to the look for a payment with
\* the signature found: the newest that verifies, or an older one when
\* processing a newer one failed.
CheckPayment(w, r, g) ==
    /\ Idling(w)
    /\ r \in pendingSet /\ consumed[r] = None /\ pending[r] # None
    /\ g \in SignaturesFor(r) /\ VerifyPayment(g, r)
    /\ LET s == pending[r].sess IN
       Settle(w, "poller", s, r, g,
              IF payments[g] = None THEN "register"
              ELSE IF MatchesPending(g, r, s) THEN "mark" ELSE "finalize")
    /\ UNCHANGED <<session, redis, payments, granted, chain, offers, faults>>

\* RemovePendingPayment: the poller drops a reference that is consumed, or whose payment expired.
ClearReference(r) ==
    /\ r \in pendingSet /\ (consumed[r] # None \/ pending[r] = None)
    /\ pendingSet' = pendingSet \ {r}
    /\ pending' = [pending EXCEPT ![r] = None]
    /\ UNCHANGED <<session, consumed, payments, granted, chain, proc, offers, faults>>

\* Mistake: a failed insert is taken for a recorded payment.
RegisterPurchaseUnchecked(w) ==
    /\ At(w, "register")
    /\ Goto(w, "grant")
    /\ UNCHANGED <<session, redis, payments, granted, chain, offers, faults>>

\* RegisterPurchase inserts the payment.  The poller's carries the reference
\* and the session.  A second row with the signature is refused: the poller
\* then treats the first as its own if it matches.
RegisterPurchase(w) ==
    LET p == proc[w] IN
    /\ At(w, "register")
    /\ payments[p.sig] = None
    /\ payments' = [payments EXCEPT ![p.sig] =
                      IF p.by = "poller" THEN [ref |-> p.ref, sess |-> p.sess]
                      ELSE [ref |-> None, sess |-> None]]
    /\ Goto(w, "grant")
    /\ UNCHANGED <<session, redis, granted, chain, offers, faults>>

RegisterDuplicate(w) ==
    LET p == proc[w] IN
    /\ At(w, "register")
    /\ payments[p.sig] # None
    /\ IF p.by = "confirm" THEN Become(w, Idle)
       ELSE Goto(w, IF MatchesPending(p.sig, p.ref, p.sess) THEN "mark" ELSE "finalize")
    /\ UNCHANGED <<session, redis, payments, granted, chain, offers, faults>>

\* A failure to grant is logged.
GrantProductEntitlements(w) ==
    /\ At(w, "grant")
    /\ granted' = granted \cup {proc[w].sig}
    /\ Goto(w, "mark")
    /\ UNCHANGED <<session, redis, payments, chain, offers, faults>>

GrantFails(w) ==
    /\ At(w, "grant")
    /\ faults < MaxFaults
    /\ faults' = faults + 1
    /\ Goto(w, "mark")
    /\ UNCHANGED <<session, redis, payments, granted, chain, offers>>

\* MarkSucceeded reads the row again.  A failed session stays failed: the
\* request returns the conflict, the poller only logs it.
MarkSucceeded(w) ==
    LET p == proc[w]
        row == session[p.sess]
    IN  /\ At(w, "mark")
        /\ CASE row.status = "succeeded" -> Goto(w, "finalize")
             [] row.status = "failed" ->
                  IF p.by = "confirm" THEN Become(w, Idle) ELSE Goto(w, "finalize")
             [] OTHER -> Become(w, [pc |-> "save", by |-> p.by, sess |-> p.sess,
                                    ref |-> p.ref, sig |-> p.sig, row |-> row])
        /\ UNCHANGED <<session, redis, payments, granted, chain, offers, faults>>

\* The poller only logs an error of MarkSucceeded.
MarkFails(w) ==
    /\ At(w, "mark") /\ proc[w].by = "poller"
    /\ faults < MaxFaults
    /\ faults' = faults + 1
    /\ Goto(w, "finalize")
    /\ UNCHANGED <<session, redis, payments, granted, chain, offers>>

\* checkout_sessions_processor_transaction_id_idx refuses the transaction of
\* another session: the request fails, the poller logs it.
MarkSave(w) ==
    LET p == proc[w]
        taken == \E s \in Sessions \ {p.sess} : session[s] # None /\ session[s].txn = p.sig
    IN  /\ At(w, "save")
        /\ session' = IF taken THEN session
                      ELSE [session EXCEPT ![p.sess] =
                              [p.row EXCEPT !.status = "succeeded", !.txn = p.sig]]
        /\ IF taken /\ p.by = "confirm" THEN Become(w, Idle)
           ELSE Settle(w, p.by, p.sess, p.ref, p.sig, "finalize")
        /\ UNCHANGED <<redis, payments, granted, chain, offers, faults>>

\* ConsumeAndRemovePending: SETNX of the marker, then the pending payment goes.
ConsumeAndRemovePending(w) ==
    LET r == proc[w].ref IN
    /\ consumed' = IF consumed[r] = None THEN [consumed EXCEPT ![r] = proc[w].sig] ELSE consumed
    /\ pendingSet' = pendingSet \ {r}
    /\ pending' = [pending EXCEPT ![r] = None]

\* finalizeSolanaTransferReference leaves a transaction request alone.
Finalize(w) ==
    LET p == proc[w] IN
    /\ At(w, "finalize")
    /\ IF p.by = "poller" \/ session[p.sess].flow = "transfer_request"
       THEN ConsumeAndRemovePending(w) ELSE UNCHANGED redis
    /\ Become(w, Idle)
    /\ UNCHANGED <<session, payments, granted, chain, offers, faults>>

Settlement(w) ==
    \/ RegisterPurchase(w) \/ RegisterDuplicate(w)
    \/ GrantProductEntitlements(w) \/ GrantFails(w)
    \/ MarkSucceeded(w) \/ MarkFails(w) \/ MarkSave(w) \/ Finalize(w)

Next ==
    \/ \E g \in Sigs, refs \in SUBSET Refs, k \in Tokens, a \in Amounts, p \in Wallets :
          Send(g, refs, k, a, p)
    \/ \E s \in Sessions : Lapse(s)
    \/ \E r \in Refs : ExpirePending(r) \/ ClearReference(r)
    \/ \E s \in Sessions, r \in Refs, q \in Quotes : GeneratePayment(s, r, q)
    \/ \E s \in Sessions, q \in Quotes :
          \/ InitializeTransactionRequest(s, q)
          \/ CreateFails(s, q)
    \/ \E w \in Workers :
          \/ Fault(w)
          \/ MarkExpired(w) \/ BuildSave(w) \/ Settlement(w)
          \/ \E s \in Sessions :
                \/ GetSession(w, s) \/ ConfirmSucceeded(w, s)
                \/ \E g \in Sigs : ConfirmSession(w, s, g)
                \/ \E r \in Refs, q \in Quotes, p \in Wallets :
                      BuildSolanaPayTransaction(w, s, r, q, p)
          \/ \E r \in Refs, g \in Sigs : CheckPayment(w, r, g)

\* Requests run to their end; the poller's ticker never stops, and looks at
\* every reference and signature in turn.
Fairness ==
    /\ \A w \in Workers :
          /\ WF_vars(MarkExpired(w) \/ BuildSave(w) \/ Settlement(w))
          /\ SF_vars(\E r \in Refs, g \in Sigs : CheckPayment(w, r, g))
    /\ \A r \in Refs : WF_vars(ClearReference(r))

Spec == Init /\ [][Next]_vars /\ Fairness

----------------------------------------------------------------------------
\* solanaPaymentMatchesPending, "Solana signature already belongs to a
\* different pending payment; not marking checkout succeeded": one transfer
\* may name the references of two sessions, and the poller that recorded it
\* may crash before it marks its session; no session succeeds by a payment the
\* poller recorded for another one.
SucceededByOwnPayment ==
    \A s \in Sessions : session[s] # None /\ session[s].status = "succeeded" =>
       LET p == payments[session[s].txn] IN p # None => p.sess \in {s, None}

\* A session that succeeded was paid: the transaction it names is recorded,
\* is on the chain, and pays an amount quoted for a reference of the session,
\* whatever rebuilt transactions made of the row in the meantime.  It is that
\* many units of the session's token or, since the mint of a system transfer
\* is not looked at, of lamports.
SucceededIsPaid ==
    \A s \in Sessions : session[s] # None /\ session[s].status = "succeeded" =>
       LET g == session[s].txn IN
       /\ g # None /\ payments[g] # None
       /\ \E o \in offers :
             /\ o.sess = s /\ o.ref \in chain[g].refs /\ chain[g].amount >= o.amount
             /\ chain[g].token \in {TokenOf[s], SOL}

\* A reference is taken off the poller's list for good only for a transfer
\* that names it and is recorded as a payment.
ConsumedIsRecorded ==
    \A r \in Refs : consumed[r] # None =>
       payments[consumed[r]] # None /\ r \in chain[consumed[r]].refs

\* A transfer that pays a pending reference is settled: sooner or later the
\* reference is consumed or its pending payment has run out, even if crashes
\* and failed calls come in between, unless newer transactions with the
\* reference have pushed it off the list the poller asks for.
PaidIsSettled ==
    \A r \in Refs, g \in Sigs :
       r \in pendingSet /\ pending[r] # None /\ g \in SignaturesFor(r) /\ VerifyPayment(g, r)
       ~> consumed[r] # None \/ pending[r] = None \/ g \notin SignaturesFor(r)

----------------------------------------------------------------------------
(* What the documents say of the program, and the code does not do.        *)

\* "Solana confirmations must verify: ... expected token mint": a session that
\* succeeded was paid in the token it was quoted in.
TokenIsVerified ==
    \A s \in Sessions : session[s] # None /\ session[s].status = "succeeded" =>
       chain[session[s].txn].token = TokenOf[s]
=============================================================================
