-------------------------- MODULE SolanaPayProofs --------------------------
(***************************************************************************)
(* Proofs about SolanaPay for any sessions, references, signatures,        *)
(* wallets, amounts, workers and number of faults.                         *)
(***************************************************************************)
EXTENDS SolanaPay, TLAPS

\* The session was offered reference r for q tokens.
Offered(s, r, q) == [sess |-> s, ref |-> r, amount |-> q] \in offers

\* A transfer that was verified is of at least q tokens of the session, or lamports.
Meets(transfer, s, q) ==
    Verifier => transfer.amount >= q /\ transfer.token \in {TokenOf[s], SOL}

\* Transaction g names r and pays an amount that was asked for with r for s.
Pays(s, r, g) ==
    /\ chain[g] # None
    /\ r \in chain[g].refs
    /\ \E o \in offers : o.sess = s /\ o.ref = r /\ Meets(chain[g], s, o.amount)

\* The row asks for what was offered; a transfer request has a reference, and
\* its session succeeds by a transaction that names it.
SessionSound(s) ==
    session[s] # None =>
    LET row == session[s] IN
    /\ row.ref # None => Offered(s, row.ref, row.amount)
    /\ row.flow = "transfer_request" => row.ref # None
    /\ row.status = "succeeded" =>
          /\ row.txn # None
          /\ payments[row.txn] # None /\ payments[row.txn].sess \in {s, None}
          /\ \E r \in Refs : Pays(s, r, row.txn)
          /\ row.flow = "transfer_request" => row.ref \in chain[row.txn].refs

\* A pending payment asks for what was offered for a transfer request.
PendingSound(r) ==
    pending[r] # None =>
    LET s == pending[r].sess IN
    /\ Offered(s, r, pending[r].amount)
    /\ session[s] # None
    /\ session[s].flow = "transfer_request" /\ session[s].ref = r

\* The copy of a row that a worker will write back is of a session that exists,
\* has not succeeded in the copy, and has the flow and, for a transfer request,
\* the reference that never change.
CopySound(w) ==
    LET p == proc[w] IN
    p.pc \in {"expire", "build", "save"} =>
    /\ session[p.sess] # None
    /\ p.row.status # "succeeded"
    /\ p.row.flow = session[p.sess].flow
    /\ p.row.flow = "transfer_request" => p.row.ref = session[p.sess].ref
    /\ p.pc = "build" => p.row.ref # None
    /\ p.pc # "build" /\ p.row.ref # None => Offered(p.sess, p.row.ref, p.row.amount)

\* A worker that settles goes by a transaction that names its reference; up to
\* the mark it is one that pays the session and that nobody else owns.
SettlingSound(w) ==
    LET p == proc[w] IN
    p.pc \in {"register", "grant", "mark", "save", "finalize"} =>
    /\ session[p.sess] # None
    /\ session[p.sess].flow = "transfer_request" => p.ref = session[p.sess].ref
    /\ chain[p.sig] # None /\ p.ref \in chain[p.sig].refs
    /\ p.pc # "finalize" => Pays(p.sess, p.ref, p.sig)
    /\ p.pc # "register" => payments[p.sig] # None
    /\ p.pc \in {"grant", "mark", "save"} => payments[p.sig].sess \in {p.sess, None}

\* What took a reference off the list is on the chain, and recorded.
ConsumedSound(r) ==
    consumed[r] # None =>
    /\ payments[consumed[r]] # None
    /\ chain[consumed[r]] # None /\ r \in chain[consumed[r]].refs

IInv ==
    /\ TypeOK
    /\ \A s \in Sessions : SessionSound(s)
    /\ \A r \in Refs : PendingSound(r)
    /\ \A w \in Workers : CopySound(w)
    /\ \A w \in Workers : SettlingSound(w)
    /\ \A r \in Refs : ConsumedSound(r)

-----------------------------------------------------------------------------
USE SolanaPayAssumption, NoneIsNothing

\* Nothing recorded, quoted or sent is taken back: a step keeps the chain, the
\* payments, the offers, and of a session its flow and a transfer's reference.
Kept ==
    /\ \A g \in Sigs : chain[g] # None => chain'[g] = chain[g]
    /\ \A g \in Sigs : payments[g] # None => payments'[g] = payments[g]
    /\ offers \subseteq offers'
    /\ \A s \in Sessions : session[s] # None =>
          /\ session'[s] # None
          /\ session'[s].flow = session[s].flow
          /\ session[s].flow = "transfer_request" => session'[s].ref = session[s].ref

\* The sort of record a worker holds at each point of its program.
LEMMA WorkerType ==
  ASSUME TypeOK, NEW w \in Workers
  PROVE  /\ proc[w].pc \in {"idle", "expire", "build", "register", "grant", "mark",
                            "save", "finalize"}
         /\ proc[w].pc \in {"expire", "build", "save"} => proc[w].row \in Row
         /\ proc[w].pc # "idle" => proc[w].sess \in Sessions
         /\ proc[w].pc \in {"register", "grant", "mark", "save", "finalize"} =>
               proc[w].by \in {"confirm", "poller"} /\ proc[w].ref \in Refs /\ proc[w].sig \in Sigs
         /\ proc[w].pc \in {"register", "grant", "mark", "finalize"} => proc[w] \in Settling
         /\ proc[w].pc = "idle" <=> proc[w] = Idle
  BY DEF TypeOK, Idle, Expiring, Building, Settling, Saving

\* A worker that does not move stays sound.
LEMMA WorkerKept ==
  ASSUME TypeOK, Kept, NEW w \in Workers, proc'[w] = proc[w], CopySound(w), SettlingSound(w)
  PROVE  CopySound(w)' /\ SettlingSound(w)'
<1>1. CopySound(w)'
  BY WorkerType DEF CopySound, Kept, Offered
<1>2. SettlingSound(w)'
  BY WorkerType DEF SettlingSound, Kept, Pays
<1> QED
  BY <1>1, <1>2

\* A session whose row is not written stays sound.
LEMMA SessionKept ==
  ASSUME TypeOK, Kept, NEW s \in Sessions, session'[s] = session[s], SessionSound(s)
  PROVE  SessionSound(s)'
  BY DEF SessionSound, Kept, Pays, Offered, TypeOK, Row

\* A pending payment stays sound while its session does.
LEMMA PendingKept ==
  ASSUME TypeOK, Kept, NEW r \in Refs, pending'[r] \in {pending[r], None}, PendingSound(r)
  PROVE  PendingSound(r)'
  BY DEF PendingSound, Kept, Offered, TypeOK, Pending

\* So does the record of a transfer that was consumed.
LEMMA ConsumedKept ==
  ASSUME TypeOK, Kept, NEW r \in Refs, consumed'[r] = consumed[r], ConsumedSound(r)
  PROVE  ConsumedSound(r)'
  BY DEF ConsumedSound, Kept, TypeOK

\* A step keeps the invariant if it takes nothing back and leaves what it
\* changes sound.
LEMMA StepKeeps ==
  ASSUME IInv, TypeOK', Kept,
         \A s \in Sessions : session'[s] = session[s] \/ SessionSound(s)',
         \A r \in Refs : pending'[r] \in {pending[r], None} \/ PendingSound(r)',
         \A w \in Workers : proc'[w] = proc[w] \/ (CopySound(w)' /\ SettlingSound(w)'),
         \A r \in Refs : consumed'[r] = consumed[r] \/ ConsumedSound(r)'
  PROVE  IInv'
<1>1. \A s \in Sessions : SessionSound(s)'
  BY SessionKept DEF IInv
<1>2. \A r \in Refs : PendingSound(r)'
  BY PendingKept DEF IInv
<1>3. \A w \in Workers : CopySound(w)' /\ SettlingSound(w)'
  BY WorkerKept DEF IInv
<1>4. \A r \in Refs : ConsumedSound(r)'
  BY ConsumedKept DEF IInv
<1> QED
  BY <1>1, <1>2, <1>3, <1>4 DEF IInv

\* A worker that becomes idle promises nothing.
LEMMA IdleSound ==
  ASSUME TypeOK, NEW w \in Workers, Become(w, Idle)
  PROVE  /\ proc' \in [Workers -> {Idle} \cup Expiring \cup Building \cup Settling \cup Saving]
         /\ CopySound(w)' /\ SettlingSound(w)'
         /\ \A v \in Workers \ {w} : proc'[v] = proc[v]
  BY DEF TypeOK, Become, Idle, CopySound, SettlingSound

\* A worker that goes on to settle.
LEMMA SettleSound ==
  ASSUME TypeOK, NEW w \in Workers, NEW by \in {"confirm", "poller"}, NEW s \in Sessions,
         NEW r \in Refs, NEW g \in Sigs, NEW pc \in {"register", "grant", "mark", "finalize"},
         Settle(w, by, s, r, g, pc),
         /\ session'[s] # None
         /\ session'[s].flow = "transfer_request" => r = session'[s].ref
         /\ chain'[g] # None /\ r \in chain'[g].refs
         /\ pc # "finalize" =>
               \E o \in offers' : o.sess = s /\ o.ref = r /\ Meets(chain'[g], s, o.amount)
         /\ pc # "register" => payments'[g] # None
         /\ pc \in {"grant", "mark"} => payments'[g].sess \in {s, None}
  PROVE  /\ proc' \in [Workers -> {Idle} \cup Expiring \cup Building \cup Settling \cup Saving]
         /\ CopySound(w)' /\ SettlingSound(w)'
         /\ \A v \in Workers \ {w} : proc'[v] = proc[v]
<1> DEFINE p == [pc |-> pc, by |-> by, sess |-> s, ref |-> r, sig |-> g]
<1>1. p \in Settling
  BY DEF Settling
<1>2. proc' = [proc EXCEPT ![w] = p]
  BY DEF Settle, Become
<1>3. proc'[w] = p
  BY <1>2 DEF TypeOK
<1>4. p.pc = pc /\ p.sess = s /\ p.ref = r /\ p.sig = g
  OBVIOUS
<1> HIDE DEF p
<1>5. CopySound(w)'
  BY <1>3, <1>4 DEF CopySound
<1>6. SettlingSound(w)'
  BY <1>3, <1>4 DEF SettlingSound, Pays
<1> QED
  BY <1>1, <1>2, <1>5, <1>6 DEF TypeOK

\* Goto is Settle at another point.
LEMMA GotoSettles ==
  ASSUME TypeOK, NEW w \in Workers, NEW pc,
         proc[w].pc \in {"register", "grant", "mark", "finalize"}, Goto(w, pc)
  PROVE  Settle(w, proc[w].by, proc[w].sess, proc[w].ref, proc[w].sig, pc)
<1>1. proc[w] \in Settling
  BY WorkerType
<1>2. [proc[w] EXCEPT !.pc = pc] = [pc |-> pc, by |-> proc[w].by, sess |-> proc[w].sess,
                                    ref |-> proc[w].ref, sig |-> proc[w].sig]
  BY <1>1 DEF Settling
<1> QED
  BY <1>2 DEF Goto, Settle, Become

-----------------------------------------------------------------------------
\* The initial states satisfy the invariant.
LEMMA InitIInv == Init => IInv
  BY DEF Init, IInv, TypeOK, Idle, SessionSound, PendingSound, CopySound, SettlingSound,
         ConsumedSound

\* A transfer on the chain.
LEMMA SendStep ==
  ASSUME IInv, NEW g \in Sigs, NEW refs \in SUBSET Refs, NEW k \in Tokens, NEW a \in Amounts,
         NEW p \in Wallets, Send(g, refs, k, a, p)
  PROVE  IInv'
<1>1. TypeOK'
  BY DEF IInv, TypeOK, Send, Transaction, redis
<1>2. Kept
  BY DEF IInv, TypeOK, Send, Kept, redis
<1>3. session' = session /\ pending' = pending /\ proc' = proc /\ consumed' = consumed
  BY DEF Send, redis
<1> QED
  BY <1>1, <1>2, <1>3, StepKeeps

\* Time passes for a session.
LEMMA LapseStep ==
  ASSUME IInv, NEW s \in Sessions, Lapse(s)
  PROVE  IInv'
<1> DEFINE row == [session[s] EXCEPT !.lapsed = TRUE]
<1>1. session[s] \in Row
  BY DEF IInv, TypeOK, Lapse
<1>2. /\ row \in Row /\ row.ref = session[s].ref /\ row.flow = session[s].flow
      /\ row.status = session[s].status /\ row.txn = session[s].txn
      /\ row.amount = session[s].amount
  BY <1>1 DEF Row
<1>3. session' = [session EXCEPT ![s] = row]
  BY DEF Lapse
<1> HIDE DEF row
<1>4a. session' \in [Sessions -> Row \cup {None}]
  BY <1>2, <1>3 DEF IInv, TypeOK
<1>4. TypeOK'
  BY <1>4a DEF IInv, TypeOK, Lapse, redis
<1>5. Kept
  BY <1>2, <1>3 DEF IInv, TypeOK, Lapse, Kept, redis
<1>6. SessionSound(s)'
  BY <1>2, <1>3 DEF IInv, TypeOK, Lapse, SessionSound, Offered, Pays, redis
<1> QED
  BY <1>3, <1>4, <1>5, <1>6, StepKeeps DEF Lapse, redis, IInv, TypeOK

\* A pending payment runs out, or the poller drops its reference.
LEMMA ExpirePendingStep ==
  ASSUME IInv, NEW r \in Refs, ExpirePending(r) \/ ClearReference(r)
  PROVE  IInv'
<1>1. TypeOK'
  BY DEF IInv, TypeOK, ExpirePending, ClearReference
<1>2. Kept
  BY DEF ExpirePending, ClearReference, Kept
<1> QED
  BY <1>1, <1>2, StepKeeps DEF ExpirePending, ClearReference, IInv, TypeOK

\* A worker gives up.
LEMMA FaultStep ==
  ASSUME IInv, NEW w \in Workers, Fault(w)
  PROVE  IInv'
<1>1. TypeOK'
  BY IdleSound DEF IInv, TypeOK, Fault, redis
<1>2. Kept
  BY DEF Fault, Kept
<1> QED
  BY <1>1, <1>2, IdleSound, StepKeeps DEF Fault, redis, IInv

\* A transfer request: its session and pending payment are created.
LEMMA GeneratePaymentStep ==
  ASSUME IInv, NEW s \in Sessions, NEW r \in Refs, NEW q \in Quotes, GeneratePayment(s, r, q)
  PROVE  IInv'
<1> DEFINE row == NewRow("transfer_request", r, q)
           o == [sess |-> s, ref |-> r, amount |-> q]
           d == [sess |-> s, amount |-> q]
<1>1. /\ row \in Row /\ row.flow = "transfer_request" /\ row.ref = r /\ row.amount = q
      /\ row.status = "requires_action"
  BY DEF NewRow, Row, Status, Flow
<1>2. o \in Offer /\ d \in Pending /\ d.sess = s /\ d.amount = q
  BY DEF Offer, Pending
<1>3. /\ session' = [session EXCEPT ![s] = row] /\ session[s] = None
      /\ pending' = [pending EXCEPT ![r] = d] /\ pendingSet' = pendingSet \cup {r}
      /\ offers' = offers \cup {o}
      /\ UNCHANGED <<consumed, payments, granted, chain, proc, faults>>
  BY Zenon DEF GeneratePayment, StorePendingPayment, HandOut
<1>4. [sess |-> s, ref |-> r, amount |-> q] \in offers'
  BY <1>3
<1> HIDE DEF row, o, d
<1>5. TypeOK'
  BY <1>1, <1>2, <1>3 DEF IInv, TypeOK
<1>6. Kept
  BY <1>3 DEF IInv, TypeOK, Kept
<1>7. SessionSound(s)'
  BY <1>1, <1>3, <1>4 DEF SessionSound, Offered, IInv, TypeOK
<1>8. PendingSound(r)'
  <2>1. pending'[r] = d /\ session'[s] = row
    BY <1>3 DEF IInv, TypeOK
  <2> QED
    BY <1>1, <1>2, <1>4, <2>1 DEF PendingSound, Offered
<1> QED
  BY <1>3, <1>5, <1>6, <1>7, <1>8, StepKeeps DEF IInv, TypeOK

\* A transaction request opens a session, or its creation fails half way.
LEMMA NewSessionStep ==
  ASSUME IInv, NEW s \in Sessions, NEW q \in Quotes,
         InitializeTransactionRequest(s, q) \/ CreateFails(s, q)
  PROVE  IInv'
<1> DEFINE new == NewRow("transaction_request", None, q)
           failed == [NewRow(None, None, q) EXCEPT !.status = "failed"]
<1>1. /\ new \in Row /\ failed \in Row /\ new.ref = None /\ failed.ref = None
      /\ new.status = "requires_action" /\ failed.status = "failed"
      /\ new.flow = "transaction_request" /\ failed.flow = None
  BY DEF NewRow, Row, Status, Flow
<1>2. session' = [session EXCEPT ![s] = new] \/ session' = [session EXCEPT ![s] = failed]
  BY Zenon DEF InitializeTransactionRequest, CreateFails
<1> HIDE DEF new, failed
<1>3. PICK row \in Row : /\ session' = [session EXCEPT ![s] = row]
                         /\ row.status # "succeeded" /\ row.ref = None
                         /\ row.flow # "transfer_request"
  BY <1>1, <1>2 DEF Flow
<1>4. /\ session[s] = None
      /\ UNCHANGED <<redis, payments, granted, chain, proc, offers, faults>>
  BY DEF InitializeTransactionRequest, CreateFails
<1>5. TypeOK'
  BY <1>3, <1>4 DEF IInv, TypeOK, redis
<1>6. Kept
  BY <1>3, <1>4 DEF IInv, TypeOK, Kept
<1>7. SessionSound(s)'
  BY <1>3 DEF SessionSound, IInv, TypeOK
<1> QED
  BY <1>3, <1>4, <1>5, <1>6, <1>7, StepKeeps DEF IInv, TypeOK, redis

\* A step that moves one worker, and writes nothing but the grants.
LEMMA MoveKeeps ==
  ASSUME IInv, NEW w \in Workers,
         UNCHANGED <<session, redis, payments, chain, offers>>,
         granted' \subseteq Sigs, faults' \in 0..MaxFaults,
         proc' \in [Workers -> {Idle} \cup Expiring \cup Building \cup Settling \cup Saving],
         \A v \in Workers \ {w} : proc'[v] = proc[v],
         CopySound(w)', SettlingSound(w)'
  PROVE  IInv'
<1>1. TypeOK'
  BY DEF IInv, TypeOK, redis
<1>2. Kept
  BY DEF Kept
<1> QED
  BY <1>1, <1>2, StepKeeps DEF redis

\* A worker that takes a copy of a row, and its signature if it settles.
LEMMA CopyTaken ==
  ASSUME TypeOK, NEW w \in Workers, NEW s \in Sessions, NEW row \in Row, NEW p,
         p.sess = s, p.row = row, Become(w, p),
         \/ p.pc = "expire" /\ p \in Expiring
         \/ p.pc = "build" /\ p \in Building,
         session'[s] # None, row.status # "succeeded", row.flow = session'[s].flow,
         row.flow = "transfer_request" => row.ref = session'[s].ref,
         p.pc = "build" => row.ref # None,
         p.pc # "build" /\ row.ref # None =>
            [sess |-> s, ref |-> row.ref, amount |-> row.amount] \in offers'
  PROVE  /\ proc' \in [Workers -> {Idle} \cup Expiring \cup Building \cup Settling \cup Saving]
         /\ CopySound(w)' /\ SettlingSound(w)'
         /\ \A v \in Workers \ {w} : proc'[v] = proc[v]
<1>1. proc' = [proc EXCEPT ![w] = p] /\ proc'[w] = p
  BY DEF Become, TypeOK
<1> QED
  BY <1>1 DEF TypeOK, CopySound, SettlingSound, Offered

\* A lapsed session is read, to be marked as expired.
LEMMA GetSessionStep ==
  ASSUME IInv, NEW w \in Workers, NEW s \in Sessions, GetSession(w, s)
  PROVE  IInv'
<1> DEFINE row == session[s]
           p == [pc |-> "expire", sess |-> s, row |-> row]
<1>1. row \in Row /\ row # None /\ row.status # "succeeded"
  BY DEF IInv, TypeOK, GetSession, Terminal
<1>2. p.pc = "expire" /\ p \in Expiring /\ p.sess = s /\ p.row = row
  BY <1>1 DEF Expiring
<1>3. Become(w, p) /\ UNCHANGED <<session, redis, payments, granted, chain, offers, faults>>
  BY DEF GetSession
<1> HIDE DEF p
<1>4. row.ref # None => [sess |-> s, ref |-> row.ref, amount |-> row.amount] \in offers'
  BY <1>1, <1>3 DEF IInv, SessionSound, Offered
<1>5. /\ proc' \in [Workers -> {Idle} \cup Expiring \cup Building \cup Settling \cup Saving]
      /\ CopySound(w)' /\ SettlingSound(w)'
      /\ \A v \in Workers \ {w} : proc'[v] = proc[v]
  BY <1>1, <1>2, <1>3, <1>4, CopyTaken DEF IInv
<1> QED
  BY <1>3, <1>5, MoveKeeps DEF IInv, TypeOK

\* A transaction is built for a session's copy.
LEMMA BuildStep ==
  ASSUME IInv, NEW w \in Workers, NEW s \in Sessions, NEW r \in Refs, NEW q \in Quotes,
         NEW wallet \in Wallets, BuildSolanaPayTransaction(w, s, r, q, wallet)
  PROVE  IInv'
<1> DEFINE row == Quoted(session[s], r, q, wallet)
           p == [pc |-> "build", sess |-> s, row |-> row]
<1>1. session[s] \in Row /\ session[s] # None /\ session[s].status # "succeeded"
  BY DEF IInv, TypeOK, BuildSolanaPayTransaction
<1>2. /\ row \in Row /\ row.status = session[s].status /\ row.flow = session[s].flow
      /\ row.ref = r
  BY <1>1 DEF Quoted, Row
<1>3. session[s].flow = "transfer_request" => r = session[s].ref
  BY <1>1 DEF IInv, SessionSound, BuildSolanaPayTransaction
<1>4. p.pc = "build" /\ p.sess = s /\ p.row = row /\ p \in Building
  BY <1>2 DEF Building
<1>5. Become(w, p) /\ UNCHANGED <<session, redis, payments, granted, chain, offers, faults>>
  BY DEF BuildSolanaPayTransaction
<1> HIDE DEF row, p
<1>6. /\ proc' \in [Workers -> {Idle} \cup Expiring \cup Building \cup Settling \cup Saving]
      /\ CopySound(w)' /\ SettlingSound(w)'
      /\ \A v \in Workers \ {w} : proc'[v] = proc[v]
  BY <1>1, <1>2, <1>3, <1>4, <1>5, CopyTaken DEF IInv
<1> QED
  BY <1>5, <1>6, MoveKeeps DEF IInv, TypeOK

\* A worker that writes its copy back and is done.
LEMMA WriteBack ==
  ASSUME IInv, NEW w \in Workers, NEW row \in Row,
         proc[w].pc \in {"expire", "build"},
         row.ref = proc[w].row.ref, row.amount = proc[w].row.amount,
         row.flow = proc[w].row.flow, row.status # "succeeded",
         session' = [session EXCEPT ![proc[w].sess] = row],
         IF proc[w].pc = "build" THEN HandOut(proc[w].sess, proc[w].row.ref, proc[w].row.amount)
         ELSE offers' = offers,
         Become(w, Idle), UNCHANGED <<redis, payments, granted, chain, faults>>
  PROVE  IInv'
<1> DEFINE s == proc[w].sess
<1>1. /\ s \in Sessions /\ session[s] # None
      /\ row.flow = session[s].flow
      /\ row.flow = "transfer_request" => row.ref = session[s].ref
      /\ row.ref # None => [sess |-> s, ref |-> row.ref, amount |-> row.amount] \in offers'
  BY WorkerType DEF IInv, CopySound, Offered, HandOut
<1>2. offers' \subseteq Offer /\ offers \subseteq offers'
  <2>1. /\ proc[w].row \in Row
        /\ proc[w].pc = "build" => proc[w].row.ref \in Refs
    BY WorkerType DEF IInv, CopySound, Row
  <2> QED
    BY <1>1, <2>1 DEF IInv, TypeOK, Offer, Row, HandOut
<1>3. session' = [session EXCEPT ![s] = row] /\ session'[s] = row
  BY <1>1 DEF IInv, TypeOK
<1> HIDE DEF s
<1>4. TypeOK'
  BY <1>1, <1>2, <1>3, IdleSound DEF IInv, TypeOK, redis
<1>5. Kept
  BY <1>1, <1>2, <1>3 DEF IInv, TypeOK, Kept
<1>6. ASSUME NEW t \in Sessions PROVE session'[t] = session[t] \/ SessionSound(t)'
  <2>1. CASE t # s
    BY <1>3, <2>1 DEF IInv, TypeOK
  <2>2. CASE t = s
    <3>1. session[s].flow = "transfer_request" => session[s].ref # None
      BY <1>1 DEF IInv, SessionSound
    <3>2. session'[t] = row
      BY <1>3, <2>2
    <3> QED
      BY <1>1, <2>2, <3>1, <3>2 DEF SessionSound, Offered
  <2> QED
    BY <2>1, <2>2
<1> QED
  BY <1>4, <1>5, <1>6, StepKeeps, IdleSound DEF IInv, redis

\* A copy of a session that has expired is marked so.
LEMMA MarkExpiredStep ==
  ASSUME IInv, NEW w \in Workers, MarkExpired(w)
  PROVE  IInv'
<1>1. proc[w].pc = "expire" /\ proc[w].row \in Row
  BY WorkerType DEF MarkExpired, At, IInv
<1> DEFINE row == [proc[w].row EXCEPT !.status = "expired"]
<1>2. /\ row \in Row /\ row.ref = proc[w].row.ref /\ row.amount = proc[w].row.amount
      /\ row.flow = proc[w].row.flow /\ row.status = "expired"
  BY <1>1 DEF Row, Status
<1>3. /\ session' = [session EXCEPT ![proc[w].sess] = row]
      /\ Become(w, Idle) /\ UNCHANGED <<redis, payments, granted, chain, offers, faults>>
  BY DEF MarkExpired
<1> HIDE DEF row
<1> QED
  BY <1>1, <1>2, <1>3, WriteBack

\* The copy is saved with the reference that was built in.
LEMMA BuildSaveStep ==
  ASSUME IInv, NEW w \in Workers, BuildSave(w)
  PROVE  IInv'
<1>1. proc[w].pc = "build" /\ proc[w].row \in Row /\ proc[w].row.status # "succeeded"
  BY WorkerType DEF BuildSave, At, IInv, CopySound
<1> QED
  BY <1>1, WriteBack DEF BuildSave, BuildTransferTransaction

\* A confirmation verifies the transfer and begins to settle it.
LEMMA ConfirmSessionStep ==
  ASSUME IInv, NEW w \in Workers, NEW s \in Sessions, NEW g \in Sigs, ConfirmSession(w, s, g)
  PROVE  IInv'
<1> DEFINE row == session[s]
<1>1. row \in Row /\ row # None /\ row.ref \in Refs
  BY DEF IInv, TypeOK, ConfirmSession, Row
<1>2. [sess |-> s, ref |-> row.ref, amount |-> row.amount] \in offers
  BY <1>1 DEF IInv, SessionSound, Offered
<1>3. chain[g] # None /\ Meets(chain[g], s, row.amount) /\ row.ref \in chain[g].refs
  BY DEF ConfirmSession, VerifyTransactionWithContent, VerifyTransfer, Confirmed,
         FindTransferMatch, EvaluateSystemTransfer, EvaluateTokenTransfer, MessageContainsKey, Meets
<1>4. /\ Settle(w, "confirm", s, row.ref, g, "register")
      /\ UNCHANGED <<session, redis, payments, granted, chain, offers, faults>>
  BY DEF ConfirmSession
<1>5. \E o \in offers' : o.sess = s /\ o.ref = row.ref /\ Meets(chain'[g], s, o.amount)
  BY <1>2, <1>3, <1>4
<1>6. /\ proc' \in [Workers -> {Idle} \cup Expiring \cup Building \cup Settling \cup Saving]
      /\ CopySound(w)' /\ SettlingSound(w)'
      /\ \A v \in Workers \ {w} : proc'[v] = proc[v]
  BY <1>1, <1>3, <1>4, <1>5, SettleSound DEF IInv
<1> QED
  BY <1>4, <1>6, MoveKeeps DEF IInv, TypeOK

\* A session that has succeeded has its reference finalized again.
LEMMA ConfirmSucceededStep ==
  ASSUME IInv, NEW w \in Workers, NEW s \in Sessions, ConfirmSucceeded(w, s)
  PROVE  IInv'
<1> DEFINE row == session[s]
<1>1. /\ row \in Row /\ row # None /\ row.ref \in Refs /\ row.flow = "transfer_request"
      /\ row.status = "succeeded"
  BY DEF IInv, TypeOK, ConfirmSucceeded, Row
<1>2. /\ row.txn \in Sigs /\ payments[row.txn] # None
      /\ chain[row.txn] # None /\ row.ref \in chain[row.txn].refs
  BY <1>1 DEF IInv, SessionSound, Pays, Row
<1>3. /\ Settle(w, "confirm", s, row.ref, row.txn, "finalize")
      /\ UNCHANGED <<session, redis, payments, granted, chain, offers, faults>>
  BY DEF ConfirmSucceeded
<1>4. /\ proc' \in [Workers -> {Idle} \cup Expiring \cup Building \cup Settling \cup Saving]
      /\ CopySound(w)' /\ SettlingSound(w)'
      /\ \A v \in Workers \ {w} : proc'[v] = proc[v]
  BY <1>1, <1>2, <1>3, SettleSound DEF IInv
<1> QED
  BY <1>3, <1>4, MoveKeeps DEF IInv, TypeOK

\* The poller finds the transfer of a pending payment.
LEMMA CheckPaymentStep ==
  ASSUME IInv, NEW w \in Workers, NEW r \in Refs, NEW g \in Sigs, CheckPayment(w, r, g)
  PROVE  IInv'
<1> DEFINE s == pending[r].sess
           pc == IF payments[g] = None THEN "register"
                 ELSE IF MatchesPending(g, r, s) THEN "mark" ELSE "finalize"
<1>1. pending[r] # None /\ pending[r] \in Pending /\ s \in Sessions
  BY DEF IInv, TypeOK, CheckPayment, Pending
<1>2. /\ [sess |-> s, ref |-> r, amount |-> pending[r].amount] \in offers
      /\ session[s] # None /\ session[s].ref = r
  BY <1>1 DEF IInv, PendingSound, Offered
<1>3. /\ chain[g] # None /\ r \in chain[g].refs
      /\ Meets(chain[g], s, pending[r].amount)
  BY DEF CheckPayment, SignaturesFor, VerifyPayment, VerifyTransactionWithContent, VerifyTransfer,
         FindTransferMatch, EvaluateSystemTransfer, EvaluateTokenTransfer, Meets
<1>4. /\ Settle(w, "poller", s, r, g, pc)
      /\ UNCHANGED <<session, redis, payments, granted, chain, offers, faults>>
  BY DEF CheckPayment
<1>5. \E o \in offers' : o.sess = s /\ o.ref = r /\ Meets(chain'[g], s, o.amount)
  BY <1>2, <1>3, <1>4
<1>6. /\ pc \in {"register", "mark", "finalize"}
      /\ pc # "register" => payments[g] # None
      /\ pc = "mark" => payments[g].sess = s
  BY DEF MatchesPending
<1> HIDE DEF s, pc
<1>7. /\ proc' \in [Workers -> {Idle} \cup Expiring \cup Building \cup Settling \cup Saving]
      /\ CopySound(w)' /\ SettlingSound(w)'
      /\ \A v \in Workers \ {w} : proc'[v] = proc[v]
  BY <1>1, <1>2, <1>3, <1>4, <1>5, <1>6, SettleSound DEF IInv
<1> QED
  BY <1>4, <1>7, MoveKeeps DEF IInv, TypeOK

\* What a worker that settles may count on.
LEMMA SettlingFacts ==
  ASSUME IInv, NEW w \in Workers,
         proc[w].pc \in {"register", "grant", "mark", "save", "finalize"}
  PROVE  /\ proc[w].by \in {"confirm", "poller"} /\ proc[w].sess \in Sessions
         /\ proc[w].ref \in Refs /\ proc[w].sig \in Sigs
         /\ session[proc[w].sess] # None /\ session[proc[w].sess] \in Row
         /\ session[proc[w].sess].flow = "transfer_request" =>
               proc[w].ref = session[proc[w].sess].ref
         /\ chain[proc[w].sig] # None /\ proc[w].ref \in chain[proc[w].sig].refs
         /\ proc[w].pc # "finalize" =>
               \E o \in offers : /\ o.sess = proc[w].sess /\ o.ref = proc[w].ref
                                 /\ Meets(chain[proc[w].sig], proc[w].sess, o.amount)
         /\ proc[w].pc # "register" => payments[proc[w].sig] # None
         /\ proc[w].pc \in {"grant", "mark", "save"} =>
               payments[proc[w].sig].sess \in {proc[w].sess, None}
<1>1. /\ proc[w].by \in {"confirm", "poller"} /\ proc[w].sess \in Sessions
      /\ proc[w].ref \in Refs /\ proc[w].sig \in Sigs
  BY WorkerType DEF IInv
<1>2. SettlingSound(w)
  BY DEF IInv
<1>3. session[proc[w].sess] # None => session[proc[w].sess] \in Row
  BY <1>1 DEF IInv, TypeOK
<1> QED
  BY <1>1, <1>2, <1>3 DEF SettlingSound, Pays

\* The payment is inserted.
LEMMA RegisterPurchaseStep ==
  ASSUME IInv, NEW w \in Workers, RegisterPurchase(w)
  PROVE  IInv'
<1> DEFINE p == proc[w]
           new == IF p.by = "poller" THEN [ref |-> p.ref, sess |-> p.sess]
                  ELSE [ref |-> None, sess |-> None]
<1>1. /\ p.pc = "register" /\ payments[p.sig] = None
      /\ Goto(w, "grant") /\ UNCHANGED <<session, redis, granted, chain, offers, faults>>
      /\ payments' = [payments EXCEPT ![p.sig] = new]
  BY DEF RegisterPurchase, At
<1>2. Settle(w, p.by, p.sess, p.ref, p.sig, "grant")
  BY <1>1, GotoSettles DEF IInv
<1>3. p.sig \in Sigs /\ p.sess \in Sessions /\ p.ref \in Refs
  BY <1>1, SettlingFacts
<1>4. new \in Payment /\ new.sess \in {p.sess, None}
  BY <1>3 DEF Payment
<1>5. payments'[p.sig] = new /\ payments'[p.sig] # None
  BY <1>1, <1>3, <1>4 DEF IInv, TypeOK
<1> HIDE DEF new
<1>6. /\ proc' \in [Workers -> {Idle} \cup Expiring \cup Building \cup Settling \cup Saving]
      /\ CopySound(w)' /\ SettlingSound(w)'
      /\ \A v \in Workers \ {w} : proc'[v] = proc[v]
  BY <1>1, <1>2, <1>3, <1>4, <1>5, SettlingFacts, SettleSound DEF IInv
<1>7. TypeOK'
  BY <1>1, <1>3, <1>4, <1>6 DEF IInv, TypeOK, redis
<1>8. Kept
  BY <1>1, <1>3 DEF IInv, TypeOK, Kept
<1> QED
  BY <1>1, <1>6, <1>7, <1>8, StepKeeps DEF redis

\* A payment with the signature exists already.
LEMMA RegisterDuplicateStep ==
  ASSUME IInv, NEW w \in Workers, RegisterDuplicate(w)
  PROVE  IInv'
<1> DEFINE p == proc[w]
           pc == IF MatchesPending(p.sig, p.ref, p.sess) THEN "mark" ELSE "finalize"
<1>1. /\ p.pc = "register" /\ payments[p.sig] # None
      /\ UNCHANGED <<session, redis, payments, granted, chain, offers, faults>>
      /\ Become(w, Idle) \/ Goto(w, pc)
  BY DEF RegisterDuplicate, At
<1>2. CASE Become(w, Idle)
  BY <1>1, <1>2, IdleSound, MoveKeeps DEF IInv, TypeOK
<1>3. CASE Goto(w, pc)
  <2>1. Settle(w, p.by, p.sess, p.ref, p.sig, pc)
    BY <1>1, <1>3, GotoSettles DEF IInv
  <2>2. pc \in {"mark", "finalize"} /\ (pc = "mark" => payments[p.sig].sess = p.sess)
    BY DEF MatchesPending
  <2> HIDE DEF pc
  <2>3. /\ proc' \in [Workers -> {Idle} \cup Expiring \cup Building \cup Settling \cup Saving]
        /\ CopySound(w)' /\ SettlingSound(w)'
        /\ \A v \in Workers \ {w} : proc'[v] = proc[v]
    BY <1>1, <2>1, <2>2, SettlingFacts, SettleSound DEF IInv
  <2> QED
    BY <1>1, <2>3, MoveKeeps DEF IInv, TypeOK
<1> QED
  BY <1>1, <1>2, <1>3

\* The grant, and the ways on to the end, need only what the worker has.
LEMMA GoOnStep ==
  ASSUME IInv, NEW w \in Workers,
         proc[w].pc \in {"grant", "mark"}, NEW pc \in {"mark", "finalize"},
         Goto(w, pc), granted' \in {granted, granted \cup {proc[w].sig}},
         faults' \in 0..MaxFaults, UNCHANGED <<session, redis, payments, chain, offers>>
  PROVE  IInv'
<1>1. Settle(w, proc[w].by, proc[w].sess, proc[w].ref, proc[w].sig, pc)
  BY GotoSettles DEF IInv
<1>2. /\ proc' \in [Workers -> {Idle} \cup Expiring \cup Building \cup Settling \cup Saving]
      /\ CopySound(w)' /\ SettlingSound(w)'
      /\ \A v \in Workers \ {w} : proc'[v] = proc[v]
  BY <1>1, SettlingFacts, SettleSound DEF IInv
<1>3. granted' \subseteq Sigs
  BY SettlingFacts DEF IInv, TypeOK
<1> QED
  BY <1>2, <1>3, MoveKeeps

\* The entitlement is granted, or that step or the next one fails.
LEMMA GrantStep ==
  ASSUME IInv, NEW w \in Workers,
         GrantProductEntitlements(w) \/ GrantFails(w) \/ MarkFails(w)
  PROVE  IInv'
  BY GoOnStep DEF GrantProductEntitlements, GrantFails, MarkFails, At, IInv, TypeOK,
                  SolanaPayAssumption

\* The copy is marked as succeeded.
LEMMA MarkSucceededStep ==
  ASSUME IInv, NEW w \in Workers, MarkSucceeded(w)
  PROVE  IInv'
<1> DEFINE p == proc[w]
           row == session[p.sess]
           q == [pc |-> "save", by |-> p.by, sess |-> p.sess, ref |-> p.ref, sig |-> p.sig,
                 row |-> row]
<1>1. /\ p.pc = "mark"
      /\ UNCHANGED <<session, redis, payments, granted, chain, offers, faults>>
      /\ \/ Become(w, Idle) \/ Goto(w, "finalize")
         \/ row.status # "succeeded" /\ Become(w, q)
  BY DEF MarkSucceeded, At
<1>2. CASE Become(w, Idle)
  BY <1>1, <1>2, IdleSound, MoveKeeps DEF IInv, TypeOK
<1>3. CASE Goto(w, "finalize")
  BY <1>1, <1>3, GoOnStep DEF IInv, TypeOK
<1>4. CASE row.status # "succeeded" /\ Become(w, q)
  <2>1. q \in Saving
    BY <1>1, SettlingFacts DEF Saving
  <2>2. /\ q.pc = "save" /\ q.sess = p.sess /\ q.ref = p.ref /\ q.sig = p.sig
        /\ q.row = row
    OBVIOUS
  <2> HIDE DEF q
  <2>3. proc' = [proc EXCEPT ![w] = q] /\ proc'[w] = q
    BY <1>4 DEF Become, IInv, TypeOK
  <2>4. row.ref # None => [sess |-> p.sess, ref |-> row.ref, amount |-> row.amount] \in offers
    BY <1>1, SettlingFacts DEF IInv, SessionSound, Offered
  <2>5. CopySound(w)'
    BY <1>1, <1>4, <2>2, <2>3, <2>4, SettlingFacts DEF CopySound, Offered
  <2>6. SettlingSound(w)'
    BY <1>1, <2>2, <2>3, SettlingFacts DEF SettlingSound, Pays
  <2>7. proc' \in [Workers -> {Idle} \cup Expiring \cup Building \cup Settling \cup Saving]
    BY <2>1, <2>3 DEF IInv, TypeOK
  <2> QED
    BY <1>1, <2>3, <2>5, <2>6, <2>7, MoveKeeps DEF IInv, TypeOK
<1> QED
  BY <1>1, <1>2, <1>3, <1>4

\* The copy is saved.
LEMMA MarkSaveStep ==
  ASSUME IInv, NEW w \in Workers, MarkSave(w)
  PROVE  IInv'
<1> DEFINE p == proc[w]
           row == [p.row EXCEPT !.status = "succeeded", !.txn = p.sig]
<1>1. /\ p.pc = "save" /\ UNCHANGED <<redis, payments, granted, chain, offers, faults>>
      /\ session' = session \/ session' = [session EXCEPT ![p.sess] = row]
      /\ Become(w, Idle) \/ Settle(w, p.by, p.sess, p.ref, p.sig, "finalize")
  BY DEF MarkSave, At
<1>2. p.row \in Row /\ p.sig \in Sigs /\ p.sess \in Sessions
  BY <1>1, WorkerType DEF IInv
<1>3. /\ row \in Row /\ row.status = "succeeded" /\ row.txn = p.sig /\ row.ref = p.row.ref
      /\ row.flow = p.row.flow /\ row.amount = p.row.amount
  BY <1>2 DEF Row, Status
<1> HIDE DEF row
<1>4. /\ session[p.sess] # None /\ row.flow = session[p.sess].flow
      /\ row.flow = "transfer_request" => row.ref = session[p.sess].ref
      /\ row.ref # None => [sess |-> p.sess, ref |-> row.ref, amount |-> row.amount] \in offers
  BY <1>1, <1>3 DEF IInv, CopySound, Offered
<1>5. Kept
  BY <1>1, <1>2, <1>3, <1>4 DEF Kept, IInv, TypeOK
<1>6. /\ session'[p.sess] # None
      /\ session'[p.sess].flow = "transfer_request" => p.ref = session'[p.sess].ref
  BY <1>1, <1>5, SettlingFacts DEF Kept
<1>7. /\ proc' \in [Workers -> {Idle} \cup Expiring \cup Building \cup Settling \cup Saving]
      /\ CopySound(w)' /\ SettlingSound(w)'
      /\ \A v \in Workers \ {w} : proc'[v] = proc[v]
  BY <1>1, <1>6, SettlingFacts, SettleSound, IdleSound DEF IInv
<1>8. TypeOK'
  BY <1>1, <1>2, <1>3, <1>7 DEF IInv, TypeOK, redis
<1>9. ASSUME NEW t \in Sessions PROVE session'[t] = session[t] \/ SessionSound(t)'
  <2>1. CASE session'[t] # row \/ t # p.sess
    BY <1>1, <1>2, <2>1 DEF IInv, TypeOK
  <2>2. CASE session'[t] = row /\ t = p.sess
    <3>1. \E r \in Refs : Pays(t, r, p.sig)
      BY <1>1, <2>2, SettlingFacts DEF Pays
    <3>2. row.flow = "transfer_request" => row.ref # None /\ row.ref \in chain[p.sig].refs
      BY <1>1, <1>4, SettlingFacts DEF IInv, SessionSound
    <3>3. payments[p.sig] # None /\ payments[p.sig].sess \in {t, None}
      BY <1>1, <2>2, SettlingFacts
    <3> QED
      BY <1>1, <1>2, <1>3, <1>4, <2>2, <3>1, <3>2, <3>3 DEF SessionSound, Offered, Pays
  <2> QED
    BY <2>1, <2>2
<1> QED
  BY <1>1, <1>5, <1>7, <1>8, <1>9, StepKeeps DEF redis

\* The pending payment is deleted.
LEMMA FinalizeStep ==
  ASSUME IInv, NEW w \in Workers, Finalize(w)
  PROVE  IInv'
<1> DEFINE r == proc[w].ref
           g == proc[w].sig
<1>1. /\ proc[w].pc = "finalize" /\ Become(w, Idle)
      /\ UNCHANGED <<session, payments, granted, chain, offers, faults>>
      /\ consumed' = consumed \/ consumed' = [consumed EXCEPT ![r] = g]
      /\ pendingSet' \subseteq pendingSet
      /\ pending' = pending \/ pending' = [pending EXCEPT ![r] = None]
  BY DEF Finalize, At, ConsumeAndRemovePending, redis
<1>2. r \in Refs /\ g \in Sigs /\ payments[g] # None /\ chain[g] # None /\ r \in chain[g].refs
  BY <1>1, SettlingFacts
<1> HIDE DEF r, g
<1>3. TypeOK'
  BY <1>1, <1>2, IdleSound DEF IInv, TypeOK
<1>4. Kept
  BY <1>1 DEF Kept
<1>5. \A t \in Refs : consumed'[t] = consumed[t] \/ ConsumedSound(t)'
  BY <1>1, <1>2 DEF ConsumedSound, IInv, TypeOK
<1>6. \A t \in Refs : pending'[t] \in {pending[t], None}
  BY <1>1, <1>2 DEF IInv, TypeOK
<1> QED
  BY <1>1, <1>3, <1>4, <1>5, <1>6, IdleSound, StepKeeps DEF IInv

\* IInv is inductive.
LEMMA NextIInv == IInv /\ [Next]_vars => IInv'
<1> SUFFICES ASSUME IInv, [Next]_vars PROVE IInv'
  OBVIOUS
<1>1. CASE UNCHANGED vars
  <2>1. TypeOK' /\ Kept
    BY <1>1 DEF vars, redis, IInv, TypeOK, Kept
  <2> QED
    BY <1>1, <2>1, StepKeeps DEF vars, redis
<1>2. ASSUME NEW w \in Workers, Settlement(w) PROVE IInv'
  BY <1>2, RegisterPurchaseStep, RegisterDuplicateStep, GrantStep, MarkSucceededStep,
     MarkSaveStep, FinalizeStep DEF Settlement
<1> QED
  BY <1>1, <1>2, SendStep, LapseStep, ExpirePendingStep, GeneratePaymentStep, NewSessionStep,
     FaultStep, MarkExpiredStep, BuildSaveStep, GetSessionStep, ConfirmSucceededStep,
     ConfirmSessionStep, BuildStep, CheckPaymentStep DEF Next

-----------------------------------------------------------------------------
\* Sessions, pending payments, payments and workers keep their types.
THEOREM TypeCorrect == Spec => []TypeOK
<1>1. IInv => TypeOK
  BY DEF IInv
<1> QED
  BY InitIInv, NextIInv, <1>1, PTL DEF Spec

\* No session succeeds by a payment that the poller recorded for another one,
\* however many workers settle, crash or write back old rows.
THEOREM SucceedsByOwnPayment == Spec => []SucceededByOwnPayment
<1>1. IInv => SucceededByOwnPayment
  BY DEF IInv, SessionSound, SucceededByOwnPayment
<1> QED
  BY InitIInv, NextIInv, <1>1, PTL DEF Spec

\* A session that succeeded names a transaction that is recorded, is on the
\* chain and pays an amount asked for with a reference of the session, in the
\* session's token or in as many lamports, if a SolanaTransactionService
\* verifies the transfers.
THEOREM SucceedsPaid == Verifier => (Spec => []SucceededIsPaid)
<1> SUFFICES ASSUME Verifier PROVE Spec => []SucceededIsPaid
  OBVIOUS
<1>1. IInv => SucceededIsPaid
  <2> SUFFICES ASSUME IInv, NEW s \in Sessions, session[s] # None,
                      session[s].status = "succeeded"
               PROVE  LET g == session[s].txn IN
                      /\ g # None /\ payments[g] # None
                      /\ \E o \in offers :
                            /\ o.sess = s /\ o.ref \in chain[g].refs
                            /\ chain[g].amount >= o.amount
                            /\ chain[g].token \in {TokenOf[s], SOL}
    BY DEF SucceededIsPaid
  <2> QED
    BY DEF IInv, SessionSound, Pays, Meets
<1> QED
  BY InitIInv, NextIInv, <1>1, PTL DEF Spec

\* ConsumeAndRemovePending marks a reference only with a recorded transaction
\* that names it.
THEOREM ConsumesRecorded == Spec => []ConsumedIsRecorded
<1>1. IInv => ConsumedIsRecorded
  BY DEF IInv, ConsumedSound, ConsumedIsRecorded
<1> QED
  BY InitIInv, NextIInv, <1>1, PTL DEF Spec

=============================================================================
