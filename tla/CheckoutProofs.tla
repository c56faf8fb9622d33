--------------------------- MODULE CheckoutProofs ---------------------------
(***************************************************************************)
(* Proofs about Checkout for any attempts, client keys, prices and number  *)
(* of faults.                                                              *)
(***************************************************************************)
EXTENDS Checkout, TLAPS

\* There is something to show for the transaction of request t.
Served(t) ==
    /\ t \in Attempts /\ att[t] # None
    /\ IF att[t].price \in Recurring THEN row[t] # None ELSE t \in payments

\* Where a request of each kind can be, and what it has done by then.
AttemptSound(a) ==
    att[a] # None =>
    LET t == att[a] IN
    /\ t.price \in Elsewhere => t.pc \in {"check", "close", "done"} /\ t.out # "success"
    /\ t.price = None => t.pc \in {"vault", "method", "done"} /\ t.card = a
    /\ t.out = "redirect" => t.price \in Elsewhere
    /\ t.pc = "begin" => t.key = None
    /\ t.pc \in {"save", "grant"} => t.txn = a
    /\ t.pc = "grant" => t.price \in Sales /\ a \in payments
    /\ t.pc = "settle" /\ t.out = "success" => Served(a)
    /\ t.pc \in {"settle", "close"} /\ t.out = "success" => Served(t.txn)
    /\ t.pc # "done" /\ t.price \notin Elsewhere \cup {None} => session[a] # "succeeded"

\* A session that succeeded is served.
SessionSound(a) ==
    /\ session[a] # None \/ copies[a] # {} => att[a] # None
    /\ session[a] = "succeeded" => Served(att[a].txn)

\* A record of a success has something to show.
InnerSound(p) == inner[p] # None /\ inner[p].st = "success" => Served(inner[p].by)

\* A handler works on a payment made elsewhere that is recorded, and marks a
\* session of its price.
HookSound(a) ==
    /\ a \in remote \cup payments => att[a] # None
    /\ hook[a] # "no" => a \in payments /\ att[a].price \in Elsewhere
    /\ pick[a] # a =>
          att[a] # None /\ att[pick[a]] # None /\ att[pick[a]].price = att[a].price

\* The request has not created its vault entry.
Early(b) == att[b] = None \/ att[b].pc \in {"check", "begin", "vault"}

\* The stages of a card: not there, only at NMI, in both, being deleted, and
\* only at NMI again.
CardSound(b) ==
    b \notin marred =>
    /\ Early(b) => b \notin vault /\ b \notin methods /\ del[b] = "no"
    /\ At(b, "method") => b \in vault /\ b \notin methods /\ del[b] = "no"
    /\ del[b] = "local" => b \notin vault
    /\ b \in methods /\ del[b] # "local" => b \in vault
    /\ b \in vault /\ ~At(b, "method") => b \in methods \cup dropped

IInv ==
    /\ TypeOK
    /\ \A a \in Attempts : AttemptSound(a)
    /\ \A a \in Attempts : SessionSound(a)
    /\ \A p \in Prices : InnerSound(p)
    /\ \A a \in Attempts : HookSound(a)
    /\ \A a \in Attempts : CardSound(a)

-----------------------------------------------------------------------------
USE CheckoutAssumption, NoneIsNothing

\* What no step takes back: requests keep their prices, and payments and rows
\* of recurring subscriptions stay.
Kept ==
    /\ \A a \in Attempts : att[a] # None => att'[a] # None /\ att'[a].price = att[a].price
    /\ payments \subseteq payments' /\ marred \subseteq marred'
    /\ \A a \in Attempts :
          att[a] # None /\ att[a].price \in Recurring /\ row[a] # None => row'[a] # None

\* Nothing is done to card b.
CardSame(b) ==
    /\ del'[b] = del[b]
    /\ b \in vault' <=> b \in vault
    /\ b \in methods' <=> b \in methods
    /\ b \in dropped' <=> b \in dropped

\* A request whose own state does not change stays sound.
LEMMA AttemptKept ==
  ASSUME TypeOK, Kept, NEW a \in Attempts, att'[a] = att[a], session'[a] = session[a],
         AttemptSound(a)
  PROVE  AttemptSound(a)'
<1> SUFFICES ASSUME att[a] # None PROVE AttemptSound(a)'
  BY DEF AttemptSound
<1> DEFINE t == att[a]
<1>1. /\ t.pc = "settle" /\ t.out = "success" => Served(a)'
      /\ t.pc \in {"settle", "close"} /\ t.out = "success" => Served(att[a].txn)'
  BY DEF AttemptSound, Served, Kept
<1>2. t.pc = "grant" => a \in payments'
  BY DEF AttemptSound, Kept
<1> QED
  BY <1>1, <1>2 DEF AttemptSound

\* A session that is not written stays sound.
LEMMA SessionKept ==
  ASSUME TypeOK, Kept, NEW a \in Attempts, att'[a] = att[a], session'[a] = session[a],
         copies'[a] = copies[a], SessionSound(a)
  PROVE  SessionSound(a)'
  BY DEF SessionSound, Served, Kept

\* A record that is not written stays sound.
LEMMA RecordKept ==
  ASSUME TypeOK, Kept, NEW p \in Prices, inner'[p] = inner[p], InnerSound(p)
  PROVE  InnerSound(p)'
  BY DEF InnerSound, Served, Kept

\* A handler that does not move stays sound.
LEMMA HookKept ==
  ASSUME TypeOK, Kept, NEW a \in Attempts, hook'[a] = hook[a], pick'[a] = pick[a],
         a \in remote' \cup payments' => a \in remote \cup payments, HookSound(a)
  PROVE  HookSound(a)'
  BY DEF HookSound, Kept, TypeOK

\* A card that is not touched stays sound.
LEMMA CardKept ==
  ASSUME TypeOK, Kept, NEW b \in Attempts, CardSame(b),
         Early(b)' => Early(b), At(b, "method")' <=> At(b, "method"), CardSound(b)
  PROVE  CardSound(b)'
  BY DEF CardSound, CardSame, Kept

\* A step keeps the invariant if it takes nothing back and leaves what it
\* changes sound.
LEMMA StepKeeps ==
  ASSUME IInv, TypeOK', Kept,
         \A a \in Attempts : \/ att'[a] = att[a] /\ session'[a] = session[a]
                             \/ AttemptSound(a)',
         \A a \in Attempts : \/ /\ att'[a] = att[a] /\ session'[a] = session[a]
                                /\ copies'[a] = copies[a]
                             \/ SessionSound(a)',
         \A p \in Prices : inner'[p] = inner[p] \/ InnerSound(p)',
         \A a \in Attempts : \/ /\ hook'[a] = hook[a] /\ pick'[a] = pick[a]
                                /\ a \in remote' \cup payments' => a \in remote \cup payments
                             \/ HookSound(a)',
         \A b \in Attempts : \/ /\ CardSame(b)
                                /\ Early(b)' => Early(b)
                                /\ At(b, "method")' <=> At(b, "method")
                             \/ CardSound(b)'
  PROVE  IInv'
<1>1. \A a \in Attempts : AttemptSound(a)'
  BY AttemptKept DEF IInv
<1>2. \A a \in Attempts : SessionSound(a)'
  BY SessionKept DEF IInv
<1>3. \A p \in Prices : InnerSound(p)'
  BY RecordKept DEF IInv
<1>4. \A a \in Attempts : HookSound(a)'
  BY HookKept DEF IInv
<1>5. \A b \in Attempts : CardSound(b)'
  BY CardKept DEF IInv
<1> QED
  BY <1>1, <1>2, <1>3, <1>4, <1>5 DEF IInv

\* Request a becomes t, which has the price, key and card of the request.
Moves(a, t) ==
    /\ t \in Attempt
    /\ att' = [att EXCEPT ![a] = t]
    /\ t.price = att[a].price /\ t.key = att[a].key /\ t.card = att[a].card

\* What Goto and Ends do.
LEMMA Moved ==
  ASSUME TypeOK, NEW a \in Attempts, att[a] # None, NEW pc \in Steps
  PROVE  /\ Goto(a, pc) =>
               \E t : Moves(a, t) /\ t.pc = pc /\ t.txn = att[a].txn /\ t.out = att[a].out
         /\ \A out \in Outcome : Ends(a, pc, out) =>
               \E t : Moves(a, t) /\ t.pc = pc /\ t.txn = att[a].txn /\ t.out = out
<1>1. att[a] \in Attempt
  BY DEF TypeOK
<1>2. ASSUME Goto(a, pc)
      PROVE  \E t : Moves(a, t) /\ t.pc = pc /\ t.txn = att[a].txn /\ t.out = att[a].out
  <2> DEFINE t == [att[a] EXCEPT !.pc = pc]
  <2>1. /\ t \in Attempt /\ t.pc = pc /\ t.txn = att[a].txn /\ t.out = att[a].out
        /\ t.price = att[a].price /\ t.key = att[a].key /\ t.card = att[a].card
    BY <1>1 DEF Attempt
  <2>2. att' = [att EXCEPT ![a] = t]
    BY <1>2 DEF Goto
  <2> QED
    BY <2>1, <2>2 DEF Moves
<1>3. ASSUME NEW out \in Outcome, Ends(a, pc, out)
      PROVE  \E t : Moves(a, t) /\ t.pc = pc /\ t.txn = att[a].txn /\ t.out = out
  <2> DEFINE t == [att[a] EXCEPT !.pc = pc, !.out = out]
  <2>1. /\ t \in Attempt /\ t.pc = pc /\ t.txn = att[a].txn /\ t.out = out
        /\ t.price = att[a].price /\ t.key = att[a].key /\ t.card = att[a].card
    BY <1>1 DEF Attempt
  <2>2. att' = [att EXCEPT ![a] = t]
    BY <1>3, <1>1 DEF Ends, TypeOK
  <2> QED
    BY <2>1, <2>2 DEF Moves
<1> QED
  BY <1>2, <1>3

\* A move changes one request, and nobody comes under way who was not.
LEMMA MovedAtt ==
  ASSUME TypeOK, NEW a \in Attempts, att[a] # None, NEW t, Moves(a, t)
  PROVE  /\ att' \in [Attempts -> Attempt \cup {None}]
         /\ att'[a] = t /\ att'[a] # None
         /\ \A b \in Attempts \ {a} : att'[b] = att[b]
         /\ \A b \in Attempts : att[b] # None => att'[b] # None /\ att'[b].price = att[b].price
         /\ \A b \in Attempts \ {a} : Early(b)' => Early(b)
         /\ \A b \in Attempts \ {a} : At(b, "method")' <=> At(b, "method")
<1>1. /\ att' \in [Attempts -> Attempt \cup {None}]
      /\ att'[a] = t /\ att'[a] # None
      /\ \A b \in Attempts \ {a} : att'[b] = att[b]
      /\ \A b \in Attempts : att[b] # None => att'[b] # None /\ att'[b].price = att[b].price
  BY DEF TypeOK, Moves
<1> QED
  BY <1>1 DEF Early, At

\* The cards of everybody else are left alone.
OtherCardsKept(a) ==
    /\ vault' \subseteq Attempts /\ methods' \subseteq Attempts
    /\ del' \in [Attempts -> {"no", "remote", "local"}]
    /\ dropping' \subseteq Attempts /\ dropped' \subseteq Attempts
    /\ \A b \in Attempts \ {a} : CardSame(b)

\* The books gain rows of request a, and lose none.
BooksGrow(a) ==
    /\ row' \in [Attempts -> RowStatus \cup {None}]
    /\ \A b \in Attempts : row[b] # None => row'[b] # None
    /\ payments' \in {payments, payments \cup {a}}
    /\ granted' \in {granted, granted \cup {a}} /\ granted' \subseteq payments'
    /\ credited' = credited

\* A request goes on: it may touch its own card, charge and write its rows.
LEMMA BookStep ==
  ASSUME IInv, NEW a \in Attempts, att[a] # None, NEW t, Moves(a, t),
         UNCHANGED <<session, records, reads, hooks>>,
         remote' \in {remote, remote \cup {a}},
         marred' \in {marred, marred \cup {a}}, faults' \in 0..MaxFaults,
         OtherCardsKept(a), BooksGrow(a),
         t.txn = att[a].txn \/ session[a] # "succeeded",
         AttemptSound(a)', CardSound(a)'
  PROVE  IInv'
<1>1. TypeOK'
  BY MovedAtt DEF IInv, TypeOK, OtherCardsKept, records, reads, hooks, BooksGrow
<1>2. Kept
  BY MovedAtt DEF IInv, Kept, records, BooksGrow
<1>3. SessionSound(a)'
  BY <1>2, MovedAtt DEF IInv, SessionSound, Served, Kept, Moves, reads
<1>4. HookSound(a)'
  BY <1>2, MovedAtt DEF IInv, TypeOK, HookSound, Kept, Moves, hooks
<1>5. \A b \in Attempts : \/ /\ hook'[b] = hook[b] /\ pick'[b] = pick[b]
                             /\ b \in remote' \cup payments' => b \in remote \cup payments
                          \/ HookSound(b)'
  BY <1>4 DEF BooksGrow, hooks
<1>6. \A b \in Attempts : \/ /\ CardSame(b)
                             /\ Early(b)' => Early(b)
                             /\ At(b, "method")' <=> At(b, "method")
                          \/ CardSound(b)'
  BY MovedAtt DEF OtherCardsKept, IInv
<1>7. \A b \in Attempts \ {a} : att'[b] = att[b] /\ session'[b] = session[b]
  BY MovedAtt DEF IInv
<1> QED
  BY <1>1, <1>2, <1>3, <1>5, <1>6, <1>7, StepKeeps DEF records, reads

\* The same without the rows.
LEMMA MoveStep ==
  ASSUME IInv, NEW a \in Attempts, att[a] # None, NEW t, Moves(a, t),
         UNCHANGED <<session, records, books, reads, hooks>>,
         remote' \in {remote, remote \cup {a}},
         marred' \in {marred, marred \cup {a}}, faults' \in 0..MaxFaults,
         OtherCardsKept(a),
         t.txn = att[a].txn \/ session[a] # "succeeded",
         AttemptSound(a)', CardSound(a)'
  PROVE  IInv'
<1>1. BooksGrow(a)
  BY DEF IInv, TypeOK, BooksGrow, books
<1> QED
  BY <1>1, BookStep

\* A request whose card is left alone, and that is not about to store it.
LEMMA CardLeftAlone ==
  ASSUME IInv, NEW a \in Attempts, att[a] # None, NEW t, Moves(a, t),
         UNCHANGED cards, att[a].pc # "method", t.pc # "method",
         t.pc \in {"check", "begin", "vault"} => att[a].pc \in {"check", "begin", "vault"},
         marred \subseteq marred'
  PROVE  CardSound(a)' /\ OtherCardsKept(a)
<1>1. att'[a] = t /\ t # None
  BY MovedAtt DEF IInv
<1>2. CardSound(a)
  BY DEF IInv
<1>3. CardSound(a)'
  BY <1>1, <1>2 DEF CardSound, Early, At, cards, drops
<1> QED
  BY <1>3 DEF IInv, TypeOK, OtherCardsKept, CardSame, cards, drops

\* The facts about a request under way.
LEMMA RequestFacts ==
  ASSUME IInv, NEW a \in Attempts, att[a] # None
  PROVE  /\ att[a] \in Attempt /\ att[a].pc \in Steps /\ att[a].out \in Outcome
         /\ att[a].key \in Keys \cup {None} /\ att[a].price \in Prices \cup {None}
         /\ att[a].card \in Attempts \cup {None} /\ att[a].txn \in Attempts \cup {None}
         /\ att[a].pc \notin {"vault", "method", "done"} => att[a].price \in Prices
         /\ att[a].pc \notin {"check", "close", "done"} => att[a].price \notin Elsewhere
         /\ att[a].pc # "done" /\ att[a].price \notin Elsewhere \cup {None} =>
               session[a] # "succeeded"
         /\ AttemptSound(a)
  BY DEF IInv, TypeOK, Attempt, AttemptSound

\* A request that only moves.
LEMMA PlainMove ==
  ASSUME IInv, NEW a \in Attempts, att[a] # None, NEW t, Moves(a, t),
         UNCHANGED <<session, records, cards, remote, books, reads, hooks>>,
         marred' \in {marred, marred \cup {a}}, faults' \in 0..MaxFaults,
         att[a].pc # "method", t.pc # "method",
         t.pc \in {"check", "begin", "vault"} => att[a].pc \in {"check", "begin", "vault"},
         t.txn = att[a].txn \/ session[a] # "succeeded",
         AttemptSound(a)'
  PROVE  IInv'
  BY MoveStep, CardLeftAlone

\* A counted mishap stays within its bound.
LEMMA FaultType ==
  ASSUME TypeOK, Fault
  PROVE  faults' \in 0..MaxFaults
  BY DEF TypeOK, Fault

\* An attempt that is turned away changes nothing else.
LEMMA CheckEligibilityStep ==
  ASSUME IInv, NEW a \in Attempts, CheckEligibility(a)
  PROVE  IInv'
<1>1. /\ att[a] # None /\ att[a].pc = "check" /\ Ends(a, "close", "failed")
      /\ UNCHANGED <<session, records, cards, remote, books, reads, hooks, marred, faults>>
  BY DEF CheckEligibility, At
<1>2. PICK t : Moves(a, t) /\ t.pc = "close" /\ t.txn = att[a].txn /\ t.out = "failed"
  BY <1>1, Moved DEF Outcome, Steps, IInv
<1>3. AttemptSound(a)'
  BY <1>1, <1>2, MovedAtt, RequestFacts DEF IInv, AttemptSound, Moves, records
<1> QED
  BY <1>1, <1>2, <1>3, PlainMove DEF IInv, TypeOK

\* An eligible attempt is sent to a form or page, or goes on to claim its record.
LEMMA ProceedStep ==
  ASSUME IInv, NEW a \in Attempts, Proceed(a)
  PROVE  IInv'
<1>1. /\ att[a] # None /\ att[a].pc = "check"
      /\ UNCHANGED <<session, records, cards, remote, books, reads, hooks, marred, faults>>
      /\ \/ att[a].price \in Elsewhere /\ Ends(a, "close", "redirect")
         \/ /\ att[a].price \in Recurring \cup Sales
            /\ Goto(a, IF att[a].key = None THEN "begin" ELSE "vault")
  BY DEF Proceed, At, ProcessSubscription, ProcessOneTimePurchase, ProcessCCBillSubscription,
         ProcessStripePayment, ProcessNMISale, ClaimInner, Elsewhere
<1>2. CASE att[a].price \in Elsewhere /\ Ends(a, "close", "redirect")
  <2>1. PICK t : Moves(a, t) /\ t.pc = "close" /\ t.txn = att[a].txn /\ t.out = "redirect"
    BY <1>1, <1>2, Moved DEF Outcome, Steps, IInv
  <2>2. AttemptSound(a)'
    BY <1>1, <1>2, <2>1, MovedAtt, RequestFacts DEF IInv, AttemptSound, Moves, records, Prices
  <2> QED
    BY <1>1, <2>1, <2>2, PlainMove DEF IInv, TypeOK
<1>3. CASE /\ att[a].price \in Recurring \cup Sales
           /\ Goto(a, IF att[a].key = None THEN "begin" ELSE "vault")
  <2>1. PICK t : /\ Moves(a, t) /\ t.txn = att[a].txn /\ t.out = att[a].out
                 /\ t.pc = IF att[a].key = None THEN "begin" ELSE "vault"
    BY <1>1, <1>3, Moved DEF Steps, IInv
  <2>2. AttemptSound(a)'
    BY <1>1, <1>3, <2>1, MovedAtt, RequestFacts DEF IInv, AttemptSound, Moves, records
  <2> QED
    BY <1>1, <2>1, <2>2, PlainMove DEF IInv, TypeOK
<1> QED
  BY <1>1, <1>2, <1>3

\* GiveUp: the request has failed.
LEMMA GivesUp ==
  ASSUME IInv, NEW a \in Attempts, att[a] # None, GiveUp(a),
         att[a].pc \in {"vault", "method", "call", "cleanup", "save"},
         UNCHANGED <<session, records, books>>
  PROVE  /\ AttemptSound(a)'
         /\ \E t : Moves(a, t) /\ t.pc \in {"done", "settle"} /\ t.txn = att[a].txn
<1>1. PICK t : /\ Moves(a, t) /\ t.txn = att[a].txn /\ t.out = "failed"
               /\ t.pc = IF att[a].price = None THEN "done" ELSE "settle"
  BY Moved DEF Outcome, Steps, IInv, GiveUp
<1>2. AttemptSound(a)'
  BY <1>1, MovedAtt, RequestFacts DEF IInv, AttemptSound, Moves, records
<1> QED
  BY <1>1, <1>2

\* A stored card is used, or the vault refuses the new one.
LEMMA UseMethodStep ==
  ASSUME IInv, NEW a \in Attempts, UseMethod(a) \/ CreateVaultFails(a)
  PROVE  IInv'
<1>1. /\ att[a] # None /\ att[a].pc = "vault"
      /\ UNCHANGED <<session, records, cards, remote, books, reads, hooks, marred, faults>>
      /\ \/ GiveUp(a)
         \/ att[a].card # a /\ Goto(a, "call")
  BY DEF UseMethod, CreateVaultFails, At
<1>2. CASE GiveUp(a)
  BY <1>1, <1>2, GivesUp, PlainMove DEF IInv, TypeOK
<1>3. CASE att[a].card # a /\ Goto(a, "call")
  <2>1. PICK t : Moves(a, t) /\ t.pc = "call" /\ t.txn = att[a].txn /\ t.out = att[a].out
    BY <1>1, <1>3, Moved DEF Steps, IInv
  <2>2. AttemptSound(a)'
    BY <1>1, <1>3, <2>1, MovedAtt, RequestFacts DEF IInv, AttemptSound, Moves, records
  <2> QED
    BY <1>1, <2>1, <2>2, PlainMove DEF IInv, TypeOK
<1> QED
  BY <1>1, <1>2, <1>3

\* The processor has the card; the row of it is still to be written.
LEMMA CreateVaultStep ==
  ASSUME IInv, NEW a \in Attempts, CreateVault(a)
  PROVE  IInv'
<1>1. /\ att[a] # None /\ att[a].pc = "vault" /\ Goto(a, "method") /\ vault' = vault \cup {a}
      /\ UNCHANGED <<session, records, methods, del, drops, remote, books, reads, hooks, marred, faults>>
  BY DEF CreateVault, At
<1>2. PICK t : Moves(a, t) /\ t.pc = "method" /\ t.txn = att[a].txn /\ t.out = att[a].out
  BY <1>1, Moved DEF Steps, IInv
<1>3. AttemptSound(a)'
  BY <1>1, <1>2, MovedAtt, RequestFacts DEF IInv, AttemptSound, Moves, records
<1>4. att'[a] = t /\ t # None /\ CardSound(a)
  BY <1>1, <1>2, MovedAtt DEF IInv
<1>5. CardSound(a)'
  BY <1>1, <1>2, <1>4 DEF CardSound, Early, At, drops
<1>6. OtherCardsKept(a)
  BY <1>1 DEF OtherCardsKept, CardSame, IInv, TypeOK, drops
<1> QED
  BY <1>1, <1>2, <1>3, <1>5, <1>6, MoveStep DEF IInv, TypeOK

\* The row of the card is written: vault and table agree again.
LEMMA StoreMethodStep ==
  ASSUME IInv, NEW a \in Attempts, StoreMethod(a)
  PROVE  IInv'
<1>1. /\ att[a] # None /\ att[a].pc = "method" /\ AfterVault(a) /\ methods' = methods \cup {a}
      /\ UNCHANGED <<session, records, vault, del, drops, remote, books, reads, hooks, marred, faults>>
  BY DEF StoreMethod, At
<1>2. PICK t : /\ Moves(a, t) /\ t.txn = att[a].txn
               /\ IF att[a].price = None THEN t.pc = "done" /\ t.out = "success"
                  ELSE t.pc = "call" /\ t.out = att[a].out
  BY <1>1, Moved DEF Steps, Outcome, IInv, AfterVault
<1>3. AttemptSound(a)'
  BY <1>1, <1>2, MovedAtt, RequestFacts DEF IInv, AttemptSound, Moves, records
<1>4. att'[a] = t /\ t # None /\ CardSound(a)
  BY <1>1, <1>2, MovedAtt DEF IInv
<1>5. CardSound(a)'
  BY <1>1, <1>2, <1>4 DEF CardSound, Early, At, drops
<1>6. OtherCardsKept(a)
  BY <1>1 DEF OtherCardsKept, CardSame, IInv, TypeOK, drops
<1> QED
  BY <1>1, <1>2, <1>3, <1>5, <1>6, MoveStep DEF IInv, TypeOK

\* The row is not written: the vault entry is deleted, or the deletion fails too.
LEMMA StoreMethodFailsStep ==
  ASSUME IInv, NEW a \in Attempts, StoreMethodFails(a) \/ CompensationFails(a)
  PROVE  IInv'
<1>1. /\ att[a] # None /\ att[a].pc = "method" /\ GiveUp(a) /\ Fault
      /\ UNCHANGED <<session, records, methods, del, drops, remote, books, reads, hooks>>
      /\ \/ vault' = vault \ {a} /\ marred' = marred
         \/ vault' = vault /\ marred' = marred \cup {a}
  BY DEF StoreMethodFails, CompensationFails, At, cards
<1>2. PICK t : Moves(a, t) /\ t.pc \in {"done", "settle"} /\ t.txn = att[a].txn
  BY <1>1, GivesUp
<1>3. AttemptSound(a)'
  BY <1>1, GivesUp
<1>4. att'[a] = t /\ t # None /\ CardSound(a)
  BY <1>1, <1>2, MovedAtt DEF IInv
<1>5. CardSound(a)'
  BY <1>1, <1>2, <1>4 DEF CardSound, Early, At, drops
<1>6. OtherCardsKept(a)
  BY <1>1 DEF OtherCardsKept, CardSame, IInv, TypeOK, drops
<1>7. faults' \in 0..MaxFaults
  BY <1>1, FaultType DEF IInv
<1> QED
  BY <1>1, <1>2, <1>3, <1>5, <1>6, <1>7, MoveStep

\* Begin under the generated key: the attempt claims the record, repeats or is refused.
LEMMA BeginStep ==
  ASSUME IInv, NEW a \in Attempts, Begin(a)
  PROVE  IInv'
<1> DEFINE p == att[a].price
<1>1. /\ att[a] # None /\ att[a].pc = "begin"
      /\ UNCHANGED <<session, outer, cards, remote, books, reads, hooks, marred, faults>>
      /\ \/ inner[p] = None /\ inner' = [inner EXCEPT ![p] = Claimed(a)] /\ Goto(a, "vault")
         \/ /\ inner[p] # None /\ inner[p].st = "success" /\ inner' = inner
            /\ Replays(a, inner[p])
         \/ Ends(a, "close", "failed") /\ inner' = inner
  BY DEF Begin, At
<1>2. p \in Prices /\ p \notin Elsewhere /\ att[a].key = None /\ session[a] # "succeeded"
  BY <1>1, RequestFacts DEF AttemptSound
<1>3. CASE inner[p] = None /\ inner' = [inner EXCEPT ![p] = Claimed(a)] /\ Goto(a, "vault")
  <2>1. PICK t : Moves(a, t) /\ t.pc = "vault" /\ t.txn = att[a].txn /\ t.out = att[a].out
    BY <1>1, <1>3, Moved DEF Steps, IInv
  <2>2. Claimed(a) \in IdempotencyRecord /\ Claimed(a).st = "pending"
    BY DEF Claimed, IdempotencyRecord
  <2>3. inner' = [inner EXCEPT ![p] = Claimed(a)] /\ inner'[p] = Claimed(a)
    BY <1>2, <1>3 DEF IInv, TypeOK
  <2> HIDE DEF p
  <2>4. TypeOK'
    BY <1>1, <1>2, <2>1, <2>2, <2>3, MovedAtt DEF IInv, TypeOK, cards, drops, reads, hooks, books
  <2>5. Kept
    BY <1>1, <1>3, <2>1, <2>3, MovedAtt DEF IInv, TypeOK, Kept, books
  <2>6. AttemptSound(a)'
    <3>1. att'[a] = t /\ t.price = p /\ t.key = None /\ session'[a] # "succeeded"
      BY <1>1, <1>2, <2>1, MovedAtt DEF IInv, Moves, p
    <3>2. t.out # "redirect" /\ t.price \notin Elsewhere /\ t.price # None
      BY <1>1, <1>2, <2>1, <3>1, RequestFacts, CheckoutAssumption, NoneIsNothing
         DEF AttemptSound, p
    <3> QED
      BY <2>1, <3>1, <3>2 DEF AttemptSound
  <2>7. SessionSound(a)'
    BY <1>1, <1>2, <2>1, MovedAtt DEF IInv, SessionSound, Moves, reads
  <2>8. CardSound(a)'
    BY <1>1, <2>1, CardLeftAlone
  <2>9. \A q \in Prices : inner'[q] = inner[q] \/ InnerSound(q)'
    BY <1>2, <1>3, <2>2, <2>3 DEF InnerSound, IInv, TypeOK
  <2>10. /\ \A b \in Attempts \ {a} : att'[b] = att[b] /\ session'[b] = session[b]
         /\ \A b \in Attempts \ {a} : Early(b)' => Early(b)
         /\ \A b \in Attempts \ {a} : At(b, "method")' <=> At(b, "method")
    BY <1>1, <2>1, MovedAtt DEF IInv
  <2> QED
    BY <1>1, <2>4, <2>5, <2>6, <2>7, <2>8, <2>9, <2>10, StepKeeps
       DEF cards, drops, reads, hooks, books, CardSame
<1>4. ASSUME inner[p] # None, inner[p].st = "success", inner' = inner, Replays(a, inner[p])
      PROVE  IInv'
  <2>0. PICK b : b = inner[p].by
    OBVIOUS
  <2> DEFINE t == [att[a] EXCEPT !.pc = "close", !.out = "success", !.txn = b]
  <2>1. att[a] \in Attempt /\ b \in Attempts /\ Served(b)
    BY <1>1, <1>2, <1>4, <2>0 DEF IInv, InnerSound, Served, TypeOK
  <2>2. /\ t \in Attempt /\ t.pc = "close" /\ t.out = "success" /\ t.txn = b
        /\ t.price = att[a].price /\ t.key = att[a].key /\ t.card = att[a].card
    BY <2>1 DEF Attempt, Steps, Outcome
  <2>3. att' = [att EXCEPT ![a] = t]
    BY <1>4, <2>0, <2>1 DEF IInv, TypeOK, Replays
  <2> HIDE DEF t
  <2>4. Moves(a, t)
    BY <2>2, <2>3 DEF Moves
  <2>5. att'[a] = t /\ \A c \in Attempts : att[c] # None =>
                          att'[c] # None /\ att'[c].price = att[c].price
    BY <1>1, <2>4, MovedAtt DEF IInv
  <2>6. Served(b)'
    BY <1>1, <2>1, <2>2, <2>5 DEF Served, books, IInv, TypeOK
  <2>7. AttemptSound(a)'
    BY <1>1, <1>2, <2>2, <2>5, <2>6, RequestFacts DEF AttemptSound
  <2> QED
    BY <1>1, <1>2, <1>4, <2>2, <2>4, <2>7, PlainMove DEF IInv, TypeOK, records
<1>5. CASE Ends(a, "close", "failed") /\ inner' = inner
  <2>1. PICK t : Moves(a, t) /\ t.pc = "close" /\ t.txn = att[a].txn /\ t.out = "failed"
    BY <1>1, <1>5, Moved DEF Outcome, Steps, IInv
  <2>2. AttemptSound(a)'
    BY <1>1, <1>2, <1>5, <2>1, MovedAtt, RequestFacts DEF IInv, AttemptSound, Moves
  <2> QED
    BY <1>1, <1>5, <2>1, <2>2, PlainMove DEF IInv, TypeOK, records
<1> QED
  BY <1>1, <1>3, <1>4, <1>5

\* The request has charged: Call and what comes of it if the answer is lost.
LEMMA CallStep ==
  ASSUME IInv, NEW a \in Attempts, Call(a)
  PROVE  IInv'
<1> DEFINE t == [att[a] EXCEPT !.pc = "save", !.txn = a]
<1>1. /\ att[a] # None /\ att[a].pc = "call" /\ remote' = remote \cup {a}
      /\ UNCHANGED <<session, records, cards, books, reads, hooks, marred, faults>>
  BY DEF Call, AddRecurringSubscription, RunSale, At
<1>2. /\ att[a] \in Attempt /\ session[a] # "succeeded"
  BY <1>1, RequestFacts
<1>3. /\ t \in Attempt /\ t.pc = "save" /\ t.txn = a /\ t.out = att[a].out
      /\ t.price = att[a].price /\ t.key = att[a].key /\ t.card = att[a].card
  BY <1>2 DEF Attempt, Steps
<1>4. att' = [att EXCEPT ![a] = t]
  BY <1>2 DEF Call, IInv, TypeOK
<1> HIDE DEF t
<1>5. Moves(a, t)
  BY <1>3, <1>4 DEF Moves
<1>6. AttemptSound(a)'
  BY <1>1, <1>3, <1>5, MovedAtt, RequestFacts DEF IInv, AttemptSound, records
<1> QED
  BY <1>1, <1>2, <1>3, <1>5, <1>6, MoveStep, CardLeftAlone DEF IInv, TypeOK

\* A failed call gives up, deleting a card that the request has brought.
LEMMA CleanupStep ==
  ASSUME IInv, NEW a \in Attempts, att[a] # None, att[a].pc = "call", Cleanup(a),
         remote' \in {remote, remote \cup {a}}, faults' \in 0..MaxFaults,
         UNCHANGED <<session, records, vault, methods, drops, books, reads, hooks, marred>>
  PROVE  IInv'
<1>1. CASE GiveUp(a) /\ del' = del
  BY <1>1, GivesUp, MoveStep, CardLeftAlone DEF cards
<1>2. CASE Goto(a, "cleanup") /\ del' \in {del, [del EXCEPT ![a] = "remote"]}
           /\ (del' # del => del[a] = "no")
  <2>1. PICK t : Moves(a, t) /\ t.pc = "cleanup" /\ t.txn = att[a].txn /\ t.out = att[a].out
    BY <1>2, Moved DEF Steps, IInv
  <2>2. AttemptSound(a)'
    BY <2>1, MovedAtt, RequestFacts DEF IInv, AttemptSound, Moves, records
  <2>3. att'[a] = t /\ t # None /\ CardSound(a)
    BY <2>1, MovedAtt DEF IInv
  <2>4. CardSound(a)'
    BY <1>2, <2>1, <2>3 DEF CardSound, Early, At, IInv, TypeOK, drops
  <2>5. OtherCardsKept(a)
    BY <1>2 DEF OtherCardsKept, CardSame, IInv, TypeOK, drops
  <2> QED
    BY <2>1, <2>2, <2>4, <2>5, MoveStep
<1> QED
  BY <1>1, <1>2 DEF Cleanup

\* Refused and timed-out calls, the latter with or without a charge.
LEMMA CallFailsStep ==
  ASSUME IInv, NEW a \in Attempts, CallFails(a) \/ CallTimesOut(a)
  PROVE  IInv'
  BY CleanupStep, FaultType DEF CallFails, CallTimesOut, AddRecurringSubscription, RunSale, At,
     IInv, TypeOK

\* The cleanup is over, or a write after the charge fails.
LEMMA GiveUpStep ==
  ASSUME IInv, NEW a \in Attempts, CleanupDone(a) \/ SaveFails(a)
  PROVE  IInv'
<1>1. /\ att[a] # None /\ att[a].pc \in {"cleanup", "save"} /\ GiveUp(a)
      /\ UNCHANGED <<session, records, cards, remote, books, reads, hooks, marred>>
      /\ faults' \in 0..MaxFaults
  BY FaultType DEF CleanupDone, SaveFails, At, IInv, TypeOK
<1> QED
  BY <1>1, GivesUp, PlainMove

\* The subscription's row is inserted.
LEMMA InsertRowStep ==
  ASSUME IInv, NEW a \in Attempts, InsertRow(a)
  PROVE  IInv'
<1>1. /\ att[a] # None /\ att[a].pc = "save" /\ att[a].price \in Recurring
      /\ UNCHANGED <<session, records, cards, remote, payments, granted, credited, reads,
                     hooks, marred, faults>>
      /\ \/ GiveUp(a) /\ row' = row
         \/ row' = [row EXCEPT ![a] = "pending"] /\ Ends(a, "settle", "success")
  BY DEF InsertRow, At
<1>2. CASE GiveUp(a) /\ row' = row
  BY <1>1, <1>2, GivesUp, PlainMove DEF IInv, TypeOK, books
<1>3. CASE row' = [row EXCEPT ![a] = "pending"] /\ Ends(a, "settle", "success")
  <2>1. PICK t : Moves(a, t) /\ t.pc = "settle" /\ t.txn = att[a].txn /\ t.out = "success"
    BY <1>1, <1>3, Moved DEF Outcome, Steps, IInv
  <2>2. BooksGrow(a) /\ row'[a] = "pending" /\ row'[a] # None
    BY <1>1, <1>3 DEF IInv, TypeOK, BooksGrow, RowStatus
  <2>3. att'[a] = t /\ t # None /\ t.price \in Recurring /\ t.txn = a
    <3>1. att[a].txn = a
      BY <1>1, RequestFacts DEF AttemptSound
    <3> QED
      BY <1>1, <2>1, <3>1, MovedAtt DEF IInv, Moves
  <2>4. Served(a)' /\ Served(att[a].txn)'
    BY <2>2, <2>3 DEF Served
  <2>5. AttemptSound(a)'
    BY <1>1, <2>1, <2>3, <2>4, RequestFacts DEF AttemptSound, Moves, records
  <2> QED
    BY <1>1, <2>1, <2>2, <2>5, BookStep, CardLeftAlone DEF IInv, TypeOK
<1> QED
  BY <1>1, <1>2, <1>3

\* The payment of a one-off purchase is inserted.
LEMMA RegisterPurchaseStep ==
  ASSUME IInv, NEW a \in Attempts, RegisterPurchase(a)
  PROVE  IInv'
<1>1. /\ att[a] # None /\ att[a].pc = "save" /\ att[a].price \in Sales
      /\ payments' = payments \cup {a} /\ Goto(a, "grant")
      /\ UNCHANGED <<session, records, cards, remote, row, granted, credited, reads, hooks,
                     marred, faults>>
  BY DEF RegisterPurchase, At
<1>2. PICK t : Moves(a, t) /\ t.pc = "grant" /\ t.txn = att[a].txn /\ t.out = att[a].out
  BY <1>1, Moved DEF Steps, IInv
<1>3. BooksGrow(a)
  BY <1>1 DEF IInv, TypeOK, BooksGrow
<1>4. AttemptSound(a)'
  BY <1>1, <1>2, MovedAtt, RequestFacts DEF IInv, AttemptSound, Moves, records
<1> QED
  BY <1>1, <1>2, <1>3, <1>4, BookStep, CardLeftAlone DEF IInv, TypeOK

\* The entitlement is granted, or the failure is logged.
LEMMA GrantStep ==
  ASSUME IInv, NEW a \in Attempts, Grant(a) \/ GrantFails(a)
  PROVE  IInv'
<1>1. /\ att[a] # None /\ att[a].pc = "grant" /\ Ends(a, "settle", "success")
      /\ granted' \in {granted, granted \cup {a}} /\ faults' \in 0..MaxFaults
      /\ UNCHANGED <<session, records, cards, remote, row, payments, credited, reads, hooks,
                     marred>>
  BY FaultType DEF Grant, GrantFails, At, IInv, TypeOK, books
<1>2. PICK t : Moves(a, t) /\ t.pc = "settle" /\ t.txn = att[a].txn /\ t.out = "success"
  BY <1>1, Moved DEF Outcome, Steps, IInv
<1>3. att[a].price \in Sales /\ a \in payments /\ att[a].txn = a
  BY <1>1, RequestFacts DEF AttemptSound
<1>4. BooksGrow(a)
  BY <1>1, <1>3 DEF IInv, TypeOK, BooksGrow
<1>5. att'[a] = t /\ t # None
  BY <1>1, <1>2, MovedAtt DEF IInv
<1>6. Served(a)' /\ Served(att[a].txn)'
  BY <1>1, <1>2, <1>3, <1>5 DEF Served, Moves
<1>7. AttemptSound(a)'
  BY <1>1, <1>2, <1>3, <1>5, <1>6, RequestFacts DEF AttemptSound, Moves, records
<1> QED
  BY <1>1, <1>2, <1>4, <1>7, BookStep, CardLeftAlone DEF IInv, TypeOK

\* The inner record is completed or failed.
LEMMA SettleStep ==
  ASSUME IInv, NEW a \in Attempts, Settle(a)
  PROVE  IInv'
<1> DEFINE p == att[a].price
           rec == Recorded(a, att[a].out)
<1>1. /\ att[a] # None /\ att[a].pc = "settle" /\ Goto(a, "close")
      /\ inner' = IF att[a].key = None THEN [inner EXCEPT ![p] = rec] ELSE inner
      /\ UNCHANGED <<session, outer, cards, remote, books, reads, hooks, marred, faults>>
  BY DEF Settle, At
<1>2. /\ p \in Prices \ Elsewhere /\ session[a] # "succeeded"
      /\ att[a].out \in {"success", "failed"}
      /\ att[a].out = "success" => Served(a)
  BY <1>1, RequestFacts DEF AttemptSound, Outcome
<1>3. PICK t : Moves(a, t) /\ t.pc = "close" /\ t.txn = att[a].txn /\ t.out = att[a].out
  BY <1>1, Moved DEF Steps, IInv
<1>5. rec \in IdempotencyRecord /\ rec # None /\ rec.by = a /\ rec.st = att[a].out
  BY <1>2 DEF Recorded, IdempotencyRecord
<1>6. att[a].key = None => inner'[p] = rec /\ \A q \in Prices \ {p} : inner'[q] = inner[q]
  BY <1>1, <1>2 DEF IInv, TypeOK
<1> HIDE DEF p, rec
<1>7. TypeOK'
  BY <1>1, <1>2, <1>3, <1>5, MovedAtt DEF IInv, TypeOK, cards, drops, reads, hooks, books
<1>8. Kept
  BY <1>1, <1>3, MovedAtt DEF IInv, Kept, books
<1>9. att'[a] = t /\ t # None
  BY <1>1, <1>3, MovedAtt DEF IInv
<1>10. AttemptSound(a)'
  <2>1. att[a].out = "success" => Served(att[a].txn)
    BY <1>1, RequestFacts DEF AttemptSound
  <2>2. att[a].out = "success" => Served(att[a].txn)'
    BY <1>3, <1>8, <1>9, <2>1 DEF Served, Kept
  <2> QED
    BY <1>1, <1>2, <1>3, <1>9, <2>2, RequestFacts DEF AttemptSound, Moves, p
<1>11. SessionSound(a)'
  BY <1>1, <1>2, <1>3, <1>9 DEF IInv, SessionSound, Moves, reads
<1>12. CardSound(a)'
  BY <1>1, <1>3, CardLeftAlone
<1>13. \A q \in Prices : inner'[q] = inner[q] \/ InnerSound(q)'
  <2>1. att[a].out = "success" => Served(a)'
    BY <1>2, <1>8 DEF Served, Kept
  <2> QED
    BY <1>1, <1>5, <1>6, <2>1 DEF InnerSound
<1>14. /\ \A b \in Attempts \ {a} : att'[b] = att[b] /\ session'[b] = session[b]
       /\ \A b \in Attempts \ {a} : Early(b)' => Early(b)
       /\ \A b \in Attempts \ {a} : At(b, "method")' <=> At(b, "method")
  BY <1>1, <1>3, MovedAtt DEF IInv
<1> QED
  BY <1>1, <1>7, <1>8, <1>10, <1>11, <1>12, <1>13, <1>14, StepKeeps
     DEF cards, drops, reads, hooks, books, CardSame

\* The request is answered: its record is written, its session perhaps.
LEMMA AnswerStep ==
  ASSUME IInv, NEW a \in Attempts, att[a] # None, att[a].pc = "close",
         NEW st \in {"success", "failed"}, Answer(a, st),
         NEW t, Moves(a, t), t.pc = "done", t.txn = att[a].txn, t.out \in {att[a].out, "failed"},
         session' \in {session, [session EXCEPT ![a] = StatusOf(att[a].out)]},
         faults' \in 0..MaxFaults,
         UNCHANGED <<inner, cards, remote, books, reads, hooks, marred>>
  PROVE  IInv'
<1> DEFINE k == att[a].key
           rec == Recorded(a, st)
<1>1. outer' = IF k = None THEN outer ELSE [outer EXCEPT ![k] = rec]
  BY DEF Answer
<1>2. k \in Keys \cup {None} /\ rec \in IdempotencyRecord
  BY RequestFacts DEF Recorded, IdempotencyRecord
<1> HIDE DEF k, rec
<1>6. session' \in [Attempts -> Status \cup {None}]
  BY DEF IInv, TypeOK, StatusOf, Status
<1>7. TypeOK'
  BY <1>1, <1>2, <1>6, MovedAtt DEF IInv, TypeOK, cards, drops, reads, hooks, books
<1>8. Kept
  BY MovedAtt DEF IInv, Kept, books
<1>9. att'[a] = t /\ t # None
  BY MovedAtt DEF IInv
<1>10. AttemptSound(a)'
  BY <1>9, RequestFacts DEF AttemptSound, Moves
<1>11. SessionSound(a)'
  <2>1. session[a] = "succeeded" => Served(att[a].txn)
    BY DEF IInv, SessionSound
  <2>2. att[a].out = "success" => Served(att[a].txn)
    BY RequestFacts DEF AttemptSound
  <2>4. Served(att[a].txn) => Served(att[a].txn)'
    BY <1>8, <1>9 DEF Served, Kept
  <2>5. session'[a] \in {session[a], StatusOf(att[a].out)}
    BY DEF IInv, TypeOK
  <2>6. StatusOf(att[a].out) = "succeeded" => att[a].out = "success"
    BY DEF StatusOf
  <2> QED
    BY <1>9, <2>1, <2>2, <2>4, <2>5, <2>6 DEF SessionSound, Moves
<1>12. CardSound(a)'
  BY CardLeftAlone
<1>14. /\ \A b \in Attempts \ {a} : att'[b] = att[b] /\ session'[b] = session[b]
       /\ \A b \in Attempts \ {a} : Early(b)' => Early(b)
       /\ \A b \in Attempts \ {a} : At(b, "method")' <=> At(b, "method")
  BY MovedAtt DEF IInv, TypeOK
<1> QED
  BY <1>7, <1>8, <1>10, <1>11, <1>12, <1>14, StepKeeps
     DEF cards, drops, reads, hooks, books, CardSame

\* The session is saved, or that fails, and the request is answered.
LEMMA CloseStep ==
  ASSUME IInv, NEW a \in Attempts, Close(a) \/ CloseFails(a)
  PROVE  IInv'
<1>1. CASE Close(a)
  <2>1. /\ att[a] # None /\ att[a].pc = "close" /\ Goto(a, "done")
        /\ Answer(a, IF att[a].out = "failed" \/ Taken(a) THEN "failed" ELSE "success")
        /\ session' \in {session, [session EXCEPT ![a] = StatusOf(att[a].out)]}
        /\ UNCHANGED <<inner, cards, remote, books, reads, hooks, marred, faults>>
    BY <1>1 DEF Close, At
  <2>2. PICK t : Moves(a, t) /\ t.pc = "done" /\ t.txn = att[a].txn /\ t.out = att[a].out
    BY <2>1, Moved DEF Steps, IInv
  <2>3. PICK st \in {"success", "failed"} : Answer(a, st)
    BY <2>1
  <2> QED
    BY <2>1, <2>2, <2>3, AnswerStep DEF IInv, TypeOK
<1>2. CASE CloseFails(a)
  <2>1. /\ att[a] # None /\ att[a].pc = "close" /\ Ends(a, "done", "failed")
        /\ Answer(a, "failed") /\ session' = session /\ faults' \in 0..MaxFaults
        /\ UNCHANGED <<inner, cards, remote, books, reads, hooks, marred>>
    BY <1>2, FaultType DEF CloseFails, At, IInv
  <2>2. PICK t : Moves(a, t) /\ t.pc = "done" /\ t.txn = att[a].txn /\ t.out = "failed"
    BY <2>1, Moved DEF Steps, Outcome, IInv
  <2> QED
    BY <2>1, <2>2, AnswerStep
<1> QED
  BY <1>1, <1>2

\* The process dies, wherever the attempt is.
LEMMA CrashStep ==
  ASSUME IInv, NEW a \in Attempts, Crash(a)
  PROVE  IInv'
<1>1. /\ att[a] # None /\ att[a].pc # "done" /\ Ends(a, "done", "failed")
      /\ faults' \in 0..MaxFaults
      /\ marred' = IF att[a].pc = "method" THEN marred \cup {a} ELSE marred
      /\ UNCHANGED <<session, records, cards, remote, books, reads, hooks>>
  BY FaultType DEF Crash, At, IInv
<1>2. PICK t : Moves(a, t) /\ t.pc = "done" /\ t.txn = att[a].txn /\ t.out = "failed"
  BY <1>1, Moved DEF Steps, Outcome, IInv
<1>3. att'[a] = t /\ t # None /\ CardSound(a)
  BY <1>1, <1>2, MovedAtt DEF IInv
<1>4. AttemptSound(a)'
  BY <1>1, <1>2, <1>3, RequestFacts DEF AttemptSound, Moves
<1>5. CardSound(a)'
  BY <1>1, <1>2, <1>3 DEF CardSound, Early, At, cards, drops
<1>6. OtherCardsKept(a)
  BY <1>1 DEF OtherCardsKept, CardSame, IInv, TypeOK, cards, drops
<1> QED
  BY <1>1, <1>2, <1>4, <1>5, <1>6, MoveStep

\* A record may expire at any time.
LEMMA ExpireStep ==
  ASSUME IInv, \/ \E k \in Keys : ExpireOuter(k)
               \/ \E p \in Prices : ExpireInner(p)
  PROVE  IInv'
<1>1. /\ UNCHANGED <<att, session, cards, remote, books, reads, hooks, marred, faults>>
      /\ \A p \in Prices : inner'[p] \in {inner[p], None}
      /\ outer' \in [Keys -> IdempotencyRecord \cup {None}]
      /\ inner' \in [Prices -> IdempotencyRecord \cup {None}]
  BY DEF ExpireOuter, ExpireInner, IInv, TypeOK
<1>2. TypeOK'
  BY <1>1 DEF IInv, TypeOK, cards, drops, reads, hooks, books
<1>4. Kept
  BY <1>1 DEF Kept, books
<1>5. \A p \in Prices : inner'[p] = inner[p] \/ InnerSound(p)'
  BY <1>1 DEF InnerSound
<1>6. \A b \in Attempts : (Early(b)' <=> Early(b)) /\ (At(b, "method")' <=> At(b, "method"))
  BY <1>1 DEF Early, At
<1> QED
  BY <1>1, <1>2, <1>4, <1>5, <1>6, StepKeeps DEF cards, drops, reads, hooks, books, CardSame

\* A step of DeleteVault or DeletePaymentMethod.
LEMMA DeleteStep ==
  ASSUME IInv, NEW b \in Attempts,
         \/ DeletePaymentMethod(b) \/ DropMethod(b)
         \/ DeleteVault(b) \/ DeleteCustomerVault(b) \/ DeleteMethod(b) \/ DeleteFails(b)
  PROVE  IInv'
<1>1. /\ UNCHANGED <<att, session, records, remote, books, reads, hooks>>
      /\ faults' \in 0..MaxFaults /\ marred' \in {marred, marred \cup {b}}
  BY FaultType DEF DeletePaymentMethod, DropMethod, DeleteVault, DeleteCustomerVault,
                   DeleteMethod, DeleteFails, IInv, TypeOK
<1>2. OtherCardsKept(b)
  BY DEF DeletePaymentMethod, DropMethod, DeleteVault, DeleteCustomerVault,
         DeleteMethod, DeleteFails, IInv, TypeOK, OtherCardsKept, CardSame, drops
<1>3. TypeOK'
  BY <1>1, <1>2 DEF IInv, TypeOK, OtherCardsKept, books, records, reads, hooks
<1>4. Kept
  BY <1>1 DEF Kept, books, records
<1>5. \A c \in Attempts : (Early(c)' <=> Early(c)) /\ (At(c, "method")' <=> At(c, "method"))
  BY <1>1 DEF Early, At
<1>6. CardSound(b)'
  <2>1. CardSound(b)
    BY DEF IInv
  <2>2. CASE DeleteVault(b)
    BY <1>5, <2>1, <2>2 DEF CardSound, DeleteVault, IInv, TypeOK, drops
  <2>3. CASE DeleteCustomerVault(b)
    BY <1>5, <2>1, <2>3 DEF CardSound, DeleteCustomerVault, IInv, TypeOK, drops
  <2>4. CASE DeleteMethod(b)
    BY <1>5, <2>1, <2>4 DEF CardSound, DeleteMethod, IInv, TypeOK, drops
  <2>5. CASE DeleteFails(b)
    BY <1>5, <2>1, <2>5 DEF CardSound, DeleteFails, IInv, TypeOK, drops
  <2>6. CASE DeletePaymentMethod(b)
    BY <1>5, <2>1, <2>6 DEF CardSound, DeletePaymentMethod, IInv, TypeOK
  <2>7. CASE DropMethod(b)
    BY <1>5, <2>1, <2>7 DEF CardSound, DropMethod, IInv, TypeOK
  <2> QED
    BY <2>2, <2>3, <2>4, <2>5, <2>6, <2>7
<1> QED
  BY <1>1, <1>2, <1>3, <1>4, <1>5, <1>6, StepKeeps
     DEF OtherCardsKept, books, records, reads, hooks

\* A step that leaves requests, records and cards alone and keeps the rows.
LEMMA OutsideStep ==
  ASSUME IInv, TypeOK', UNCHANGED <<att, records, cards>>,
         payments \subseteq payments', marred \subseteq marred',
         \A a \in Attempts :
            att[a] # None /\ att[a].price \in Recurring /\ row[a] # None => row'[a] # None,
         \A a \in Attempts : session'[a] = session[a] \/ AttemptSound(a)',
         \A a \in Attempts : \/ session'[a] = session[a] /\ copies'[a] = copies[a]
                             \/ SessionSound(a)',
         \A a \in Attempts : \/ /\ hook'[a] = hook[a] /\ pick'[a] = pick[a]
                                /\ a \in remote' \cup payments' => a \in remote \cup payments
                             \/ HookSound(a)'
  PROVE  IInv'
<1>2. Kept
  BY DEF Kept, records
<1>3. \A c \in Attempts : (Early(c)' <=> Early(c)) /\ (At(c, "method")' <=> At(c, "method"))
  BY DEF Early, At
<1> QED
  BY <1>2, <1>3, StepKeeps DEF records, cards, drops, CardSame

\* Activate and Cancel change a row's status.
LEMMA RowStep ==
  ASSUME IInv, NEW a \in Attempts, Activate(a) \/ Cancel(a)
  PROVE  IInv'
<1>1. /\ row' \in [Attempts -> RowStatus \cup {None}]
      /\ \A b \in Attempts : row[b] # None => row'[b] # None
      /\ UNCHANGED <<att, session, records, cards, remote, payments, granted, credited, reads,
                     hooks, marred, faults>>
  BY DEF Activate, Cancel, IInv, TypeOK, RowStatus
<1>2. TypeOK'
  BY <1>1 DEF IInv, TypeOK, records, cards, drops, reads, hooks
<1> QED
  BY <1>1, <1>2, OutsideStep DEF reads, hooks

\* The customer pays on the processor's page.
LEMMA HostedPaysStep ==
  ASSUME IInv, NEW a \in Attempts, HostedPays(a)
  PROVE  IInv'
<1>1. /\ att[a] # None /\ remote' = remote \cup {a}
      /\ UNCHANGED <<att, session, records, cards, books, reads, hooks, marred, faults>>
  BY DEF HostedPays, At
<1>2. TypeOK'
  BY <1>1 DEF IInv, TypeOK, records, cards, drops, books, reads, hooks
<1>3. HookSound(a)'
  BY <1>1 DEF IInv, HookSound, books, hooks
<1> QED
  BY <1>1, <1>2, <1>3, OutsideStep DEF books, reads, hooks

\* A copy of a session is taken.
LEMMA CopyTaken ==
  ASSUME IInv, NEW a \in Attempts, session[a] # None, NEW st \in {"expired", "failed"}, ReadAs(a, st),
         UNCHANGED <<att, session, records, cards, remote, books, undone, hooks, marred, faults>>
  PROVE  IInv'
<1>1. TypeOK'
  BY DEF ReadAs, IInv, TypeOK, records, cards, drops, books, hooks
<1>2. \A b \in Attempts \ {a} : copies'[b] = copies[b]
  BY DEF ReadAs, IInv, TypeOK
<1>3. SessionSound(a)'
  <2>1. Served(att[a].txn)' = Served(att[a].txn)
    BY DEF Served, books
  <2> QED
    BY <2>1 DEF IInv, SessionSound
<1> QED
  BY <1>1, <1>2, <1>3, OutsideStep DEF books, hooks

\* GetSession takes a copy of a session past its expiry, NewSaleFailure of one
\* that is open.
LEMMA ReadStep ==
  ASSUME IInv, NEW a \in Attempts, GetSession(a) \/ HandleNewSaleFailure(a)
  PROVE  IInv'
<1>1. PICK b \in Attempts, st \in {"expired", "failed"} : NotTerminal(b) /\ ReadAs(b, st)
  BY DEF GetSession, HandleNewSaleFailure, OpenSessions, Of
<1>2. session[b] # None
  BY <1>1 DEF NotTerminal, Status
<1> QED
  BY <1>1, <1>2, CopyTaken DEF GetSession, HandleNewSaleFailure

\* The copy is written: no request relies on a session that did not succeed.
LEMMA WriteBackStep ==
  ASSUME IInv, NEW a \in Attempts, NEW st \in {"expired", "failed"}, WriteBack(a, st)
  PROVE  IInv'
<1>1. /\ copies[a] # {} /\ session' = [session EXCEPT ![a] = st]
      /\ copies' = [copies EXCEPT ![a] = @ \ {st}]
      /\ undone' \in {undone, undone \cup {a}}
      /\ UNCHANGED <<att, records, cards, remote, books, hooks, marred, faults>>
  BY DEF WriteBack
<1>2. att[a] # None
  BY <1>1 DEF IInv, SessionSound
<1>3. TypeOK'
  BY <1>1 DEF IInv, TypeOK, Status, records, cards, drops, books, hooks
<1>4. /\ session'[a] = st
      /\ \A b \in Attempts \ {a} : session'[b] = session[b] /\ copies'[b] = copies[b]
  BY <1>1 DEF IInv, TypeOK
<1>5. SessionSound(a)'
  BY <1>1, <1>2, <1>4 DEF SessionSound
<1>6. AttemptSound(a)'
  <2>1. Served(a)' = Served(a) /\ Served(att[a].txn)' = Served(att[a].txn)
    BY <1>1 DEF Served, books
  <2>2. att[a].pc # "done" /\ att[a].price \notin Elsewhere \cup {None} => session'[a] # "succeeded"
    BY <1>4
  <2> QED
    BY <1>1, <2>1, <2>2, RequestFacts, <1>2 DEF AttemptSound, books
<1> QED
  BY <1>1, <1>3, <1>4, <1>5, <1>6, OutsideStep DEF books, hooks

\* A notice about a payment made elsewhere writes a request's outcome, its
\* session and its transaction.
LEMMA NoticeStep ==
  ASSUME IInv, NEW b \in Attempts, att[b] # None, att[b].price \in Elsewhere,
         NEW t, Moves(b, t), t.pc = att[b].pc, t.out \in {att[b].out, "failed"},
         session' \in {session, [session EXCEPT ![b] = "succeeded"]}, SessionSound(b)',
         copies' \in [Attempts -> SUBSET {"expired", "failed"}],
         \A a \in Attempts \ {b} : copies'[a] = copies[a],
         hook' \in [Attempts -> HookStep],
         \A a \in Attempts : hook'[a] = hook[a] \/ HookSound(a)',
         UNCHANGED <<records, cards, remote, books, undone, pick, marred, faults>>
  PROVE  IInv'
<1>1. TypeOK'
  BY MovedAtt DEF IInv, TypeOK, records, cards, drops, books, Status
<1>2. Kept
  BY MovedAtt DEF IInv, Kept, records, books
<1>3. att'[b] = t /\ t # None
  BY MovedAtt DEF IInv
<1>4. AttemptSound(b)'
  BY <1>3, RequestFacts DEF AttemptSound, Moves, Elsewhere, Prices, records
<1>5. \A c \in Attempts : (Early(c)' => Early(c)) /\ (At(c, "method")' <=> At(c, "method"))
  <2>1. (Early(b)' => Early(b)) /\ (At(b, "method")' <=> At(b, "method"))
    BY <1>3 DEF Early, At
  <2> QED
    BY <2>1, MovedAtt DEF IInv
<1>6. \A c \in Attempts \ {b} : att'[c] = att[c] /\ session'[c] = session[c]
  BY MovedAtt DEF IInv, TypeOK
<1> QED
  BY <1>1, <1>2, <1>4, <1>5, <1>6, StepKeeps DEF records, cards, drops, CardSame, books

\* A page that expired unpaid: a copy of its session is taken.
LEMMA HandleExpiredStep ==
  ASSUME IInv, NEW a \in Attempts, HandleExpired(a)
  PROVE  IInv'
<1> DEFINE t == [att[a] EXCEPT !.out = "failed"]
<1>1. /\ att[a] # None /\ att[a].price \in Elsewhere
      /\ att' = [att EXCEPT ![a] = t]
      /\ UNCHANGED <<session, records, cards, remote, books, undone, hooks, marred, faults>>
      /\ \A b \in Attempts \ {a} : copies'[b] = copies[b]
      /\ copies' \in [Attempts -> SUBSET {"expired", "failed"}]
  BY DEF HandleExpired, At, Elsewhere, IInv, TypeOK, ReadAs
<1>2. att[a] \in Attempt
  BY <1>1, RequestFacts
<1>3. /\ t \in Attempt /\ t.pc = att[a].pc /\ t.out = "failed" /\ t.txn = att[a].txn
      /\ t.price = att[a].price /\ t.key = att[a].key /\ t.card = att[a].card
  BY <1>2 DEF Attempt, Outcome
<1> HIDE DEF t
<1>4. Moves(a, t)
  BY <1>1, <1>3 DEF Moves
<1>5. /\ att'[a] = t /\ t # None
      /\ \A b \in Attempts : att[b] # None => att'[b] # None /\ att'[b].price = att[b].price
  BY <1>1, <1>4, MovedAtt DEF IInv
<1>6. SessionSound(a)'
  BY <1>1, <1>3, <1>5 DEF IInv, SessionSound, Served, books
<1>7. hook' = hook /\ pick' = pick /\ hook' \in [Attempts -> HookStep]
  BY <1>1 DEF hooks, IInv, TypeOK
<1> QED
  BY <1>1, <1>3, <1>4, <1>6, <1>7, NoticeStep

\* A page was paid: the payment is inserted.
LEMMA HandleCompletedStep ==
  ASSUME IInv, NEW a \in Attempts, HandleCompleted(a)
  PROVE  IInv'
<1>1. /\ a \in remote /\ att[a].price \in Elsewhere /\ payments' = payments \cup {a}
      /\ hook' = [hook EXCEPT ![a] = "grant"]
      /\ UNCHANGED <<att, session, records, cards, remote, row, granted, credited, reads, pick,
                     marred, faults>>
  BY DEF HandleCompleted, Elsewhere
<1>2. TypeOK'
  BY <1>1 DEF IInv, TypeOK, records, cards, drops, reads, HookStep
<1>3. HookSound(a)'
  BY <1>1 DEF IInv, HookSound, TypeOK
<1>4. \A b \in Attempts \ {a} : hook'[b] = hook[b]
  BY <1>1 DEF IInv, TypeOK
<1> QED
  BY <1>1, <1>2, <1>3, <1>4, OutsideStep DEF reads

\* The steps of a handler that write no session, and its failure.
LEMMA HookGoesOn ==
  ASSUME IInv, NEW a \in Attempts,
         HookGrant(a) \/ HookRead(a) \/ HookCredit(a) \/ HookFails(a)
  PROVE  IInv'
<1>1. /\ hook[a] # "no"
      /\ granted' \in {granted, granted \cup {a}} /\ credited' \in {credited, credited \cup {a}}
      /\ marred' \in {marred, marred \cup {a}} /\ faults' \in 0..MaxFaults
      /\ UNCHANGED <<att, session, records, cards, remote, row, payments, reads, pick>>
  BY FaultType DEF HookGrant, HookRead, HookCredit, HookFails, books, IInv, TypeOK
<1>2. PICK next \in HookStep : hook' = [hook EXCEPT ![a] = next]
  BY DEF HookGrant, HookRead, HookCredit, HookFails, AfterMark, HookStep
<1>3. HookSound(a)
  BY DEF IInv
<1>4. TypeOK'
  BY <1>1, <1>2, <1>3 DEF IInv, TypeOK, HookSound, records, cards, drops, reads
<1>5. \A b \in Attempts \ {a} : hook'[b] = hook[b]
  BY <1>2 DEF IInv, TypeOK
<1>6. HookSound(a)'
  BY <1>1, <1>3 DEF HookSound
<1> QED
  BY <1>1, <1>4, <1>5, <1>6, OutsideStep DEF reads

\* The session a handler picked is marked as succeeded.
LEMMA HookWriteStep ==
  ASSUME IInv, NEW a \in Attempts, HookWrite(a)
  PROVE  IInv'
<1>0. PICK b : b = pick[a]
  OBVIOUS
<1> DEFINE t == [att[b] EXCEPT !.txn = a]
<1>1. /\ hook[a] = "write" /\ hook' = [hook EXCEPT ![a] = AfterMark(a)]
      /\ att' = [att EXCEPT ![b] = t]
      /\ session' = [session EXCEPT ![b] = "succeeded"]
      /\ UNCHANGED <<records, cards, remote, books, reads, pick, marred, faults>>
  BY <1>0 DEF HookWrite
<1>2. /\ a \in payments /\ att[a] # None /\ att[a].price \in Elsewhere
      /\ att[b] # None /\ att[b].price = att[a].price
  BY <1>0, <1>1 DEF IInv, HookSound
<1>3. att[a].price \notin Recurring /\ b \in Attempts
  BY <1>0, <1>2 DEF IInv, TypeOK
<1>4. att[b] \in Attempt
  BY <1>2, <1>3, RequestFacts
<1>5. /\ t \in Attempt /\ t.pc = att[b].pc /\ t.out = att[b].out /\ t.txn = a
      /\ t.price = att[b].price /\ t.key = att[b].key /\ t.card = att[b].card
  BY <1>4 DEF Attempt
<1> HIDE DEF t
<1>6. Moves(b, t)
  BY <1>1, <1>5 DEF Moves
<1>7. att'[b] = t /\ t # None /\ att'[a] # None /\ att'[a].price = att[a].price
  BY <1>2, <1>3, <1>6, MovedAtt DEF IInv
<1>8. SessionSound(b)'
  BY <1>1, <1>2, <1>3, <1>5, <1>7 DEF SessionSound, Served, books
<1>9. /\ hook' \in [Attempts -> HookStep]
      /\ \A c \in Attempts \ {a} : hook'[c] = hook[c]
  BY <1>1 DEF IInv, TypeOK, HookStep, AfterMark
<1>10. HookSound(a)'
  <2>1. \A c \in Attempts : att[c] # None => att'[c] # None /\ att'[c].price = att[c].price
    BY <1>2, <1>3, <1>6, MovedAtt DEF IInv
  <2> QED
    BY <1>1, <1>2, <1>7, <2>1 DEF IInv, TypeOK, HookSound, books
<1>11. copies' = copies /\ undone' = undone /\ copies' \in [Attempts -> SUBSET {"expired", "failed"}]
  BY <1>1 DEF reads, IInv, TypeOK
<1> QED
  BY <1>1, <1>2, <1>3, <1>5, <1>6, <1>8, <1>9, <1>10, <1>11, NoticeStep

\* A form was paid: the row and the payment are written.
LEMMA NewSaleSuccessStep ==
  ASSUME IInv, NEW a \in Attempts, HandleNewSaleSuccess(a)
  PROVE  IInv'
<1> DEFINE p == att[a].price
           left == {b \in Of(p) : row[b] # None}
<1>1. /\ a \in remote /\ p \in Forms
      /\ row' = [b \in Attempts |-> IF b = a THEN "active" ELSE IF b \in left THEN None ELSE row[b]]
      /\ payments' = payments \cup {a} /\ granted' \in {granted, granted \cup {a}}
      /\ hook' = [hook EXCEPT ![a] = "form"]
      /\ UNCHANGED <<att, session, records, cards, remote, credited, reads, pick, marred, faults>>
  BY DEF HandleNewSaleSuccess
<1>2. TypeOK'
  BY <1>1 DEF IInv, TypeOK, records, cards, drops, reads, RowStatus, HookStep
<1>3. ASSUME NEW b \in Attempts, att[b].price \in Recurring, row[b] # None
      PROVE  row'[b] # None
  BY <1>1, <1>3 DEF Of, Elsewhere, RowStatus
<1>4. HookSound(a)'
  BY <1>1 DEF IInv, HookSound, TypeOK, Elsewhere
<1>5. \A b \in Attempts \ {a} : hook'[b] = hook[b]
  BY <1>1 DEF IInv, TypeOK
<1> QED
  BY <1>1, <1>2, <1>3, <1>4, <1>5, OutsideStep DEF reads

\* The notice of a form sale picks an open session of its price.
LEMMA HookSessionStep ==
  ASSUME IInv, NEW a \in Attempts, HookSession(a)
  PROVE  IInv'
<1>1. /\ hook[a] = "form"
      /\ UNCHANGED <<att, session, records, cards, remote, books, reads, marred, faults>>
  BY DEF HookSession
<1>2. a \in payments /\ att[a] # None /\ att[a].price \in Elsewhere
  BY <1>1 DEF IInv, HookSound
<1>3. PICK next \in HookStep : hook' = [hook EXCEPT ![a] = next]
  BY DEF HookSession, HookStep
<1>4. \/ pick' = pick
      \/ \E b \in OpenSessions(att[a].price) : pick' = [pick EXCEPT ![a] = b]
  BY DEF HookSession
<1>5. /\ pick' \in [Attempts -> Attempts]
      /\ \A b \in Attempts \ {a} : pick'[b] = pick[b] /\ hook'[b] = hook[b]
      /\ pick'[a] = pick[a] \/ (att[pick'[a]] # None /\ att[pick'[a]].price = att[a].price)
  BY <1>3, <1>4 DEF IInv, TypeOK, OpenSessions, Of
<1>6. TypeOK'
  BY <1>1, <1>3, <1>5 DEF IInv, TypeOK, records, cards, drops, books, reads
<1>7. HookSound(a)'
  BY <1>1, <1>2, <1>5 DEF IInv, HookSound, books
<1> QED
  BY <1>1, <1>5, <1>6, <1>7, OutsideStep DEF books, reads

\* A new request.
LEMMA NewRequest ==
  ASSUME IInv, NEW a \in Attempts, att[a] = None, NEW t \in Attempt, att' = [att EXCEPT ![a] = t],
         session' \in {session, [session EXCEPT ![a] = "created"]},
         outer' \in [Keys -> IdempotencyRecord \cup {None}],
         AttemptSound(a)', t.pc \in {"check", "vault"},
         UNCHANGED <<inner, cards, remote, books, reads, hooks, marred, faults>>
  PROVE  IInv'
<1>1. /\ att'[a] = t /\ t # None /\ att' \in [Attempts -> Attempt \cup {None}]
      /\ \A b \in Attempts \ {a} : att'[b] = att[b] /\ session'[b] = session[b]
  BY DEF IInv, TypeOK
<1>2. TypeOK'
  BY <1>1 DEF IInv, TypeOK, Status, cards, drops, books, reads, hooks
<1>3. Kept
  BY <1>1 DEF Kept, books
<1>4. SessionSound(a)'
  <2>1. session[a] = None /\ copies'[a] = {}
    BY DEF IInv, SessionSound, reads
  <2>2. session'[a] \in {None, "created"}
    BY <2>1 DEF IInv, TypeOK
  <2> QED
    BY <1>1, <2>1, <2>2 DEF SessionSound, Status
<1>5. HookSound(a)'
  BY <1>1 DEF IInv, HookSound, books, hooks
<1>6. CardSound(a)'
  <2>1. CardSound(a)
    BY DEF IInv
  <2> QED
    BY <1>1, <2>1 DEF CardSound, Early, At, cards, drops
<1>7. \A b \in Attempts \ {a} : (Early(b)' => Early(b)) /\ (At(b, "method")' <=> At(b, "method"))
  BY <1>1 DEF Early, At
<1> QED
  BY <1>1, <1>2, <1>3, <1>4, <1>5, <1>6, <1>7, StepKeeps
     DEF cards, drops, CardSame, books, reads, hooks

\* A request begins under a key that nobody holds.
LEMMA CreateSessionStep ==
  ASSUME IInv, NEW a \in Attempts, NEW k \in Keys \cup {None}, NEW p \in Prices,
         NEW c \in Attempts \cup {None}, CreateSession(a, k, p, c)
  PROVE  IInv'
<1> DEFINE t == [pc |-> "check", key |-> k, price |-> p, card |-> c, txn |-> None,
                 out |-> "failed"]
<1>1. /\ att[a] = None
      /\ att' = [att EXCEPT ![a] = t] /\ session' = [session EXCEPT ![a] = "created"]
      /\ outer' = IF k = None THEN outer ELSE [outer EXCEPT ![k] = Claimed(a)]
      /\ UNCHANGED <<inner, cards, remote, books, reads, hooks, marred, faults>>
  BY Zenon DEF CreateSession
<1>2. /\ t \in Attempt /\ t.pc = "check" /\ t.key = k /\ t.price = p /\ t.out = "failed"
  BY DEF Attempt, Steps, Outcome
<1> HIDE DEF t
<1>3. Claimed(a) \in IdempotencyRecord
  BY DEF Claimed, IdempotencyRecord
<1>4. outer' \in [Keys -> IdempotencyRecord \cup {None}]
  BY <1>1, <1>3 DEF IInv, TypeOK
<1>5. att'[a] = t /\ t # None /\ session'[a] = "created"
  BY <1>1, <1>2 DEF IInv, TypeOK
<1>6. AttemptSound(a)'
  BY <1>2, <1>5 DEF AttemptSound
<1> QED
  BY <1>1, <1>2, <1>4, <1>6, NewRequest

\* A card is added outside of a checkout.
LEMMA AddPaymentMethodStep ==
  ASSUME IInv, NEW a \in Attempts, AddPaymentMethod(a)
  PROVE  IInv'
<1> DEFINE t == [pc |-> "vault", key |-> None, price |-> None, card |-> a, txn |-> None,
                 out |-> "failed"]
<1>1. /\ att[a] = None /\ att' = [att EXCEPT ![a] = t]
      /\ UNCHANGED <<session, records, cards, remote, books, reads, hooks, marred, faults>>
  BY Zenon DEF AddPaymentMethod
<1>2. /\ t \in Attempt /\ t.pc = "vault" /\ t.key = None /\ t.price = None /\ t.out = "failed"
      /\ t.card = a
  BY DEF Attempt, Steps, Outcome
<1> HIDE DEF t
<1>3. att'[a] = t /\ t # None /\ None \notin Elsewhere
  BY <1>1, <1>2 DEF IInv, TypeOK, Prices
<1>4. AttemptSound(a)'
  BY <1>1, <1>2, <1>3 DEF AttemptSound
<1> QED
  BY <1>1, <1>2, <1>4, NewRequest DEF records, IInv, TypeOK

\* The initial states satisfy the invariant.
LEMMA InitIInv == Init => IInv
<1> SUFFICES ASSUME Init PROVE IInv
  OBVIOUS
<1>1. TypeOK
  BY DEF Init, TypeOK, HookStep
<1>2. \A a \in Attempts : AttemptSound(a) /\ SessionSound(a)
  BY DEF Init, AttemptSound, SessionSound, Status
<1>3. \A a \in Attempts : HookSound(a) /\ CardSound(a)
  BY DEF Init, HookSound, CardSound, Early, At
<1>4. \A p \in Prices : InnerSound(p)
  BY DEF Init, InnerSound
<1> QED
  BY <1>1, <1>2, <1>3, <1>4 DEF IInv

\* IInv is inductive.
LEMMA NextIInv == IInv /\ [Next]_vars => IInv'
<1> SUFFICES ASSUME IInv, [Next]_vars PROVE IInv'
  OBVIOUS
<1>1. CASE UNCHANGED vars
  <2>1. TypeOK'
    BY <1>1 DEF vars, records, cards, drops, books, reads, hooks, IInv, TypeOK
  <2> QED
    BY <1>1, <2>1, OutsideStep DEF vars, books, reads, hooks
<1>2. ASSUME NEW a \in Attempts, Request(a) \/ RequestFaults(a) PROVE IInv'
  BY <1>2, CheckEligibilityStep, ProceedStep, BeginStep, UseMethodStep, CreateVaultStep,
     StoreMethodStep, StoreMethodFailsStep, CallStep, CallFailsStep, GiveUpStep, InsertRowStep,
     RegisterPurchaseStep, GrantStep, SettleStep, CloseStep, CrashStep
     DEF Request, RequestFaults
<1>3. ASSUME NEW a \in Attempts, Hook(a) \/ HookFails(a) PROVE IInv'
  BY <1>3, HandleCompletedStep, HookGoesOn, HookWriteStep, NewSaleSuccessStep, HookSessionStep
     DEF Hook
<1> QED
  BY <1>1, <1>2, <1>3, CreateSessionStep, AddPaymentMethodStep, DeleteStep, RowStep,
     HostedPaysStep, ReadStep, WriteBackStep, HandleExpiredStep, ExpireStep DEF Next

-----------------------------------------------------------------------------
\* Requests, records, cards and rows keep their types.
THEOREM TypeCorrect == Spec => []TypeOK
<1>1. IInv => TypeOK
  BY DEF IInv
<1> QED
  BY InitIInv, NextIInv, <1>1, PTL DEF Spec

\* A session succeeds only with a subscription row or a payment to show for it,
\* whatever failed, timed out, crashed or expired on the way.
THEOREM SucceedsServed == Spec => []SucceededIsServed
<1>1. IInv => SucceededIsServed
  BY DEF IInv, SessionSound, Served, SucceededIsServed
<1> QED
  BY InitIInv, NextIInv, <1>1, PTL DEF Spec

\* A row of billing.payment_methods nobody is deleting has its entry in NMI's
\* vault, and an entry without a row is one whose row DeletePaymentMethod
\* deleted, unless a step failed after which the code does not clean up.
THEOREM VaultStaysInStep == Spec => []VaultInStep
<1>1. IInv => VaultInStep
  BY DEF IInv, CardSound, VaultInStep
<1> QED
  BY InitIInv, NextIInv, <1>1, PTL DEF Spec

=============================================================================
