--------------------------- MODULE CreditsProofs ---------------------------
(***************************************************************************)
(* Proofs about Credits for every value of its constants.                  *)
(*                                                                         *)
(* IInv is inductive and holds the facts about single rows.  TotalsInv is  *)
(* inductive together with it: it relates every balance row to the sums    *)
(* over the account's blocks and holds, with the lemmas of SumProofs.      *)
(***************************************************************************)
EXTENDS Credits, SumProofs

IInv ==
    /\ RowsTypeOK
    /\ DepositsIdempotent
    /\ CaptureWithinAuthorization

\* What a concatenation is made of.
LEMMA ConcatenationOf ==
  ASSUME NEW S, NEW a \in Seq(S), NEW b \in Seq(S)
  PROVE  /\ a \o b \in Seq(S) /\ Len(a \o b) = Len(a) + Len(b)
         /\ \A i \in 1..Len(a) : (a \o b)[i] = a[i]
         /\ \A i \in 1..Len(a \o b) : i > Len(a) => (a \o b)[i] = b[i - Len(a)]
  OBVIOUS

---------------------------------------
\* A function on 1..n is a sequence of length n.
LEMMA FunctionIsSeq ==
    ASSUME NEW S, NEW n \in Nat, NEW f \in [1..n -> S]
    PROVE  f \in Seq(S) /\ Len(f) = n
  OBVIOUS

\* Initially there are no rows.
LEMMA InitIInv == Init => IInv
  BY CreditsAssumption
  DEF Init, IInv, RowsTypeOK, DepositsIdempotent,
      CaptureWithinAuthorization

\* Steps that rewrite amounts of existing blocks keep their keys.
LEMMA SameKeysIdempotent ==
    ASSUME DepositsIdempotent, Len(blocks') = Len(blocks),
           \A i \in 1..Len(blocks) : /\ blocks'[i].acct = blocks[i].acct
                                     /\ blocks'[i].key = blocks[i].key
    PROVE  DepositsIdempotent'
  BY DEF DepositsIdempotent

\* A block created with amt credits is a well-formed row.
LEMMA NewBlockType ==
    ASSUME NEW a \in Account, NEW k \in DepositKey, NEW amt \in Nat, NEW e \in 0..Never
    PROVE  NewBlock(a, k, amt, e) \in Block
  BY DEF NewBlock, Block

\* A deposit appends one block under a key that is not in use.
LEMMA DepositStep ==
    ASSUME IInv, NEW a \in Account, NEW k \in Keys \cup {NoKey}, NEW amt \in Amounts,
           NEW e \in ExpiryTimes, Deposit(a, k, amt, e)
    PROVE  IInv'
<1> DEFINE b == NewBlock(a, k, amt, e)
<1>1. b \in Block
  BY NewBlockType, CreditsAssumption DEF DepositKey, Never
<1>2. blocks \in Seq(Block) /\ blocks' = Append(blocks, b)
  BY DEF Deposit, IInv, RowsTypeOK
<1>3. blocks' \in Seq(Block) /\ Len(blocks') = Len(blocks) + 1
  BY <1>1, <1>2
<1>4. /\ \A i \in 1..Len(blocks) : blocks'[i] = blocks[i]
      /\ blocks'[Len(blocks) + 1] = b
  BY <1>1, <1>2
<1>5. b.acct = a /\ b.key = k
  BY DEF NewBlock
<1>6. DepositsIdempotent'
  <2> SUFFICES ASSUME NEW i \in 1..Len(blocks'), NEW j \in 1..Len(blocks'),
                      blocks'[i].acct = blocks'[j].acct,
                      blocks'[i].key = blocks'[j].key, blocks'[i].key # NoKey
               PROVE  i = j
    BY DEF DepositsIdempotent
  <2>1. CASE i \in 1..Len(blocks) /\ j \in 1..Len(blocks)
    BY <2>1, <1>4 DEF IInv, DepositsIdempotent
  <2>2. CASE i = Len(blocks) + 1 /\ j \in 1..Len(blocks)
    BY <2>2, <1>4, <1>5 DEF Deposit, Deposited
  <2>3. CASE j = Len(blocks) + 1 /\ i \in 1..Len(blocks)
    BY <2>3, <1>4, <1>5 DEF Deposit, Deposited
  <2>4. CASE i = Len(blocks) + 1 /\ j = Len(blocks) + 1
    BY <2>4
  <2> QED
    BY <1>2, <1>3, <2>1, <2>2, <2>3, <2>4
<1> QED
  BY <1>3, <1>6
  DEF Deposit, IInv, RowsTypeOK, CaptureWithinAuthorization

\* The grants of one subscription event have pairwise distinct keys, because
\* a credits_spec has one grant per credit type, and none of the keys is in
\* use.
LEMMA GrantStep ==
    ASSUME IInv, NEW s \in Subs, NEW p \in Periods, NEW cadence \in Cadence,
           GrantSubscriptionCredits(s, p, cadence)
    PROVE  IInv'
<1> DEFINE new == GrantedBlocks(s, p, cadence)
<1>1. ASSUME NEW b \in new
      PROVE  /\ b \in Block
             /\ b.key # NoKey
             /\ ~Deposited(b.acct, b.key)
             /\ \A c \in new : c.acct = b.acct => c = b
  <2>1. PICK g \in DueGrants(s, p, cadence) :
            b = NewBlock(<<SubUser[s], g.ct>>, GrantKeyOf(s, g.ct, p), g.amount,
                         IF g.days = 0 THEN Never ELSE now + g.days)
    BY DEF GrantedBlocks
  <2>2. /\ g \in CreditsSpec[s] /\ g.ct \in CreditTypes /\ g.amount \in Nat
        /\ g.days \in Nat /\ now + g.days <= MaxTime /\ now \in 0..MaxTime
        /\ MaxTime \in Nat
    BY <2>1, CreditsAssumption
    DEF DueGrants, GrantSubscriptionCredits, IInv, RowsTypeOK
  <2>3. /\ <<SubUser[s], g.ct>> \in Account
        /\ GrantKeyOf(s, g.ct, p) \in DepositKey
        /\ GrantKeyOf(s, g.ct, p) # NoKey
    BY <2>2, CreditsAssumption DEF Account, GrantKeyOf, DepositKey, GrantKey
  <2>4. (IF g.days = 0 THEN Never ELSE now + g.days) \in 0..Never
    BY <2>2 DEF Never
  <2>5. b \in Block
    BY <2>1, <2>2, <2>3, <2>4, NewBlockType
  <2>6. b.acct = <<SubUser[s], g.ct>> /\ b.key = GrantKeyOf(s, g.ct, p)
    BY <2>1 DEF NewBlock
  <2>7. ~Deposited(b.acct, b.key)
    BY <2>1, <2>6 DEF DueGrants
  <2>8. ASSUME NEW c \in new, c.acct = b.acct PROVE c = b
    <3>1. PICK h \in DueGrants(s, p, cadence) :
              c = NewBlock(<<SubUser[s], h.ct>>, GrantKeyOf(s, h.ct, p), h.amount,
                           IF h.days = 0 THEN Never ELSE now + h.days)
      BY <2>8 DEF GrantedBlocks
    <3>2. c.acct = <<SubUser[s], h.ct>>
      BY <3>1 DEF NewBlock
    <3>3. h.ct = g.ct /\ h \in CreditsSpec[s]
      BY <3>1, <3>2, <2>6, <2>8 DEF DueGrants
    <3>4. h = g
      BY <3>3, <2>2, CreditsAssumption
    <3> QED
      BY <3>1, <3>4, <2>1
  <2> QED
    BY <2>3, <2>5, <2>6, <2>7, <2>8
<1>0. PICK n \in 1..MaxBlocks - Len(blocks) :
          \E f \in Bijection(1..n, new) : blocks' = blocks \o f
  BY DEF GrantSubscriptionCredits
<1>2. PICK f \in Bijection(1..n, new) : blocks' = blocks \o f
  BY <1>0
<1>3. /\ n \in Nat /\ f \in [1..n -> new]
      /\ \A i, j \in 1..n : f[i] = f[j] => i = j
  <2>1. n \in Nat
    <3>1. Len(blocks) \in Nat /\ MaxBlocks \in Nat
      BY CreditsAssumption DEF IInv, RowsTypeOK
    <3> QED
      BY <1>0, <3>1
  <2>2. f \in [1..n -> new] /\ IsInjective(f)
    BY <1>2 DEF Bijection, Injection
  <2> QED
    BY <2>1, <2>2 DEF IsInjective
<1>4. f \in Seq(Block) /\ Len(f) = n
  BY <1>1, <1>3, FunctionIsSeq
<1>5. /\ blocks \in Seq(Block) /\ blocks' \in Seq(Block)
      /\ Len(blocks') = Len(blocks) + n
      /\ \A i \in 1..Len(blocks) : blocks'[i] = blocks[i]
      /\ \A i \in 1..Len(blocks') : i > Len(blocks) => blocks'[i] = f[i - Len(blocks)]
  <2>1. blocks \in Seq(Block)
    BY DEF IInv, RowsTypeOK
  <2>2. /\ blocks \o f \in Seq(Block) /\ Len(blocks \o f) = Len(blocks) + n
        /\ \A i \in 1..Len(blocks) : (blocks \o f)[i] = blocks[i]
        /\ \A i \in 1..Len(blocks \o f) :
              i > Len(blocks) => (blocks \o f)[i] = f[i - Len(blocks)]
    BY <2>1, <1>4, ConcatenationOf
  <2> QED
    BY <2>1, <2>2, <1>2
<1>6. DepositsIdempotent'
  <2> SUFFICES ASSUME NEW i \in 1..Len(blocks'), NEW j \in 1..Len(blocks'),
                      blocks'[i].acct = blocks'[j].acct,
                      blocks'[i].key = blocks'[j].key, blocks'[i].key # NoKey
               PROVE  i = j
    BY DEF DepositsIdempotent
  <2>1. CASE i <= Len(blocks) /\ j <= Len(blocks)
    BY <2>1, <1>5 DEF IInv, DepositsIdempotent
  <2>2. CASE i > Len(blocks) /\ j <= Len(blocks)
    <3>1. blocks'[i] \in new /\ blocks'[j] = blocks[j] /\ j \in 1..Len(blocks)
      BY <2>2, <1>3, <1>5
    <3> QED
      BY <3>1, <1>1 DEF Deposited
  <2>3. CASE j > Len(blocks) /\ i <= Len(blocks)
    <3>1. blocks'[j] \in new /\ blocks'[i] = blocks[i] /\ i \in 1..Len(blocks)
      BY <2>3, <1>3, <1>5
    <3> QED
      BY <3>1, <1>1 DEF Deposited
  <2>4. CASE i > Len(blocks) /\ j > Len(blocks)
    <3>1. /\ i - Len(blocks) \in 1..n /\ j - Len(blocks) \in 1..n
          /\ blocks'[i] = f[i - Len(blocks)] /\ blocks'[j] = f[j - Len(blocks)]
      BY <2>4, <1>5, <1>3
    <3>2. blocks'[i] = blocks'[j]
      BY <3>1, <1>1, <1>3
    <3>3. i - Len(blocks) = j - Len(blocks)
      BY <3>1, <3>2, <1>3
    <3> QED
      BY <3>3, <1>5
  <2> QED
    BY <1>5, <2>1, <2>2, <2>3, <2>4
<1> QED
  BY <1>5, <1>6
  DEF GrantSubscriptionCredits, IInv, RowsTypeOK,
      CaptureWithinAuthorization

\* Withdrawing rewrites remaining amounts only, and overdraws no block.
LEMMA WithdrawBlocks ==
    ASSUME IInv, NEW a \in Account, NEW amt \in Amounts,
           WithdrawBalanceAndBlocks(a, amt)
    PROVE  blocks' \in Seq(Block) /\ DepositsIdempotent'
<1>1. PICK draw \in [LiveBlocks(a) -> 0..amt] :
          /\ IsDraw(draw, a, amt)
          /\ blocks' = [i \in 1..Len(blocks) |->
                          IF i \in LiveBlocks(a)
                          THEN [blocks[i] EXCEPT !.remaining = @ - draw[i]]
                          ELSE blocks[i]]
  BY DEF WithdrawBalanceAndBlocks
<1>2. blocks \in Seq(Block) /\ Len(blocks) \in Nat
  BY DEF IInv, RowsTypeOK
<1>3. ASSUME NEW i \in 1..Len(blocks)
      PROVE  /\ blocks'[i] \in Block
             /\ blocks'[i].acct = blocks[i].acct /\ blocks'[i].key = blocks[i].key
  <2>1. blocks[i] \in Block
    BY <1>2
  <2>2. CASE i \in LiveBlocks(a)
    <3>1. draw[i] \in Nat /\ draw[i] <= blocks[i].remaining
      BY <1>1, <2>2, CreditsAssumption DEF IsDraw
    <3> QED
      BY <1>1, <2>1, <2>2, <3>1 DEF Block
  <2> QED
    BY <1>1, <2>1, <2>2
<1>4. blocks' \in Seq(Block) /\ Len(blocks') = Len(blocks)
  <2>1. blocks' \in [1..Len(blocks) -> Block]
    BY <1>1, <1>3
  <2> QED
    BY <2>1, <1>2, FunctionIsSeq
<1> QED
  BY <1>3, <1>4, SameKeysIdempotent DEF IInv

\* A new hold has captured nothing.
LEMMA PlaceHoldStep ==
    ASSUME IInv, NEW a \in Account, NEW k \in Keys, NEW amt \in Amounts,
           NEW e \in HoldTimes, PlaceHold(a, k, amt, e)
    PROVE  IInv'
<1> DEFINE h == [acct |-> a, key |-> k, authorized |-> amt,
                 captured |-> 0, expires |-> e, status |-> "active"]
<1>1. h \in Hold /\ holds \in Seq(Hold)
  BY CreditsAssumption DEF Hold, HoldStatus, IInv, RowsTypeOK
<1>2. /\ holds' \in Seq(Hold) /\ Len(holds') = Len(holds) + 1
      /\ \A i \in 1..Len(holds) : holds'[i] = holds[i]
      /\ holds'[Len(holds) + 1] = h
  BY <1>1 DEF PlaceHold
<1>3. CaptureWithinAuthorization'
  <2> SUFFICES ASSUME NEW i \in 1..Len(holds')
               PROVE  /\ holds'[i].captured <= holds'[i].authorized
                      /\ holds'[i].status = "captured" <=> holds'[i].captured > 0
    BY DEF CaptureWithinAuthorization
  <2>1. CASE i \in 1..Len(holds)
    BY <2>1, <1>2 DEF IInv, CaptureWithinAuthorization
  <2>2. CASE i = Len(holds) + 1
    BY <2>2, <1>2, CreditsAssumption
  <2> QED
    BY <1>1, <1>2, <2>1, <2>2
<1> QED
  BY <1>2, <1>3 DEF PlaceHold, IInv, RowsTypeOK, DepositsIdempotent

\* Steps that only end active holds: status and captured change together.
LEMMA EndedHolds ==
    ASSUME IInv, Len(holds') = Len(holds), holds' \in Seq(Hold),
           \A i \in 1..Len(holds) :
              /\ holds'[i].acct = holds[i].acct /\ holds'[i].key = holds[i].key
              /\ holds'[i].authorized = holds[i].authorized
              /\ \/ holds'[i] = holds[i]
                 \/ /\ holds[i].status = "active"
                    /\ holds'[i].status \in {"released", "expired"}
                    /\ holds'[i].captured = holds[i].captured
                 \/ /\ holds'[i].status = "captured"
                    /\ 0 < holds'[i].captured
                    /\ holds'[i].captured <= holds[i].authorized
    PROVE  CaptureWithinAuthorization'
<1> SUFFICES ASSUME NEW i \in 1..Len(holds)
             PROVE  /\ holds'[i].captured <= holds'[i].authorized
                    /\ holds'[i].status = "captured" <=> holds'[i].captured > 0
  BY DEF CaptureWithinAuthorization
<1>1. /\ holds[i].captured <= holds[i].authorized
      /\ holds[i].status = "captured" <=> holds[i].captured > 0
  BY DEF IInv, CaptureWithinAuthorization
<1> QED
  BY <1>1

\* Capturing ends one active hold with an amount within its authorization.
LEMMA CaptureStep ==
    ASSUME IInv, NEW i \in 1..Len(holds), NEW amt \in Amounts, CaptureHold(i, amt)
    PROVE  IInv'
<1> DEFINE h == holds[i]
<1>1. holds \in Seq(Hold) /\ h \in Hold /\ h.acct \in Account
  <2>1. holds \in Seq(Hold) /\ h \in Hold
    BY DEF IInv, RowsTypeOK
  <2> QED
    BY <2>1 DEF Hold
<1>2. holds' = [holds EXCEPT ![i] = [h EXCEPT !.status = "captured", !.captured = amt]]
  BY DEF CaptureHold
<1>3. [h EXCEPT !.status = "captured", !.captured = amt] \in Hold
  BY <1>1, CreditsAssumption DEF Hold, HoldStatus
<1>4. holds' \in Seq(Hold) /\ Len(holds') = Len(holds)
  BY <1>1, <1>2, <1>3
<1>5. CaptureWithinAuthorization'
  <2>1. ASSUME NEW j \in 1..Len(holds)
        PROVE  /\ holds'[j].acct = holds[j].acct /\ holds'[j].key = holds[j].key
               /\ holds'[j].authorized = holds[j].authorized
               /\ \/ holds'[j] = holds[j]
                  \/ /\ holds'[j].status = "captured"
                     /\ 0 < holds'[j].captured
                     /\ holds'[j].captured <= holds[j].authorized
    <3>1. CASE j = i
      BY <3>1, <1>1, <1>2, CreditsAssumption DEF CaptureHold, Hold
    <3>2. CASE j # i
      BY <3>2, <1>1, <1>2
    <3> QED
      BY <3>1, <3>2
  <2> QED
    BY <1>4, <2>1, EndedHolds
<1>6. blocks' \in Seq(Block) /\ DepositsIdempotent'
  BY <1>1, WithdrawBlocks DEF CaptureHold
<1> QED
  BY <1>4, <1>5, <1>6 DEF CaptureHold, IInv, RowsTypeOK

\* Releasing ends one active hold and captures nothing.
LEMMA ReleaseStep ==
    ASSUME IInv, NEW i \in 1..Len(holds), ReleaseHold(i)
    PROVE  IInv'
<1> DEFINE h == holds[i]
<1>1. holds \in Seq(Hold) /\ h \in Hold
  BY DEF IInv, RowsTypeOK
<1>2. holds' = [holds EXCEPT ![i] = [h EXCEPT !.status = "released"]]
  BY DEF ReleaseHold
<1>3. [h EXCEPT !.status = "released"] \in Hold
  BY <1>1 DEF Hold, HoldStatus
<1>4. holds' \in Seq(Hold) /\ Len(holds') = Len(holds)
  BY <1>1, <1>2, <1>3
<1>5. CaptureWithinAuthorization'
  <2>1. ASSUME NEW j \in 1..Len(holds)
        PROVE  /\ holds'[j].acct = holds[j].acct /\ holds'[j].key = holds[j].key
               /\ holds'[j].authorized = holds[j].authorized
               /\ \/ holds'[j] = holds[j]
                  \/ /\ holds[j].status = "active"
                     /\ holds'[j].status = "released"
                     /\ holds'[j].captured = holds[j].captured
    <3>1. CASE j = i
      BY <3>1, <1>1, <1>2 DEF ReleaseHold, Hold
    <3>2. CASE j # i
      BY <3>2, <1>1, <1>2
    <3> QED
      BY <3>1, <3>2
  <2> QED
    BY <1>4, <2>1, EndedHolds
<1> QED
  BY <1>4, <1>5 DEF ReleaseHold, IInv, RowsTypeOK, DepositsIdempotent

\* A block sweep empties blocks and keeps their keys.
LEMMA CreditExpiryStep ==
    ASSUME IInv, NEW t \in 0..now, CreditExpiryBatch(t)
    PROVE  IInv'
<1>1. PICK B \in SUBSET ExpiredBlocks(t) :
          blocks' = [i \in 1..Len(blocks) |->
                       IF i \in B THEN [blocks[i] EXCEPT !.remaining = 0]
                       ELSE blocks[i]]
  BY DEF CreditExpiryBatch
<1>2. blocks \in Seq(Block) /\ Len(blocks) \in Nat
  BY DEF IInv, RowsTypeOK
<1>3. ASSUME NEW i \in 1..Len(blocks)
      PROVE  /\ blocks'[i] \in Block
             /\ blocks'[i].acct = blocks[i].acct /\ blocks'[i].key = blocks[i].key
  <2>1. blocks[i] \in Block
    BY <1>2
  <2> QED
    BY <1>1, <2>1 DEF Block
<1>4. blocks' \in Seq(Block) /\ Len(blocks') = Len(blocks)
  <2>1. blocks' \in [1..Len(blocks) -> Block]
    BY <1>1, <1>3
  <2> QED
    BY <2>1, <1>2, FunctionIsSeq
<1>5. DepositsIdempotent'
  BY <1>3, <1>4, SameKeysIdempotent DEF IInv
<1> QED
  BY <1>4, <1>5
  DEF CreditExpiryBatch, IInv, RowsTypeOK, CaptureWithinAuthorization

\* A hold sweep ends active holds and captures nothing.
LEMMA HoldExpiryStep ==
    ASSUME IInv, NEW t \in 0..now, HoldExpiryBatch(t)
    PROVE  IInv'
<1>1. PICK B \in SUBSET ExpiredHolds(t) :
          holds' = [i \in 1..Len(holds) |->
                      IF i \in B THEN [holds[i] EXCEPT !.status = "expired"]
                      ELSE holds[i]]
  BY DEF HoldExpiryBatch
<1>2. holds \in Seq(Hold) /\ Len(holds) \in Nat
  BY DEF IInv, RowsTypeOK
<1>3. ASSUME NEW i \in 1..Len(holds)
      PROVE  /\ holds'[i] \in Hold
             /\ holds'[i].acct = holds[i].acct /\ holds'[i].key = holds[i].key
             /\ holds'[i].authorized = holds[i].authorized
             /\ \/ holds'[i] = holds[i]
                \/ /\ holds[i].status = "active"
                   /\ holds'[i].status = "expired"
                   /\ holds'[i].captured = holds[i].captured
  <2>1. holds[i] \in Hold
    BY <1>2
  <2>2. CASE i \in B
    <3>1. holds[i].status = "active"
      BY <1>1, <2>2 DEF ExpiredHolds
    <3> QED
      BY <1>1, <2>1, <2>2, <3>1 DEF Hold, HoldStatus
  <2> QED
    BY <1>1, <2>1, <2>2
<1>4. holds' \in Seq(Hold) /\ Len(holds') = Len(holds)
  <2>1. holds' \in [1..Len(holds) -> Hold]
    BY <1>1, <1>3
  <2> QED
    BY <2>1, <1>2, FunctionIsSeq
<1>5. CaptureWithinAuthorization'
  BY <1>3, <1>4, EndedHolds
<1> QED
  BY <1>4, <1>5 DEF HoldExpiryBatch, IInv, RowsTypeOK, DepositsIdempotent

\* Every step keeps the inductive invariant.
LEMMA NextIInv == IInv /\ [Next]_vars => IInv'
<1> SUFFICES ASSUME IInv, [Next]_vars PROVE IInv'
  OBVIOUS
<1>1. CASE Tick
  BY <1>1, CreditsAssumption
  DEF Tick, IInv, RowsTypeOK, DepositsIdempotent,
      CaptureWithinAuthorization
<1>2. ASSUME NEW ct \in CreditTypes, NEW on \in BOOLEAN, SetActive(ct, on)
      PROVE  IInv'
  BY <1>2
  DEF SetActive, IInv, RowsTypeOK, DepositsIdempotent,
      CaptureWithinAuthorization
<1>3. ASSUME NEW a \in Account, NEW amt \in Amounts, Withdraw(a, amt)
      PROVE  IInv'
  <2>1. blocks' \in Seq(Block) /\ DepositsIdempotent'
    BY <1>3, WithdrawBlocks DEF Withdraw, WithdrawTx
  <2> QED
    BY <1>3, <2>1
    DEF Withdraw, WithdrawTx, IInv, RowsTypeOK, CaptureWithinAuthorization
<1>4. CASE UNCHANGED vars
  BY <1>4
  DEF vars, IInv, RowsTypeOK, DepositsIdempotent,
      CaptureWithinAuthorization
<1> QED
  BY <1>1, <1>2, <1>3, <1>4, DepositStep, GrantStep, PlaceHoldStep, CaptureStep,
     ReleaseStep, CreditExpiryStep, HoldExpiryStep
  DEF Next, CreditExpiryWorker, HoldExpiryWorker

----------------------------------------------------------------------------
\* The rows of the credits tables keep their shape in every reachable state;
\* no withdrawal, capture or sweep overdraws a credit block.
THEOREM RowsCorrect == Spec => []RowsTypeOK
<1>1. IInv => RowsTypeOK
  BY DEF IInv
<1> QED
  BY InitIInv, NextIInv, <1>1, PTL DEF Spec

\* However often deposits and subscription grants are retried and in whatever
\* order they interleave with the other operations, a key is honoured once.
THEOREM DepositsIdempotentAlways == Spec => []DepositsIdempotent
<1>1. IInv => DepositsIdempotent
  BY DEF IInv
<1> QED
  BY InitIInv, NextIInv, <1>1, PTL DEF Spec

\* No capture exceeds its authorization, and only captured holds have an
\* amount.
THEOREM CapturesBounded == Spec => []CaptureWithinAuthorization
<1>1. IInv => CaptureWithinAuthorization
  BY DEF IInv
<1> QED
  BY InitIInv, NextIInv, <1>1, PTL DEF Spec

\* Only an active hold changes, and its authorization never does.
LEMMA NextHoldsOnlyEnd == IInv /\ [Next]_vars => HoldsOnlyEnd
<1> SUFFICES ASSUME IInv, [Next]_vars PROVE HoldsOnlyEnd
  OBVIOUS
<1>0. holds \in Seq(Hold) /\ Len(holds) \in Nat
  BY DEF IInv, RowsTypeOK
<1>1. CASE holds' = holds
  BY <1>0, <1>1 DEF HoldsOnlyEnd
<1>2. ASSUME NEW a \in Account, NEW k \in Keys, NEW amt \in Amounts,
             NEW e \in HoldTimes, PlaceHold(a, k, amt, e)
      PROVE  HoldsOnlyEnd
  BY <1>0, <1>2 DEF PlaceHold, HoldsOnlyEnd
<1>3. ASSUME NEW i \in 1..Len(holds), NEW amt \in Amounts, CaptureHold(i, amt)
      PROVE  HoldsOnlyEnd
  <2>1. holds[i] \in Hold /\ holds[i].status = "active"
    BY <1>0, <1>3 DEF CaptureHold
  <2> QED
    BY <1>0, <1>3, <2>1 DEF CaptureHold, HoldsOnlyEnd, Hold
<1>4. ASSUME NEW i \in 1..Len(holds), ReleaseHold(i)
      PROVE  HoldsOnlyEnd
  <2>1. holds[i] \in Hold /\ holds[i].status = "active"
    BY <1>0, <1>4 DEF ReleaseHold
  <2> QED
    BY <1>0, <1>4, <2>1 DEF ReleaseHold, HoldsOnlyEnd, Hold
<1>5. ASSUME NEW t \in 0..now, HoldExpiryBatch(t)
      PROVE  HoldsOnlyEnd
  <2>1. PICK B \in SUBSET ExpiredHolds(t) :
            holds' = [i \in 1..Len(holds) |->
                        IF i \in B THEN [holds[i] EXCEPT !.status = "expired"]
                        ELSE holds[i]]
    BY <1>5 DEF HoldExpiryBatch
  <2>2. \A i \in 1..Len(holds) : holds[i] \in Hold
    BY <1>0
  <2>3. holds' \in [1..Len(holds) -> Hold]
    BY <2>1, <2>2 DEF Hold, HoldStatus
  <2>4. Len(holds') = Len(holds)
    BY <2>3, <1>0, FunctionIsSeq
  <2>5. ASSUME NEW i \in 1..Len(holds)
        PROVE  /\ holds'[i].authorized = holds[i].authorized
               /\ holds[i].status # "active" => holds'[i] = holds[i]
    <3>1. CASE i \in B
      BY <3>1, <2>1, <2>2 DEF ExpiredHolds, Hold
    <3>2. CASE i \notin B
      BY <3>2, <2>1
    <3> QED
      BY <3>1, <3>2
  <2> QED
    BY <1>0, <2>4, <2>5 DEF HoldsOnlyEnd
<1> QED
  BY <1>1, <1>2, <1>3, <1>4, <1>5
  DEF Next, vars, Tick, SetActive, Deposit, GrantSubscriptionCredits, Withdraw, WithdrawTx,
      CreditExpiryWorker, CreditExpiryBatch, HoldExpiryWorker

\* Capture, release and the sweeper cannot both end the same hold: the first
\* one wins and the row never changes again.
THEOREM HoldsEndOnce == Spec => HoldLifecycle
  BY InitIInv, NextIInv, NextHoldsOnlyEnd, PTL DEF Spec, HoldLifecycle

----------------------------------------------------------------------------
(* The sums over the rows of an account.                                   *)

OwnRows(rows, q) == {i \in 1..Len(rows) : rows[i].acct = q}
ActiveRows(hs, q) == {i \in OwnRows(hs, q) : hs[i].status = "active"}
RemainingIn(bs, q) == SumFunctionOnSet([i \in 1..Len(bs) |-> bs[i].remaining], OwnRows(bs, q))
OriginalIn(bs, q) == SumFunctionOnSet([i \in 1..Len(bs) |-> bs[i].original], OwnRows(bs, q))
AuthorizedColumn(hs) == [i \in 1..Len(hs) |-> hs[i].authorized]
AuthorizedIn(hs, q) == SumFunctionOnSet(AuthorizedColumn(hs), ActiveRows(hs, q))
CapturedIn(hs, q) == SumFunctionOnSet([i \in 1..Len(hs) |-> hs[i].captured], OwnRows(hs, q))

\* Rows are finitely many.
LEMMA RowsFinite ==
    ASSUME NEW rows, Len(rows) \in Nat, NEW q
    PROVE  /\ IsFiniteSet(OwnRows(rows, q)) /\ IsFiniteSet(ActiveRows(rows, q))
           /\ OwnRows(rows, q) \subseteq 1..Len(rows) /\ ActiveRows(rows, q) \subseteq 1..Len(rows)
<1>1. IsFiniteSet(1..Len(rows))
  BY FS_Interval
<1>2. OwnRows(rows, q) \subseteq 1..Len(rows) /\ ActiveRows(rows, q) \subseteq 1..Len(rows)
  BY DEF OwnRows, ActiveRows
<1> QED
  BY <1>1, <1>2, FS_Subset

\* Their sums are numbers.
LEMMA SumsAreNumbers ==
    /\ \A bs \in Seq(Block) : \A q : RemainingIn(bs, q) \in Nat /\ OriginalIn(bs, q) \in Nat
    /\ \A hs \in Seq(Hold) : \A q : AuthorizedIn(hs, q) \in Nat /\ CapturedIn(hs, q) \in Nat
<1>1. ASSUME NEW bs \in Seq(Block), NEW q
      PROVE  RemainingIn(bs, q) \in Nat /\ OriginalIn(bs, q) \in Nat
  <2>1. \A i \in 1..Len(bs) : bs[i].remaining \in Nat /\ bs[i].original \in Nat
    <3>1. \A i \in 1..Len(bs) : bs[i] \in Block
      OBVIOUS
    <3> QED
      BY <3>1 DEF Block
  <2>2. IsFiniteSet(OwnRows(bs, q)) /\ OwnRows(bs, q) \subseteq 1..Len(bs)
    BY RowsFinite
  <2>3. PICK f : f = [i \in 1..Len(bs) |-> bs[i].remaining]
    OBVIOUS
  <2>4. PICK g : g = [i \in 1..Len(bs) |-> bs[i].original]
    OBVIOUS
  <2>5. \A i \in OwnRows(bs, q) : f[i] \in Nat /\ g[i] \in Nat
    BY <2>1, <2>2, <2>3, <2>4
  <2>6. SumFunctionOnSet(f, OwnRows(bs, q)) \in Nat /\ SumFunctionOnSet(g, OwnRows(bs, q)) \in Nat
    BY <2>2, <2>5, SumNat
  <2> QED
    BY <2>3, <2>4, <2>6 DEF RemainingIn, OriginalIn
<1>2. ASSUME NEW hs \in Seq(Hold), NEW q
      PROVE  AuthorizedIn(hs, q) \in Nat /\ CapturedIn(hs, q) \in Nat
  <2>1. \A i \in 1..Len(hs) : hs[i].authorized \in Nat /\ hs[i].captured \in Nat
    <3>1. \A i \in 1..Len(hs) : hs[i] \in Hold
      OBVIOUS
    <3> QED
      BY <3>1 DEF Hold
  <2>2. /\ IsFiniteSet(OwnRows(hs, q)) /\ OwnRows(hs, q) \subseteq 1..Len(hs)
        /\ IsFiniteSet(ActiveRows(hs, q)) /\ ActiveRows(hs, q) \subseteq 1..Len(hs)
    BY RowsFinite
  <2>3. PICK f : f = [i \in 1..Len(hs) |-> hs[i].authorized]
    OBVIOUS
  <2>4. PICK g : g = [i \in 1..Len(hs) |-> hs[i].captured]
    OBVIOUS
  <2>5. /\ \A i \in ActiveRows(hs, q) : f[i] \in Nat
        /\ \A i \in OwnRows(hs, q) : g[i] \in Nat
    BY <2>1, <2>2, <2>3, <2>4
  <2>6. SumFunctionOnSet(f, ActiveRows(hs, q)) \in Nat /\ SumFunctionOnSet(g, OwnRows(hs, q)) \in Nat
    BY <2>2, <2>5, SumNat
  <2> QED
    BY <2>3, <2>4, <2>6 DEF AuthorizedIn, AuthorizedColumn, CapturedIn
<1> QED
  BY <1>1, <1>2

\* A table grows; f and g are a column of it before and after.
Grows(rows, more, f, g) ==
    /\ Len(rows) \in Nat /\ Len(more) \in Nat /\ Len(rows) <= Len(more)
    /\ \A i \in 1..Len(rows) : more[i] = rows[i] /\ f[i] \in Nat /\ g[i] = f[i]
NoneNew(rows, more, q) == \A i \in 1..Len(more) : more[i].acct = q => i <= Len(rows)
OneNew(rows, more, q, j) ==
    /\ j \in 1..Len(more) /\ j > Len(rows) /\ more[j].acct = q
    /\ \A i \in 1..Len(more) : more[i].acct = q => i <= Len(rows) \/ i = j

\* New rows that are not of the account do not count.
LEMMA OthersRows ==
    ASSUME NEW rows, NEW more, NEW f, NEW g, NEW q, Grows(rows, more, f, g), NoneNew(rows, more, q)
    PROVE  SumFunctionOnSet(g, OwnRows(more, q)) = SumFunctionOnSet(f, OwnRows(rows, q))
<1>1. IsFiniteSet(OwnRows(rows, q)) /\ OwnRows(rows, q) \subseteq 1..Len(rows)
  BY RowsFinite DEF Grows
<1>2. SumFunctionOnSet(f, OwnRows(rows, q)) = SumFunctionOnSet(g, OwnRows(rows, q))
  BY <1>1, SumSame DEF Grows
<1>3. OwnRows(more, q) = OwnRows(rows, q)
  BY <1>1 DEF OwnRows, Grows, NoneNew
<1> QED
  BY <1>2, <1>3

\* One that is adds to the sum.
LEMMA OwnNewRow ==
    ASSUME NEW rows, NEW more, NEW f, NEW g, NEW q, NEW j, Grows(rows, more, f, g),
           OneNew(rows, more, q, j), NEW n \in Nat, g[j] = n
    PROVE  SumFunctionOnSet(g, OwnRows(more, q)) = n + SumFunctionOnSet(f, OwnRows(rows, q))
<1> DEFINE S == OwnRows(rows, q)
<1>1. IsFiniteSet(S) /\ S \subseteq 1..Len(rows)
  BY RowsFinite DEF Grows
<1>2. SumFunctionOnSet(f, S) = SumFunctionOnSet(g, S)
  BY <1>1, SumSame DEF Grows
<1>3. OwnRows(more, q) = S \cup {j}
  BY <1>1 DEF OwnRows, Grows, OneNew
<1>4. j \notin S /\ g[j] \in Int /\ \A i \in S : g[i] \in Int
  BY <1>1 DEF Grows, OneNew
<1>5. SumFunctionOnSet(g, S \cup {j}) = g[j] + SumFunctionOnSet(g, S)
  <2> HIDE DEF S
  <2> QED
    BY <1>1, <1>4, SumAdd
<1> QED
  BY <1>2, <1>3, <1>5

\* The columns that are summed.
LEMMA ColumnTypes ==
    /\ \A b \in Block : b.remaining \in Nat /\ b.original \in Nat
    /\ \A h \in Hold : h.authorized \in Nat /\ h.captured \in Nat
  BY DEF Block, Hold

\* A deposit adds its amount to what is left and to what was paid in.
LEMMA BlocksGrow ==
    ASSUME NEW bs \in Seq(Block), NEW cs \in Seq(Block), Len(bs) <= Len(cs),
           \A i \in 1..Len(bs) : cs[i] = bs[i],
           NEW q, NEW n \in Nat,
           \/ n = 0 /\ NoneNew(bs, cs, q)
           \/ \E j : OneNew(bs, cs, q, j) /\ cs[j].remaining = n /\ cs[j].original = n
    PROVE  /\ RemainingIn(cs, q) = RemainingIn(bs, q) + n
           /\ OriginalIn(cs, q) = OriginalIn(bs, q) + n
<1>0. /\ RemainingIn(bs, q) \in Nat /\ OriginalIn(bs, q) \in Nat
      /\ \A i \in 1..Len(bs) : bs[i] \in Block
      /\ \A i \in 1..Len(cs) : cs[i] \in Block
      /\ Len(bs) \in Nat /\ Len(cs) \in Nat
  BY SumsAreNumbers
<1>1. RemainingIn(cs, q) = RemainingIn(bs, q) + n
  <2>1. PICK f : f = [i \in 1..Len(bs) |-> bs[i].remaining]
    OBVIOUS
  <2>2. PICK g : g = [i \in 1..Len(cs) |-> cs[i].remaining]
    OBVIOUS
  <2>3. \A i \in 1..Len(cs) : g[i] = cs[i].remaining /\ g[i] \in Nat
    BY <1>0, <2>2, ColumnTypes
  <2>4. Grows(bs, cs, f, g)
    <3>1. ASSUME NEW i \in 1..Len(bs)
          PROVE  cs[i] = bs[i] /\ f[i] \in Nat /\ g[i] = f[i]
      <4>1. i \in 1..Len(cs) /\ cs[i] = bs[i] /\ bs[i] \in Block
        BY <1>0
      <4>2. f[i] = bs[i].remaining /\ f[i] \in Nat
        BY <2>1, <4>1, ColumnTypes
      <4>3. g[i] = cs[i].remaining
        BY <2>3, <4>1
      <4> QED
        BY <4>1, <4>2, <4>3
    <3> QED
      BY <1>0, <3>1 DEF Grows
  <2>5. /\ RemainingIn(bs, q) = SumFunctionOnSet(f, OwnRows(bs, q))
        /\ RemainingIn(cs, q) = SumFunctionOnSet(g, OwnRows(cs, q))
    BY <2>1, <2>2 DEF RemainingIn
  <2>6. CASE n = 0 /\ NoneNew(bs, cs, q)
    BY <1>0, <2>4, <2>5, <2>6, OthersRows
  <2>7. ASSUME NEW j, OneNew(bs, cs, q, j), cs[j].remaining = n, cs[j].original = n
        PROVE  RemainingIn(cs, q) = RemainingIn(bs, q) + n
    <3>1. g[j] = n
      BY <2>3, <2>7 DEF OneNew
    <3>2. SumFunctionOnSet(g, OwnRows(cs, q)) = n + SumFunctionOnSet(f, OwnRows(bs, q))
      BY <2>4, <2>7, <3>1, OwnNewRow
    <3> QED
      BY <1>0, <2>5, <3>1, <3>2
  <2> QED
    BY <2>6, <2>7
<1>2. OriginalIn(cs, q) = OriginalIn(bs, q) + n
  <2>1. PICK f : f = [i \in 1..Len(bs) |-> bs[i].original]
    OBVIOUS
  <2>2. PICK g : g = [i \in 1..Len(cs) |-> cs[i].original]
    OBVIOUS
  <2>3. \A i \in 1..Len(cs) : g[i] = cs[i].original /\ g[i] \in Nat
    BY <1>0, <2>2, ColumnTypes
  <2>4. Grows(bs, cs, f, g)
    <3>1. ASSUME NEW i \in 1..Len(bs)
          PROVE  cs[i] = bs[i] /\ f[i] \in Nat /\ g[i] = f[i]
      <4>1. i \in 1..Len(cs) /\ cs[i] = bs[i] /\ bs[i] \in Block
        BY <1>0
      <4>2. f[i] = bs[i].original /\ f[i] \in Nat
        BY <2>1, <4>1, ColumnTypes
      <4>3. g[i] = cs[i].original
        BY <2>3, <4>1
      <4> QED
        BY <4>1, <4>2, <4>3
    <3> QED
      BY <1>0, <3>1 DEF Grows
  <2>5. /\ OriginalIn(bs, q) = SumFunctionOnSet(f, OwnRows(bs, q))
        /\ OriginalIn(cs, q) = SumFunctionOnSet(g, OwnRows(cs, q))
    BY <2>1, <2>2 DEF OriginalIn
  <2>6. CASE n = 0 /\ NoneNew(bs, cs, q)
    BY <1>0, <2>4, <2>5, <2>6, OthersRows
  <2>7. ASSUME NEW j, OneNew(bs, cs, q, j), cs[j].remaining = n, cs[j].original = n
        PROVE  OriginalIn(cs, q) = OriginalIn(bs, q) + n
    <3>1. g[j] = n
      BY <2>3, <2>7 DEF OneNew
    <3>2. SumFunctionOnSet(g, OwnRows(cs, q)) = n + SumFunctionOnSet(f, OwnRows(bs, q))
      BY <2>4, <2>7, <3>1, OwnNewRow
    <3> QED
      BY <1>0, <2>5, <3>1, <3>2
  <2> QED
    BY <2>6, <2>7
<1> QED
  BY <1>1, <1>2

\* From the blocks of D, d was drawn.
Drawn(bs, cs, D, d) ==
    /\ Len(bs) = Len(cs)
    /\ \A i \in 1..Len(bs) :
          /\ cs[i].acct = bs[i].acct /\ cs[i].original = bs[i].original
          /\ i \in D => d[i] \in Int /\ bs[i].remaining = cs[i].remaining + d[i]
          /\ i \notin D => bs[i].remaining = cs[i].remaining

\* What is drawn from a block is missing from what is left of it.
LEMMA BlockDrawn ==
    ASSUME NEW b \in Block, NEW n \in Nat, NEW c, c = [b EXCEPT !.remaining = @ - n]
    PROVE  /\ c.acct = b.acct /\ c.original = b.original /\ c.expires = b.expires
           /\ b.remaining = c.remaining + n
  BY DEF Block

\* What is drawn from blocks is missing from what is left of them.
LEMMA BlocksDrawn ==
    ASSUME NEW bs \in Seq(Block), NEW cs \in Seq(Block), NEW D, NEW d, NEW q, Drawn(bs, cs, D, d)
    PROVE  /\ RemainingIn(bs, q) = RemainingIn(cs, q) + SumFunctionOnSet(d, D \cap OwnRows(bs, q))
           /\ SumFunctionOnSet(d, D \cap OwnRows(bs, q)) \in Int
           /\ OriginalIn(cs, q) = OriginalIn(bs, q)
<1> USE DEF Drawn
<1>0. /\ \A i \in 1..Len(bs) : bs[i] \in Block /\ cs[i] \in Block
      /\ IsFiniteSet(OwnRows(bs, q)) /\ OwnRows(bs, q) \subseteq 1..Len(bs)
  BY RowsFinite
<1>1. OwnRows(cs, q) = OwnRows(bs, q)
  BY DEF OwnRows
<1>2. PICK f : f = [i \in 1..Len(bs) |-> bs[i].remaining]
  OBVIOUS
<1>3. PICK g : g = [i \in 1..Len(cs) |-> cs[i].remaining]
  OBVIOUS
<1>4. /\ \A i \in OwnRows(bs, q) : f[i] \in Int /\ g[i] \in Int
      /\ \A i \in OwnRows(bs, q) \cap D : d[i] \in Int /\ f[i] = g[i] + d[i]
      /\ \A i \in OwnRows(bs, q) \ D : f[i] = g[i]
  BY <1>0, <1>2, <1>3, ColumnTypes
<1>5. /\ RemainingIn(bs, q) = SumFunctionOnSet(f, OwnRows(bs, q))
      /\ RemainingIn(cs, q) = SumFunctionOnSet(g, OwnRows(bs, q))
  BY <1>1, <1>2, <1>3 DEF RemainingIn
<1>6. [i \in 1..Len(bs) |-> bs[i].original] = [i \in 1..Len(cs) |-> cs[i].original]
  OBVIOUS
<1>7. OriginalIn(cs, q) = OriginalIn(bs, q)
  BY <1>1, <1>6 DEF OriginalIn
<1>8. /\ SumFunctionOnSet(f, OwnRows(bs, q))
           = SumFunctionOnSet(g, OwnRows(bs, q)) + SumFunctionOnSet(d, D \cap OwnRows(bs, q))
      /\ SumFunctionOnSet(d, D \cap OwnRows(bs, q)) \in Int
  BY <1>0, <1>4, SumLess
<1> QED
  BY <1>5, <1>7, <1>8

\* A new hold reserves what it authorizes and has captured nothing.
LEMMA HoldsPlaced ==
    ASSUME NEW hs \in Seq(Hold), NEW ks \in Seq(Hold), NEW j, j = Len(hs) + 1, Len(ks) = j,
           \A i \in 1..Len(hs) : ks[i] = hs[i],
           ks[j].status = "active", ks[j].captured = 0, NEW q
    PROVE  /\ ks[j].acct = q => AuthorizedIn(ks, q) = AuthorizedIn(hs, q) + ks[j].authorized
           /\ ks[j].acct # q => AuthorizedIn(ks, q) = AuthorizedIn(hs, q)
           /\ CapturedIn(ks, q) = CapturedIn(hs, q)
<1>0. /\ Len(hs) \in Nat /\ j \in 1..Len(ks) /\ j \notin 1..Len(hs)
      /\ \A i \in 1..Len(ks) : ks[i] \in Hold /\ (i \in 1..Len(hs) \/ i = j)
      /\ \A i \in 1..Len(hs) : hs[i] \in Hold /\ i \in 1..Len(ks)
  OBVIOUS
<1>1. CapturedIn(ks, q) = CapturedIn(hs, q)
  <2>1. PICK f : f = [i \in 1..Len(hs) |-> hs[i].captured]
    OBVIOUS
  <2>2. PICK g : g = [i \in 1..Len(ks) |-> ks[i].captured]
    OBVIOUS
  <2>3. Grows(hs, ks, f, g) /\ g[j] = 0
    BY <1>0, <2>1, <2>2, ColumnTypes DEF Grows
  <2>4. /\ CapturedIn(hs, q) = SumFunctionOnSet(f, OwnRows(hs, q))
        /\ CapturedIn(ks, q) = SumFunctionOnSet(g, OwnRows(ks, q))
    BY <2>1, <2>2 DEF CapturedIn
  <2>5. CapturedIn(hs, q) \in Nat
    BY SumsAreNumbers
  <2>6. CASE ks[j].acct = q
    <3>1. OneNew(hs, ks, q, j)
      BY <1>0, <2>6 DEF OneNew
    <3>2. SumFunctionOnSet(g, OwnRows(ks, q)) = 0 + SumFunctionOnSet(f, OwnRows(hs, q))
      BY <2>3, <3>1, OwnNewRow
    <3> QED
      BY <2>4, <2>5, <3>2
  <2>7. CASE ks[j].acct # q
    <3>1. NoneNew(hs, ks, q)
      BY <1>0, <2>7 DEF NoneNew
    <3> QED
      BY <2>3, <2>4, <3>1, OthersRows
  <2> QED
    BY <2>6, <2>7
<1>2. PICK f : f = [i \in 1..Len(hs) |-> hs[i].authorized]
  OBVIOUS
<1>3. PICK g : g = [i \in 1..Len(ks) |-> ks[i].authorized]
  OBVIOUS
<1>4. PICK S : S = ActiveRows(hs, q)
  OBVIOUS
<1>5. IsFiniteSet(S) /\ S \subseteq 1..Len(hs)
  BY <1>0, <1>4, RowsFinite
<1>6. \A i \in S : f[i] \in Int /\ f[i] = g[i]
  BY <1>0, <1>2, <1>3, <1>5, ColumnTypes
<1>7. SumFunctionOnSet(f, S) = SumFunctionOnSet(g, S)
  BY <1>5, <1>6, SumSame
<1>8. /\ AuthorizedIn(hs, q) = SumFunctionOnSet(g, S) /\ AuthorizedIn(hs, q) \in Nat
      /\ AuthorizedIn(ks, q) = SumFunctionOnSet(g, ActiveRows(ks, q))
  BY <1>2, <1>3, <1>4, <1>7, SumsAreNumbers DEF AuthorizedIn, AuthorizedColumn
<1>9. CASE ks[j].acct # q
  <2>1. ActiveRows(ks, q) = S
    BY <1>0, <1>4, <1>9 DEF ActiveRows, OwnRows
  <2> QED
    BY <1>1, <1>8, <1>9, <2>1
<1>10. CASE ks[j].acct = q
  <2>1. ActiveRows(ks, q) = S \cup {j}
    BY <1>0, <1>4, <1>10 DEF ActiveRows, OwnRows
  <2>2. g[j] = ks[j].authorized /\ g[j] \in Int /\ j \notin S
    BY <1>0, <1>3, <1>5, ColumnTypes
  <2>3. \A i \in S : g[i] \in Int
    BY <1>6
  <2>4. SumFunctionOnSet(g, S \cup {j}) = g[j] + SumFunctionOnSet(g, S)
    BY <1>5, <2>2, <2>3, SumAdd
  <2> QED
    BY <1>1, <1>8, <1>10, <2>1, <2>2, <2>4
<1> QED
  BY <1>9, <1>10

\* The active holds of E were ended, and no other.
Ended(hs, ks, E) ==
    /\ Len(hs) = Len(ks)
    /\ \A i \in 1..Len(hs) :
          /\ ks[i].acct = hs[i].acct /\ ks[i].authorized = hs[i].authorized
          /\ i \in E => hs[i].status = "active" /\ ks[i].status # "active"
          /\ i \notin E => ks[i].status = hs[i].status

\* What ended holds reserved is missing from the reservations.
LEMMA HoldsEnded ==
    ASSUME NEW hs \in Seq(Hold), NEW ks \in Seq(Hold), NEW E, NEW q, Ended(hs, ks, E)
    PROVE  LET given == SumFunctionOnSet(AuthorizedColumn(hs), E \cap ActiveRows(hs, q))
           IN  AuthorizedIn(hs, q) = AuthorizedIn(ks, q) + given /\ given \in Nat
<1>0. /\ Len(hs) = Len(ks)
      /\ \A i \in 1..Len(hs) :
            /\ ks[i].acct = hs[i].acct /\ ks[i].authorized = hs[i].authorized
            /\ i \in E => hs[i].status = "active" /\ ks[i].status # "active"
            /\ i \notin E => ks[i].status = hs[i].status
  BY DEF Ended
<1>1. PICK S : S = ActiveRows(ks, q)
  OBVIOUS
<1>2. PICK T : T = E \cap ActiveRows(hs, q)
  OBVIOUS
<1>3. ActiveRows(hs, q) = S \cup T /\ S \cap T = {}
  BY <1>0, <1>1, <1>2 DEF ActiveRows, OwnRows
<1>4. IsFiniteSet(S \cup T) /\ S \cup T \subseteq 1..Len(hs)
  <2>1. IsFiniteSet(ActiveRows(hs, q)) /\ ActiveRows(hs, q) \subseteq 1..Len(hs)
    BY RowsFinite
  <2> QED
    BY <1>3, <2>1
<1>5. IsFiniteSet(S) /\ IsFiniteSet(T)
  BY <1>4, FS_Subset
<1>6. \A i \in 1..Len(hs) : hs[i] \in Hold
  OBVIOUS
<1>7. PICK f : f = AuthorizedColumn(hs)
  OBVIOUS
<1>8. \A i \in S \cup T : f[i] \in Int /\ f[i] \in Nat
  BY <1>4, <1>6, <1>7, ColumnTypes DEF AuthorizedColumn
<1>9. SumFunctionOnSet(f, S \cup T) = SumFunctionOnSet(f, S) + SumFunctionOnSet(f, T)
  BY <1>3, <1>5, <1>8, SumUnion
<1>10. SumFunctionOnSet(f, T) \in Nat
  BY <1>5, <1>8, SumNat
<1>11. f = AuthorizedColumn(ks)
  BY <1>0, <1>7 DEF AuthorizedColumn
<1>12. /\ AuthorizedIn(hs, q) = SumFunctionOnSet(f, S \cup T)
       /\ AuthorizedIn(ks, q) = SumFunctionOnSet(f, S)
  BY <1>1, <1>3, <1>7, <1>11 DEF AuthorizedIn
<1> QED
  BY <1>2, <1>7, <1>9, <1>10, <1>12

\* Ending a hold without capturing leaves what was captured as it is.
LEMMA CapturedSame ==
    ASSUME NEW hs, NEW ks, Len(hs) = Len(ks), NEW q,
           \A i \in 1..Len(hs) : ks[i].acct = hs[i].acct /\ ks[i].captured = hs[i].captured
    PROVE  CapturedIn(ks, q) = CapturedIn(hs, q)
<1>1. OwnRows(ks, q) = OwnRows(hs, q)
  BY DEF OwnRows
<1>2. [i \in 1..Len(hs) |-> hs[i].captured] = [i \in 1..Len(ks) |-> ks[i].captured]
  OBVIOUS
<1> QED
  BY <1>1, <1>2 DEF CapturedIn

\* n was captured of hold j.
Captures(hs, ks, j, n) ==
    /\ Len(hs) = Len(ks) /\ hs[j].captured = 0 /\ ks[j].captured = n
    /\ \A i \in 1..Len(hs) :
          /\ ks[i].acct = hs[i].acct
          /\ i # j => ks[i].captured = hs[i].captured

\* Capturing a hold adds the amount to what its account has captured.
LEMMA CapturedOne ==
    ASSUME NEW hs \in Seq(Hold), NEW ks \in Seq(Hold), NEW q,
           NEW j \in 1..Len(hs), NEW n \in Nat, Captures(hs, ks, j, n)
    PROVE  /\ hs[j].acct = q => CapturedIn(ks, q) = CapturedIn(hs, q) + n
           /\ hs[j].acct # q => CapturedIn(ks, q) = CapturedIn(hs, q)
<1>1. /\ Len(hs) = Len(ks) /\ hs[j].captured = 0 /\ ks[j].captured = n
      /\ \A i \in 1..Len(hs) :
            /\ ks[i].acct = hs[i].acct
            /\ i # j => ks[i].captured = hs[i].captured
  BY DEF Captures
<1>2. /\ \A i \in 1..Len(hs) : hs[i] \in Hold /\ ks[i] \in Hold
      /\ IsFiniteSet(OwnRows(hs, q)) /\ OwnRows(hs, q) \subseteq 1..Len(hs)
      /\ CapturedIn(hs, q) \in Nat
  BY <1>1, RowsFinite, SumsAreNumbers
<1>3. OwnRows(ks, q) = OwnRows(hs, q)
  BY <1>1 DEF OwnRows
<1>4. PICK f : f = [i \in 1..Len(ks) |-> ks[i].captured]
  OBVIOUS
<1>5. PICK g : g = [i \in 1..Len(hs) |-> hs[i].captured]
  OBVIOUS
<1>6. PICK D : D = {j}
  OBVIOUS
<1>7. PICK d : d = [i \in D |-> n]
  OBVIOUS
<1>8. /\ \A i \in OwnRows(hs, q) : f[i] \in Int /\ g[i] \in Int
      /\ \A i \in OwnRows(hs, q) \cap D : d[i] \in Int /\ f[i] = g[i] + d[i]
      /\ \A i \in OwnRows(hs, q) \ D : f[i] = g[i]
  <2>1. ASSUME NEW i \in 1..Len(hs)
        PROVE  f[i] = ks[i].captured /\ g[i] = hs[i].captured /\ f[i] \in Int /\ g[i] \in Int
    <3>1. f[i] = ks[i].captured /\ g[i] = hs[i].captured
      BY <1>1, <1>4, <1>5
    <3> QED
      BY <1>2, <3>1, ColumnTypes
  <2>2. f[j] = n /\ g[j] = 0 /\ d[j] = n
    BY <1>1, <1>6, <1>7, <2>1
  <2>3. \A i \in OwnRows(hs, q) : f[i] \in Int /\ g[i] \in Int
    BY <1>2, <2>1
  <2>4. \A i \in OwnRows(hs, q) \cap D : d[i] \in Int /\ f[i] = g[i] + d[i]
    BY <1>6, <2>2
  <2>5. \A i \in OwnRows(hs, q) \ D : f[i] = g[i]
    BY <1>1, <1>2, <1>6, <2>1
  <2> QED
    BY <2>3, <2>4, <2>5
<1>9. SumFunctionOnSet(f, OwnRows(hs, q))
        = SumFunctionOnSet(g, OwnRows(hs, q)) + SumFunctionOnSet(d, D \cap OwnRows(hs, q))
  <2>1. PICK S : S = OwnRows(hs, q)
    OBVIOUS
  <2>2. /\ IsFiniteSet(S)
        /\ \A i \in S : f[i] \in Int /\ g[i] \in Int
        /\ \A i \in S \cap D : d[i] \in Int /\ f[i] = g[i] + d[i]
        /\ \A i \in S \ D : f[i] = g[i]
    BY <1>2, <1>8, <2>1
  <2>3. /\ SumFunctionOnSet(f, S) = SumFunctionOnSet(g, S) + SumFunctionOnSet(d, D \cap S)
        /\ SumFunctionOnSet(d, D \cap S) \in Int
    BY ONLY <2>2, SumLess
  <2> QED
    BY <2>1, <2>3
<1>10. /\ CapturedIn(hs, q) = SumFunctionOnSet(g, OwnRows(hs, q))
      /\ CapturedIn(ks, q) = SumFunctionOnSet(f, OwnRows(hs, q))
  BY <1>3, <1>4, <1>5 DEF CapturedIn
<1>11. CASE hs[j].acct = q
  <2>1. D \cap OwnRows(hs, q) = {j}
    BY <1>6, <1>11 DEF OwnRows
  <2>2. SumFunctionOnSet(d, {j}) = n
    <3>1. PICK x : x = j
      OBVIOUS
    <3>2. d[x] = n /\ n \in Int
      BY <1>6, <1>7, <3>1
    <3>3. SumFunctionOnSet(d, {x}) = n
      BY ONLY <3>2, SumSingleton
    <3> QED
      BY <3>1, <3>3
  <2> QED
    BY <1>9, <1>10, <1>11, <2>1, <2>2
<1>12. CASE hs[j].acct # q
  <2>1. D \cap OwnRows(hs, q) = {}
    BY <1>6, <1>12 DEF OwnRows
  <2>2. SumFunctionOnSet(d, {}) = 0
    BY SumEmpty
  <2>3. CapturedIn(ks, q) = CapturedIn(hs, q) + 0
    BY <1>9, <1>10, <2>1, <2>2
  <2> QED
    BY <1>2, <1>12, <2>3
<1> QED
  BY <1>11, <1>12

----------------------------------------------------------------------------
(* The balance rows agree with the sums.                                   *)

BalanceTypes ==
    /\ balance \in [Account -> Int] /\ held \in [Account -> Int]
    /\ withdrawn \in [Account -> Int]
NeverExpires(bs, q) == \A i \in OwnRows(bs, q) : bs[i].expires = Never

\* The four facts about one account that the steps keep together: a capture leaves the
\* balance positive only because the reservation was part of held and held was covered.
AccountSound(q) ==
    /\ held[q] = AuthorizedIn(holds, q)
    /\ 0 <= balance[q] /\ balance[q] <= RemainingIn(blocks, q)
    /\ withdrawn[q] + balance[q] + CapturedIn(holds, q) <= OriginalIn(blocks, q)
    /\ NeverExpires(blocks, q) => held[q] <= balance[q]

TotalsInv == BalanceTypes /\ \A q \in Account : AccountSound(q)

\* The rows an action names are the rows the sums are taken over.
LEMMA RowsAre ==
    ASSUME NEW q
    PROVE  /\ BlocksOf(q) = OwnRows(blocks, q)
           /\ ActiveHoldsOf(q) = ActiveRows(holds, q)
           /\ {i \in 1..Len(holds) : holds[i].acct = q} = OwnRows(holds, q)
  BY DEF BlocksOf, ActiveHoldsOf, OwnRows, ActiveRows

\* What the sums and the balances of an account are, in numbers.
LEMMA Numbers ==
    ASSUME IInv, TotalsInv, NEW q \in Account
    PROVE  /\ balance[q] \in Int /\ held[q] \in Int /\ withdrawn[q] \in Int
           /\ RemainingIn(blocks, q) \in Nat /\ OriginalIn(blocks, q) \in Nat
           /\ AuthorizedIn(holds, q) \in Nat /\ CapturedIn(holds, q) \in Nat
           /\ AccountSound(q)
<1>1. blocks \in Seq(Block) /\ holds \in Seq(Hold)
  BY DEF IInv, RowsTypeOK
<1>2. /\ RemainingIn(blocks, q) \in Nat /\ OriginalIn(blocks, q) \in Nat
      /\ AuthorizedIn(holds, q) \in Nat /\ CapturedIn(holds, q) \in Nat
  BY <1>1, SumsAreNumbers
<1> QED
  BY <1>2 DEF TotalsInv, BalanceTypes

\* Initially there is nothing to sum.
LEMMA InitTotals == Init => TotalsInv
<1> SUFFICES ASSUME Init PROVE TotalsInv
  OBVIOUS
<1>1. BalanceTypes
  BY DEF Init, BalanceTypes
<1>2. ASSUME NEW q \in Account PROVE AccountSound(q)
  <2>1. OwnRows(blocks, q) = {} /\ OwnRows(holds, q) = {} /\ ActiveRows(holds, q) = {}
    BY DEF Init, OwnRows, ActiveRows
  <2>2. /\ RemainingIn(blocks, q) = 0 /\ OriginalIn(blocks, q) = 0
        /\ AuthorizedIn(holds, q) = 0 /\ CapturedIn(holds, q) = 0
    BY <2>1, SumEmpty DEF RemainingIn, OriginalIn, AuthorizedIn, CapturedIn
  <2>3. balance[q] = 0 /\ held[q] = 0 /\ withdrawn[q] = 0
    BY DEF Init
  <2> QED
    BY <2>2, <2>3 DEF AccountSound
<1> QED
  BY <1>1, <1>2 DEF TotalsInv

\* Rows that are added: each account's balance grows by the amount of its new block.
LEMMA PaidInSums ==
    ASSUME IInv, IInv', TotalsInv, UNCHANGED <<held, holds, withdrawn>>,
           Len(blocks) <= Len(blocks'), \A i \in 1..Len(blocks) : blocks'[i] = blocks[i],
           NEW q \in Account, NEW n \in Nat, balance'[q] = balance[q] + n,
           \/ n = 0 /\ NoneNew(blocks, blocks', q)
           \/ \E j : OneNew(blocks, blocks', q, j)
                     /\ blocks'[j].remaining = n /\ blocks'[j].original = n
    PROVE  AccountSound(q)'
<1>1. /\ blocks \in Seq(Block) /\ blocks' \in Seq(Block)
      /\ Len(blocks) \in Nat /\ Len(blocks') \in Nat
  BY DEF IInv, RowsTypeOK
<1>2. /\ RemainingIn(blocks', q) = RemainingIn(blocks, q) + n
      /\ OriginalIn(blocks', q) = OriginalIn(blocks, q) + n
  BY <1>1, BlocksGrow
<1>3. NeverExpires(blocks', q) => NeverExpires(blocks, q)
  BY <1>1 DEF NeverExpires, OwnRows
<1>4. /\ balance[q] \in Int /\ held[q] \in Int /\ withdrawn[q] \in Int
      /\ RemainingIn(blocks, q) \in Nat /\ OriginalIn(blocks, q) \in Nat
      /\ AuthorizedIn(holds, q) \in Nat /\ CapturedIn(holds, q) \in Nat
      /\ AccountSound(q)
  BY Numbers
<1> QED
  BY <1>2, <1>3, <1>4, SMTT(30) DEF AccountSound

\* A deposit.
LEMMA DepositSums ==
    ASSUME IInv, IInv', TotalsInv, NEW a \in Account, NEW k \in Keys \cup {NoKey},
           NEW amt \in Amounts, NEW e \in ExpiryTimes, Deposit(a, k, amt, e)
    PROVE  TotalsInv'
<1> DEFINE b == NewBlock(a, k, amt, e)
           j == Len(blocks) + 1
<1>1. /\ blocks \in Seq(Block) /\ blocks' = Append(blocks, b) /\ amt \in Nat
      /\ balance' = [balance EXCEPT ![a] = @ + amt]
      /\ UNCHANGED <<held, holds, withdrawn>>
  BY CreditsAssumption DEF Deposit, IInv, RowsTypeOK
<1>2. b \in Block
  BY NewBlockType, CreditsAssumption DEF DepositKey, Never
<1>3. /\ Len(blocks') = j /\ Len(blocks) \in Nat /\ blocks'[j] = b
      /\ \A i \in 1..Len(blocks) : blocks'[i] = blocks[i]
  BY <1>1, <1>2
<1>4. b.acct = a /\ b.remaining = amt /\ b.original = amt
  BY DEF NewBlock
<1>5. BalanceTypes'
  BY <1>1 DEF TotalsInv, BalanceTypes
<1>6. ASSUME NEW q \in Account PROVE AccountSound(q)'
  <2>1. CASE q = a
    <3>1. OneNew(blocks, blocks', q, j)
      BY <2>1, <1>3, <1>4 DEF OneNew
    <3>2. balance'[q] = balance[q] + amt
      BY <2>1, <1>1 DEF TotalsInv, BalanceTypes
    <3>3. Len(blocks) <= Len(blocks')
      BY <1>3
    <3> QED
      BY <1>1, <1>3, <1>4, <3>1, <3>2, <3>3, PaidInSums
  <2>2. CASE q # a
    <3>1. NoneNew(blocks, blocks', q)
      BY <2>2, <1>3, <1>4 DEF NoneNew
    <3>2. balance'[q] = balance[q] + 0
      BY <2>2, <1>1 DEF TotalsInv, BalanceTypes
    <3>3. Len(blocks) <= Len(blocks')
      BY <1>3
    <3> QED
      BY <1>1, <1>3, <3>1, <3>2, <3>3, PaidInSums
  <2> QED
    BY <2>1, <2>2
<1> QED
  BY <1>5, <1>6 DEF TotalsInv

\* The grants of a subscription event: at most one per account, because a credits_spec has
\* one grant per credit type.
LEMMA GrantSums ==
    ASSUME IInv, IInv', TotalsInv, NEW s \in Subs, NEW p \in Periods, NEW cadence \in Cadence,
           GrantSubscriptionCredits(s, p, cadence)
    PROVE  TotalsInv'
<1>1. PICK new : new = GrantedBlocks(s, p, cadence)
  OBVIOUS
<1>2. ASSUME NEW b \in new, NEW c \in new, c.acct = b.acct PROVE c = b
  <2>1. PICK g \in DueGrants(s, p, cadence) :
            b = NewBlock(<<SubUser[s], g.ct>>, GrantKeyOf(s, g.ct, p), g.amount,
                         IF g.days = 0 THEN Never ELSE now + g.days)
    BY <1>1 DEF GrantedBlocks
  <2>2. PICK h \in DueGrants(s, p, cadence) :
            c = NewBlock(<<SubUser[s], h.ct>>, GrantKeyOf(s, h.ct, p), h.amount,
                         IF h.days = 0 THEN Never ELSE now + h.days)
    BY <1>1, <1>2 DEF GrantedBlocks
  <2>3. b.acct = <<SubUser[s], g.ct>> /\ c.acct = <<SubUser[s], h.ct>>
    BY <2>1, <2>2 DEF NewBlock
  <2>4. g.ct = h.ct /\ g \in CreditsSpec[s] /\ h \in CreditsSpec[s]
    BY <1>2, <2>1, <2>2, <2>3 DEF DueGrants
  <2>5. h = g
    BY <2>4, CreditsAssumption
  <2> QED
    BY <2>1, <2>2, <2>5
<1>3. ASSUME NEW b \in new PROVE b.original \in Nat /\ b.remaining = b.original
  <2>1. PICK g \in DueGrants(s, p, cadence) :
            b = NewBlock(<<SubUser[s], g.ct>>, GrantKeyOf(s, g.ct, p), g.amount,
                         IF g.days = 0 THEN Never ELSE now + g.days)
    BY <1>1 DEF GrantedBlocks
  <2>2. g.amount \in Nat
    BY <2>1, CreditsAssumption DEF DueGrants
  <2> QED
    BY <2>1, <2>2 DEF NewBlock
<1>4. PICK n \in 1..MaxBlocks - Len(blocks) :
          \E f \in Bijection(1..n, new) : blocks' = blocks \o f
  BY <1>1 DEF GrantSubscriptionCredits
<1>5. PICK f \in Bijection(1..n, new) : blocks' = blocks \o f
  BY <1>4
<1>6. /\ blocks \in Seq(Block) /\ Len(blocks) \in Nat /\ n \in Nat
      /\ Len(blocks') \in Nat
  BY <1>4, CreditsAssumption DEF IInv, RowsTypeOK
<1>7. /\ f \in [1..n -> new]
      /\ \A i, j \in 1..n : f[i] = f[j] => i = j
      /\ \A b \in new : \E i \in 1..n : f[i] = b
  <2>1. f \in [1..n -> new] /\ IsInjective(f) /\ \A b \in new : \E i \in 1..n : f[i] = b
    BY <1>5 DEF Bijection, Injection, Surjection
  <2> QED
    BY <2>1 DEF IsInjective
<1>8. /\ Len(blocks') = Len(blocks) + n
      /\ \A i \in 1..Len(blocks) : blocks'[i] = blocks[i]
      /\ \A i \in 1..n : blocks'[Len(blocks) + i] = f[i]
  <2>1. f \in Seq(new) /\ Len(f) = n
    BY <1>6, <1>7, FunctionIsSeq
  <2>2. f \in Seq(Block \cup new) /\ blocks \in Seq(Block \cup new)
    BY <1>6, <2>1
  <2>3. /\ Len(blocks \o f) = Len(blocks) + Len(f)
        /\ \A i \in 1..Len(blocks) : (blocks \o f)[i] = blocks[i]
        /\ \A i \in 1..Len(blocks \o f) : i > Len(blocks) => (blocks \o f)[i] = f[i - Len(blocks)]
    BY <2>2, ConcatenationOf
  <2>4. ASSUME NEW i \in 1..n PROVE (blocks \o f)[Len(blocks) + i] = f[i]
    <3>1. Len(blocks) + i \in 1..Len(blocks \o f) /\ Len(blocks) + i > Len(blocks)
          /\ (Len(blocks) + i) - Len(blocks) = i
      BY <1>6, <2>1, <2>3
    <3> QED
      BY <2>3, <3>1
  <2> QED
    BY <1>5, <2>1, <2>3, <2>4
<1>9. /\ balance' = [q \in Account |->
                       IF \E b \in new : b.acct = q
                       THEN balance[q] + (CHOOSE b \in new : b.acct = q).original
                       ELSE balance[q]]
      /\ UNCHANGED <<held, holds, withdrawn>>
  BY <1>1 DEF GrantSubscriptionCredits
<1>10. ASSUME NEW q \in Account PROVE balance'[q] \in Int /\ AccountSound(q)'
  <2>0. Len(blocks) <= Len(blocks') /\ balance[q] \in Int
    BY <1>6, <1>8 DEF TotalsInv, BalanceTypes
  <2>1. CASE \E b \in new : b.acct = q
    <3>1. PICK b : b = CHOOSE c \in new : c.acct = q
      OBVIOUS
    <3>2. b \in new /\ b.acct = q
      BY <2>1, <3>1
    <3>3. PICK i \in 1..n : f[i] = b
      BY <1>7, <3>2
    <3>4. PICK j : j = Len(blocks) + i
      OBVIOUS
    <3>5. blocks'[j] = b /\ j \in 1..Len(blocks') /\ j > Len(blocks)
      BY <1>6, <1>8, <3>3, <3>4
    <3>6. ASSUME NEW m \in 1..Len(blocks'), blocks'[m].acct = q
          PROVE  m <= Len(blocks) \/ m = j
      <4>1. CASE m > Len(blocks)
        <5>1. PICK l : l = m - Len(blocks)
          OBVIOUS
        <5>2. l \in 1..n /\ m = Len(blocks) + l
          BY <1>6, <1>8, <4>1, <5>1
        <5>3. blocks'[m] = f[l] /\ f[l] \in new
          BY <1>7, <1>8, <5>2
        <5>4. f[l] = f[i]
          BY <1>2, <3>2, <3>3, <3>6, <5>3
        <5> QED
          BY <1>7, <3>4, <5>2, <5>4
      <4> QED
        BY <1>6, <4>1
    <3>7. OneNew(blocks, blocks', q, j)
      BY <3>2, <3>5, <3>6 DEF OneNew
    <3>8. PICK m : m = b.original
      OBVIOUS
    <3>9. m \in Nat /\ blocks'[j].remaining = m /\ blocks'[j].original = m
      BY <1>3, <3>2, <3>5, <3>8
    <3>10. balance'[q] = balance[q] + m
      BY <1>9, <2>1, <3>1, <3>8
    <3>11. AccountSound(q)'
      BY <1>8, <1>9, <2>0, <3>7, <3>9, <3>10, PaidInSums
    <3> QED
      BY <2>0, <3>9, <3>10, <3>11
  <2>2. CASE ~\E b \in new : b.acct = q
    <3>1. ASSUME NEW m \in 1..Len(blocks'), blocks'[m].acct = q
          PROVE  m <= Len(blocks)
      <4>1. CASE m > Len(blocks)
        <5>1. PICK l : l = m - Len(blocks)
          OBVIOUS
        <5>2. l \in 1..n /\ m = Len(blocks) + l
          BY <1>6, <1>8, <4>1, <5>1
        <5>3. blocks'[m] = f[l] /\ f[l] \in new
          BY <1>7, <1>8, <5>2
        <5> QED
          BY <2>2, <3>1, <5>3
      <4> QED
        BY <1>6, <4>1
    <3>2. NoneNew(blocks, blocks', q)
      BY <3>1 DEF NoneNew
    <3>3. balance'[q] = balance[q] /\ balance'[q] = balance[q] + 0
      BY <1>9, <2>0, <2>2
    <3>4. AccountSound(q)'
      BY <1>8, <1>9, <2>0, <3>2, <3>3, PaidInSums
    <3> QED
      BY <2>0, <3>3, <3>4
  <2> QED
    BY <2>1, <2>2
<1>11. BalanceTypes'
  <2>1. \A q \in Account : balance'[q] \in Int
    BY <1>10
  <2>2. balance' = [q \in Account |-> balance'[q]]
    BY <1>9
  <2>3. balance' \in [Account -> Int]
    BY <2>1, <2>2
  <2> QED
    BY <1>9, <2>3 DEF TotalsInv, BalanceTypes
<1> QED
  BY <1>10, <1>11 DEF TotalsInv

\* A withdrawal draws at most its amount, from blocks of its own account.
LEMMA WithdrawSums ==
    ASSUME IInv, IInv', NEW a \in Account, NEW amt \in Amounts, WithdrawBalanceAndBlocks(a, amt)
    PROVE  \E n \in Nat : /\ n <= amt
                          /\ RemainingIn(blocks, a) = RemainingIn(blocks', a) + n
                          /\ \A q \in Account :
                                /\ q # a => RemainingIn(blocks, q) = RemainingIn(blocks', q)
                                /\ OriginalIn(blocks', q) = OriginalIn(blocks, q)
                                /\ NeverExpires(blocks', q) => NeverExpires(blocks, q)
<1>1. PICK draw \in [LiveBlocks(a) -> 0..amt] :
          /\ IsDraw(draw, a, amt)
          /\ blocks' = [i \in 1..Len(blocks) |->
                          IF i \in LiveBlocks(a)
                          THEN [blocks[i] EXCEPT !.remaining = @ - draw[i]]
                          ELSE blocks[i]]
  BY DEF WithdrawBalanceAndBlocks
<1>2. /\ blocks \in Seq(Block) /\ blocks' \in Seq(Block) /\ Len(blocks) \in Nat /\ amt \in Nat
      /\ \A i \in 1..Len(blocks) : blocks[i] \in Block
  BY CreditsAssumption DEF IInv, RowsTypeOK
<1>3. Len(blocks') = Len(blocks)
  <2>1. \A i \in 1..Len(blocks) : blocks'[i] = blocks'[i]
    OBVIOUS
  <2>2. DOMAIN blocks' = 1..Len(blocks) /\ DOMAIN blocks' = 1..Len(blocks') /\ Len(blocks') \in Nat
    BY <1>1, <1>2
  <2> QED
    BY <1>2, <2>2
<1>4. PICK D : D = LiveBlocks(a)
  OBVIOUS
<1>5. D \subseteq OwnRows(blocks, a)
  BY <1>4, RowsAre DEF LiveBlocks
<1>6. ASSUME NEW i \in 1..Len(blocks)
      PROVE  /\ blocks'[i].acct = blocks[i].acct /\ blocks'[i].original = blocks[i].original
             /\ blocks'[i].expires = blocks[i].expires
             /\ i \in D => draw[i] \in Nat /\ draw[i] \in Int
                           /\ blocks[i].remaining = blocks'[i].remaining + draw[i]
             /\ i \notin D => blocks[i].remaining = blocks'[i].remaining
  <2>1. CASE i \in D
    <3>1. draw[i] \in Nat
      BY <1>1, <1>2, <1>4, <2>1
    <3>2. blocks'[i] = [blocks[i] EXCEPT !.remaining = @ - draw[i]]
      BY <1>1, <1>4, <2>1
    <3>3. PICK b \in Block : b = blocks[i]
      BY <1>2
    <3>4. PICK c : c = blocks'[i]
      OBVIOUS
    <3>5. PICK n \in Nat : n = draw[i]
      BY <3>1
    <3>6. c = [b EXCEPT !.remaining = @ - n]
      BY <3>2, <3>3, <3>4, <3>5
    <3>7. /\ c.acct = b.acct /\ c.original = b.original /\ c.expires = b.expires
          /\ b.remaining = c.remaining + n
      BY ONLY <3>6, b \in Block, n \in Nat, BlockDrawn
    <3> QED
      BY <2>1, <3>1, <3>3, <3>4, <3>5, <3>7
  <2>2. CASE i \notin D
    <3>1. blocks'[i] = blocks[i]
      BY <1>1, <1>4, <2>2
    <3> QED
      BY <2>2, <3>1
  <2> QED
    BY <2>1, <2>2
<1>7. ASSUME NEW q
      PROVE  /\ RemainingIn(blocks, q)
                  = RemainingIn(blocks', q) + SumFunctionOnSet(draw, D \cap OwnRows(blocks, q))
             /\ SumFunctionOnSet(draw, D \cap OwnRows(blocks, q)) \in Int
             /\ OriginalIn(blocks', q) = OriginalIn(blocks, q)
             /\ RemainingIn(blocks', q) \in Nat
  <2>1. Drawn(blocks, blocks', D, draw)
    BY <1>3, <1>6 DEF Drawn
  <2> QED
    BY <1>2, <2>1, BlocksDrawn, SumsAreNumbers
<1>8. PICK n : n = SumFunctionOnSet(draw, D)
  OBVIOUS
<1>9. n \in Nat /\ n <= amt
  <2>1. IsFiniteSet(D)
    BY <1>2, <1>5, RowsFinite, FS_Subset
  <2>2. \A i \in D : draw[i] \in Nat
    BY <1>1, <1>2, <1>4
  <2>3. n \in Nat
    BY <1>8, <2>1, <2>2, SumNat
  <2>4. PICK live : live = SumFunctionOnSet(remaining, D)
    OBVIOUS
  <2>5. n = IF live < amt THEN live ELSE amt
    BY <1>1, <1>4, <1>8, <2>4 DEF IsDraw
  <2> QED
    BY <1>2, <2>3, <2>5
<1>10. RemainingIn(blocks, a) = RemainingIn(blocks', a) + n
  <2>1. D \cap OwnRows(blocks, a) = D
    BY <1>5
  <2> QED
    BY <1>7, <1>8, <2>1
<1>11. ASSUME NEW q \in Account
       PROVE  /\ q # a => RemainingIn(blocks, q) = RemainingIn(blocks', q)
              /\ OriginalIn(blocks', q) = OriginalIn(blocks, q)
              /\ NeverExpires(blocks', q) => NeverExpires(blocks, q)
  <2>1. ASSUME q # a PROVE RemainingIn(blocks, q) = RemainingIn(blocks', q)
    <3>1. D \cap OwnRows(blocks, q) = {}
      BY <1>5, <2>1 DEF OwnRows
    <3>2. SumFunctionOnSet(draw, {}) = 0
      BY SumEmpty
    <3> QED
      BY <1>7, <3>1, <3>2
  <2>2. NeverExpires(blocks', q) => NeverExpires(blocks, q)
    BY <1>3, <1>6 DEF NeverExpires, OwnRows
  <2> QED
    BY <1>7, <2>1, <2>2
<1> QED
  BY <1>9, <1>10, <1>11

\* A withdrawal takes what is available, so what is reserved stays covered.
LEMMA WithdrawTotals ==
    ASSUME IInv, IInv', TotalsInv, NEW a \in Account, NEW amt \in Amounts, Withdraw(a, amt)
    PROVE  TotalsInv'
<1>1. PICK n \in Nat :
         /\ n <= amt
         /\ RemainingIn(blocks, a) = RemainingIn(blocks', a) + n
         /\ \A q \in Account : /\ q # a => RemainingIn(blocks, q) = RemainingIn(blocks', q)
                               /\ OriginalIn(blocks', q) = OriginalIn(blocks, q)
                               /\ NeverExpires(blocks', q) => NeverExpires(blocks, q)
  BY WithdrawSums DEF Withdraw, WithdrawTx
<1>2. /\ balance' = [balance EXCEPT ![a] = @ - amt]
      /\ withdrawn' = [withdrawn EXCEPT ![a] = @ + amt]
      /\ UNCHANGED <<held, holds>> /\ balance[a] - held[a] >= amt /\ amt \in Nat
  BY CreditsAssumption DEF Withdraw, WithdrawTx, WithdrawBalanceAndBlocks, Available
<1>3. BalanceTypes'
  BY <1>2 DEF TotalsInv, BalanceTypes
<1>4. ASSUME NEW q \in Account PROVE AccountSound(q)'
  <2>1. /\ balance[q] \in Int /\ held[q] \in Int /\ withdrawn[q] \in Int
        /\ RemainingIn(blocks, q) \in Nat /\ OriginalIn(blocks, q) \in Nat
        /\ AuthorizedIn(holds, q) \in Nat /\ CapturedIn(holds, q) \in Nat
        /\ AccountSound(q)
    BY Numbers
  <2>2. blocks' \in Seq(Block)
    BY DEF IInv, RowsTypeOK
  <2>3. RemainingIn(blocks', q) \in Nat
    BY <2>2, SumsAreNumbers
  <2>4. CASE q = a
    <3>1. balance'[q] = balance[q] - amt /\ withdrawn'[q] = withdrawn[q] + amt
      BY <1>2, <2>4 DEF TotalsInv, BalanceTypes
    <3> QED
      BY <1>1, <1>2, <2>1, <2>3, <2>4, <3>1 DEF AccountSound
  <2>5. CASE q # a
    <3>1. balance'[q] = balance[q] /\ withdrawn'[q] = withdrawn[q]
      BY <1>2, <2>5 DEF TotalsInv, BalanceTypes
    <3> QED
      BY <1>1, <1>2, <2>1, <2>5, <3>1 DEF AccountSound
  <2> QED
    BY <2>4, <2>5
<1> QED
  BY <1>3, <1>4 DEF TotalsInv

\* A new hold reserves what is available.
LEMMA PlaceHoldTotals ==
    ASSUME IInv, IInv', TotalsInv, NEW a \in Account, NEW k \in Keys, NEW amt \in Amounts,
           NEW e \in HoldTimes, PlaceHold(a, k, amt, e)
    PROVE  TotalsInv'
<1> DEFINE h == [acct |-> a, key |-> k, authorized |-> amt,
                 captured |-> 0, expires |-> e, status |-> "active"]
           j == Len(holds) + 1
<1>1. h \in Hold /\ holds \in Seq(Hold) /\ holds' \in Seq(Hold) /\ amt \in Nat
  BY CreditsAssumption DEF Hold, HoldStatus, IInv, RowsTypeOK
<1>2. /\ Len(holds') = j /\ \A i \in 1..Len(holds) : holds'[i] = holds[i]
      /\ holds'[j] = h
  BY <1>1 DEF PlaceHold
<1>3. /\ held' = [held EXCEPT ![a] = @ + amt]
      /\ UNCHANGED <<balance, blocks, withdrawn>> /\ balance[a] - held[a] >= amt
  BY DEF PlaceHold, Available
<1>4. BalanceTypes'
  BY <1>1, <1>3 DEF TotalsInv, BalanceTypes
<1>5. holds'[j].status = "active" /\ holds'[j].captured = 0 /\ holds'[j].acct = a
      /\ holds'[j].authorized = amt
  BY <1>2
<1>6. ASSUME NEW q \in Account PROVE AccountSound(q)'
  <2>1. /\ balance[q] \in Int /\ held[q] \in Int /\ withdrawn[q] \in Int
        /\ RemainingIn(blocks, q) \in Nat /\ OriginalIn(blocks, q) \in Nat
        /\ AuthorizedIn(holds, q) \in Nat /\ CapturedIn(holds, q) \in Nat
        /\ AccountSound(q)
    BY Numbers
  <2>2. /\ holds'[j].acct = q => AuthorizedIn(holds', q) = AuthorizedIn(holds, q) + holds'[j].authorized
        /\ holds'[j].acct # q => AuthorizedIn(holds', q) = AuthorizedIn(holds, q)
        /\ CapturedIn(holds', q) = CapturedIn(holds, q)
    <3> HIDE DEF j, h
    <3> QED
      BY <1>1, <1>2, <1>5, HoldsPlaced DEF j
  <2>3. CASE q = a
    <3>1. held'[q] = held[q] + amt
      BY <1>3, <2>3 DEF TotalsInv, BalanceTypes
    <3>2. AuthorizedIn(holds', q) = AuthorizedIn(holds, q) + amt
      BY <1>5, <2>2, <2>3
    <3> QED
      BY <1>1, <1>3, <2>1, <2>2, <2>3, <3>1, <3>2 DEF AccountSound
  <2>4. CASE q # a
    <3>1. held'[q] = held[q]
      BY <1>3, <2>4 DEF TotalsInv, BalanceTypes
    <3>2. AuthorizedIn(holds', q) = AuthorizedIn(holds, q)
      BY <1>5, <2>2, <2>4
    <3> QED
      BY <1>3, <2>1, <2>2, <2>4, <3>1, <3>2 DEF AccountSound
  <2> QED
    BY <2>3, <2>4
<1> QED
  BY <1>4, <1>6 DEF TotalsInv

\* Ending one hold: what it reserved is given back.
LEMMA OneHoldEnded ==
    ASSUME IInv, IInv', NEW j \in 1..Len(holds), holds[j].status = "active",
           Len(holds') = Len(holds), holds'[j].status # "active",
           \A i \in 1..Len(holds) :
              /\ holds'[i].acct = holds[i].acct /\ holds'[i].authorized = holds[i].authorized
              /\ i # j => holds'[i].status = holds[i].status,
           NEW q
    PROVE  /\ holds[j].acct = q => AuthorizedIn(holds, q) = AuthorizedIn(holds', q) + holds[j].authorized
           /\ holds[j].acct # q => AuthorizedIn(holds, q) = AuthorizedIn(holds', q)
           /\ AuthorizedIn(holds', q) \in Nat /\ holds[j].authorized \in Nat
<1>1. holds \in Seq(Hold) /\ holds' \in Seq(Hold) /\ holds[j] \in Hold
  BY DEF IInv, RowsTypeOK
<1>2. PICK E : E = {j}
  OBVIOUS
<1>3. Ended(holds, holds', E)
  BY <1>2 DEF Ended
<1>4. PICK f : f = AuthorizedColumn(holds)
  OBVIOUS
<1>5. PICK given : given = SumFunctionOnSet(f, E \cap ActiveRows(holds, q))
  OBVIOUS
<1>6. /\ AuthorizedIn(holds, q) = AuthorizedIn(holds', q) + given
      /\ AuthorizedIn(holds', q) \in Nat
  BY <1>1, <1>3, <1>4, <1>5, HoldsEnded, SumsAreNumbers
<1>7. PICK n \in Nat : n = holds[j].authorized
  BY <1>1, ColumnTypes
<1>8. CASE holds[j].acct = q
  <2>1. E \cap ActiveRows(holds, q) = {j}
    BY <1>2, <1>8 DEF ActiveRows, OwnRows
  <2>2. PICK x : x = j
    OBVIOUS
  <2>3. f[x] = n /\ n \in Int
    BY <1>4, <1>7, <2>2 DEF AuthorizedColumn
  <2>4. SumFunctionOnSet(f, {x}) = n
    BY ONLY <2>3, SumSingleton
  <2>5. given = n
    BY <1>5, <2>1, <2>2, <2>4
  <2> QED
    BY <1>6, <1>7, <1>8, <2>5
<1>9. CASE holds[j].acct # q
  <2>1. E \cap ActiveRows(holds, q) = {}
    BY <1>2, <1>9 DEF ActiveRows, OwnRows
  <2>2. given = 0
    BY <1>5, <2>1, SumEmpty
  <2> QED
    BY <1>6, <1>7, <1>9, <2>2
<1> QED
  BY <1>8, <1>9

\* A capture gives the whole reservation back and takes no more than it reserved, so the other
\* reservations of the account stay covered and the balance stays positive.
LEMMA CaptureTotals ==
    ASSUME IInv, IInv', TotalsInv, NEW j \in 1..Len(holds), NEW amt \in Amounts, CaptureHold(j, amt)
    PROVE  TotalsInv'
<1>1. PICK a : a = holds[j].acct
  OBVIOUS
<1>2. PICK auth : auth = holds[j].authorized
  OBVIOUS
<1>3. /\ holds \in Seq(Hold) /\ holds' \in Seq(Hold) /\ blocks' \in Seq(Block)
      /\ holds[j] \in Hold
  BY DEF IInv, RowsTypeOK
<1>4. a \in Account /\ auth \in Nat /\ amt \in Nat
  <2>1. a \in Account /\ auth \in Nat
    BY <1>1, <1>2, <1>3 DEF Hold
  <2> QED
    BY <2>1, CreditsAssumption
<1>5. /\ holds[j].status = "active" /\ (balance[a] - held[a]) + auth >= amt
      /\ held' = [held EXCEPT ![a] = @ - auth]
      /\ holds' = [holds EXCEPT ![j] = [holds[j] EXCEPT !.status = "captured", !.captured = amt]]
      /\ WithdrawBalanceAndBlocks(a, amt)
      /\ withdrawn' = withdrawn
  BY <1>1, <1>2 DEF CaptureHold, Available
<1>6. balance' = [balance EXCEPT ![a] = @ - amt]
  BY <1>5 DEF WithdrawBalanceAndBlocks
<1>7. PICK n \in Nat :
         /\ n <= amt
         /\ RemainingIn(blocks, a) = RemainingIn(blocks', a) + n
         /\ \A q \in Account : /\ q # a => RemainingIn(blocks, q) = RemainingIn(blocks', q)
                               /\ OriginalIn(blocks', q) = OriginalIn(blocks, q)
                               /\ NeverExpires(blocks', q) => NeverExpires(blocks, q)
  BY <1>4, <1>5, WithdrawSums
<1>8. /\ Len(holds') = Len(holds)
      /\ \A i \in 1..Len(holds) :
            /\ holds'[i].acct = holds[i].acct /\ holds'[i].authorized = holds[i].authorized
            /\ i # j => holds'[i] = holds[i]
      /\ holds'[j].status = "captured" /\ holds'[j].captured = amt
  <2>1. Len(holds') = Len(holds)
    BY <1>3, <1>5
  <2>2. ASSUME NEW i \in 1..Len(holds), i # j PROVE holds'[i] = holds[i]
    BY <1>3, <1>5, <2>2
  <2>3. /\ holds'[j].acct = holds[j].acct /\ holds'[j].authorized = holds[j].authorized
        /\ holds'[j].status = "captured" /\ holds'[j].captured = amt
    BY <1>3, <1>5 DEF Hold
  <2> QED
    BY <2>1, <2>2, <2>3
<1>9. holds[j].captured = 0
  <2>1. holds[j].captured \in Nat /\ ~(holds[j].captured > 0)
    BY <1>3, <1>5, ColumnTypes DEF IInv, CaptureWithinAuthorization
  <2> QED
    BY <2>1
<1>10. BalanceTypes'
  BY <1>4, <1>5, <1>6 DEF TotalsInv, BalanceTypes
<1>11. ASSUME NEW q \in Account PROVE AccountSound(q)'
  <2>1. /\ balance[q] \in Int /\ held[q] \in Int /\ withdrawn[q] \in Int
        /\ RemainingIn(blocks, q) \in Nat /\ OriginalIn(blocks, q) \in Nat
        /\ AuthorizedIn(holds, q) \in Nat /\ CapturedIn(holds, q) \in Nat
        /\ AccountSound(q)
    BY Numbers
  <2>2. RemainingIn(blocks', q) \in Nat
    BY <1>3, SumsAreNumbers
  <2>3. /\ a = q => AuthorizedIn(holds, q) = AuthorizedIn(holds', q) + auth
        /\ a # q => AuthorizedIn(holds, q) = AuthorizedIn(holds', q)
        /\ AuthorizedIn(holds', q) \in Nat
    BY <1>1, <1>2, <1>5, <1>8, OneHoldEnded
  <2>4. /\ a = q => CapturedIn(holds', q) = CapturedIn(holds, q) + amt
        /\ a # q => CapturedIn(holds', q) = CapturedIn(holds, q)
    <3>1. Captures(holds, holds', j, amt)
      BY <1>8, <1>9 DEF Captures
    <3> QED
      BY <1>1, <1>3, <1>4, <3>1, CapturedOne
  <2>5. CASE q = a
    <3>1. balance'[q] = balance[q] - amt /\ held'[q] = held[q] - auth
      BY <1>5, <1>6, <2>5 DEF TotalsInv, BalanceTypes
    <3>2. AuthorizedIn(holds, q) = AuthorizedIn(holds', q) + auth
          /\ CapturedIn(holds', q) = CapturedIn(holds, q) + amt
      BY <2>3, <2>4, <2>5
    <3>3. /\ RemainingIn(blocks, q) = RemainingIn(blocks', q) + n /\ n <= amt
          /\ OriginalIn(blocks', q) = OriginalIn(blocks, q)
      BY <1>7, <2>5
    <3>4. (balance[q] - held[q]) + auth >= amt /\ withdrawn' = withdrawn
      BY <1>5, <2>5
    <3>5. held'[q] = AuthorizedIn(holds', q) /\ held'[q] <= balance'[q] /\ 0 <= balance'[q]
      BY <1>4, <2>1, <2>3, <3>1, <3>2, <3>4, SMTT(30) DEF AccountSound
    <3>6. balance'[q] <= RemainingIn(blocks', q)
      BY <1>4, <2>1, <2>2, <3>1, <3>3 DEF AccountSound
    <3>7. withdrawn'[q] + balance'[q] + CapturedIn(holds', q) <= OriginalIn(blocks', q)
      BY <1>4, <2>1, <3>1, <3>2, <3>3, <3>4 DEF AccountSound
    <3> QED
      BY <3>5, <3>6, <3>7 DEF AccountSound
  <2>6. CASE q # a
    <3>1. balance'[q] = balance[q] /\ held'[q] = held[q]
      BY <1>5, <1>6, <2>6 DEF TotalsInv, BalanceTypes
    <3> QED
      BY <1>5, <1>7, <2>1, <2>3, <2>4, <2>6, <3>1 DEF AccountSound
  <2> QED
    BY <2>5, <2>6
<1> QED
  BY <1>10, <1>11 DEF TotalsInv

\* A release gives the reservation back and captures nothing.
LEMMA ReleaseTotals ==
    ASSUME IInv, IInv', TotalsInv, NEW j \in 1..Len(holds), ReleaseHold(j)
    PROVE  TotalsInv'
<1>1. PICK a : a = holds[j].acct
  OBVIOUS
<1>2. PICK auth : auth = holds[j].authorized
  OBVIOUS
<1>3. holds \in Seq(Hold) /\ holds' \in Seq(Hold) /\ holds[j] \in Hold
  BY DEF IInv, RowsTypeOK
<1>4. a \in Account /\ auth \in Nat
  BY <1>1, <1>2, <1>3 DEF Hold
<1>5. /\ holds[j].status = "active"
      /\ held' = [held EXCEPT ![a] = @ - auth]
      /\ holds' = [holds EXCEPT ![j] = [holds[j] EXCEPT !.status = "released"]]
      /\ UNCHANGED <<balance, blocks, withdrawn>>
  BY <1>1, <1>2 DEF ReleaseHold
<1>6. /\ Len(holds') = Len(holds)
      /\ \A i \in 1..Len(holds) :
            /\ holds'[i].acct = holds[i].acct /\ holds'[i].authorized = holds[i].authorized
            /\ holds'[i].captured = holds[i].captured
            /\ i # j => holds'[i] = holds[i]
      /\ holds'[j].status = "released"
  BY <1>3, <1>5, SMTT(30) DEF Hold
<1>7. BalanceTypes'
  BY <1>4, <1>5 DEF TotalsInv, BalanceTypes
<1>8. ASSUME NEW q \in Account PROVE AccountSound(q)'
  <2>1. /\ balance[q] \in Int /\ held[q] \in Int /\ withdrawn[q] \in Int
        /\ RemainingIn(blocks, q) \in Nat /\ OriginalIn(blocks, q) \in Nat
        /\ AuthorizedIn(holds, q) \in Nat /\ CapturedIn(holds, q) \in Nat
        /\ AccountSound(q)
    BY Numbers
  <2>2. /\ a = q => AuthorizedIn(holds, q) = AuthorizedIn(holds', q) + auth
        /\ a # q => AuthorizedIn(holds, q) = AuthorizedIn(holds', q)
        /\ AuthorizedIn(holds', q) \in Nat
    BY <1>1, <1>2, <1>5, <1>6, OneHoldEnded
  <2>3. CapturedIn(holds', q) = CapturedIn(holds, q)
    BY <1>6, CapturedSame
  <2>4. CASE q = a
    <3>1. held'[q] = held[q] - auth
      BY <1>5, <2>4 DEF TotalsInv, BalanceTypes
    <3> QED
      BY <1>4, <1>5, <2>1, <2>2, <2>3, <2>4, <3>1 DEF AccountSound
  <2>5. CASE q # a
    <3>1. held'[q] = held[q]
      BY <1>5, <2>5 DEF TotalsInv, BalanceTypes
    <3> QED
      BY <1>5, <2>1, <2>2, <2>3, <2>5, <3>1 DEF AccountSound
  <2> QED
    BY <2>4, <2>5
<1> QED
  BY <1>7, <1>8 DEF TotalsInv

\* A block sweep takes from the balance no more than it takes from the blocks; an account
\* whose blocks never expire is not touched.
LEMMA CreditExpiryTotals ==
    ASSUME IInv, IInv', TotalsInv, NEW t \in 0..now, CreditExpiryBatch(t)
    PROVE  TotalsInv'
<1>1. PICK B \in SUBSET ExpiredBlocks(t) :
         /\ blocks' = [i \in 1..Len(blocks) |->
                         IF i \in B THEN [blocks[i] EXCEPT !.remaining = 0] ELSE blocks[i]]
         /\ balance' = [q \in Account |->
                          AfterExpiry(balance[q], SumFunctionOnSet(remaining, B \cap BlocksOf(q)))]
         /\ UNCHANGED <<held, holds, withdrawn>>
  BY DEF CreditExpiryBatch
<1>2. /\ blocks \in Seq(Block) /\ blocks' \in Seq(Block)
      /\ Len(blocks) \in Nat /\ Len(blocks') \in Nat
      /\ now \in 0..MaxTime /\ MaxTime \in Nat
  BY CreditsAssumption DEF IInv, RowsTypeOK
<1>3. Len(blocks') = Len(blocks)
  <2>1. DOMAIN blocks' = 1..Len(blocks) /\ DOMAIN blocks' = 1..Len(blocks')
    BY <1>1, <1>2
  <2> QED
    BY <1>2, <2>1
<1>4. PICK d : d = remaining
  OBVIOUS
<1>5. ASSUME NEW i \in 1..Len(blocks)
      PROVE  /\ blocks'[i].acct = blocks[i].acct /\ blocks'[i].original = blocks[i].original
             /\ blocks'[i].expires = blocks[i].expires
             /\ i \in B => d[i] \in Nat /\ d[i] \in Int
                           /\ blocks[i].remaining = blocks'[i].remaining + d[i]
             /\ i \notin B => blocks[i].remaining = blocks'[i].remaining
  <2>1. PICK b \in Block : b = blocks[i]
    BY <1>2
  <2>2. PICK n \in Nat : n = b.remaining
    BY ColumnTypes
  <2>3. d[i] = n
    BY <1>4, <2>1, <2>2 DEF remaining
  <2>4. CASE i \in B
    <3>1. PICK c : c = [b EXCEPT !.remaining = 0]
      OBVIOUS
    <3>2. blocks'[i] = c
      BY <1>1, <2>1, <2>4, <3>1
    <3>3. /\ c.acct = b.acct /\ c.original = b.original /\ c.expires = b.expires
          /\ c.remaining = 0
      BY <3>1 DEF Block
    <3> QED
      BY <2>1, <2>2, <2>3, <2>4, <3>2, <3>3
  <2>5. CASE i \notin B
    <3>1. blocks'[i] = blocks[i]
      BY <1>1, <2>5
    <3> QED
      BY <2>5, <3>1
  <2> QED
    BY <2>4, <2>5
<1>6. Drawn(blocks, blocks', B, d)
  BY <1>3, <1>5 DEF Drawn
<1>7. ASSUME NEW q \in Account PROVE balance'[q] \in Int /\ AccountSound(q)'
  <2>1. /\ balance[q] \in Int /\ held[q] \in Int /\ withdrawn[q] \in Int
        /\ RemainingIn(blocks, q) \in Nat /\ OriginalIn(blocks, q) \in Nat
        /\ AuthorizedIn(holds, q) \in Nat /\ CapturedIn(holds, q) \in Nat
        /\ AccountSound(q)
    BY Numbers
  <2>2. PICK n : n = SumFunctionOnSet(d, B \cap OwnRows(blocks, q))
    OBVIOUS
  <2>3. /\ RemainingIn(blocks, q) = RemainingIn(blocks', q) + n /\ n \in Int
        /\ OriginalIn(blocks', q) = OriginalIn(blocks, q)
        /\ RemainingIn(blocks', q) \in Nat
    <3>1. /\ RemainingIn(blocks, q)
               = RemainingIn(blocks', q) + SumFunctionOnSet(d, B \cap OwnRows(blocks, q))
          /\ SumFunctionOnSet(d, B \cap OwnRows(blocks, q)) \in Int
          /\ OriginalIn(blocks', q) = OriginalIn(blocks, q)
      BY <1>2, <1>6, BlocksDrawn
    <3>2. RemainingIn(blocks', q) \in Nat
      BY <1>2, SumsAreNumbers
    <3> QED
      BY <2>2, <3>1, <3>2
  <2>4. balance'[q] = IF balance[q] < n THEN 0 ELSE balance[q] - n
    BY <1>1, <1>4, <2>2, RowsAre DEF AfterExpiry
  <2>5. n \in Nat
    <3>1. IsFiniteSet(OwnRows(blocks, q)) /\ OwnRows(blocks, q) \subseteq 1..Len(blocks)
      BY <1>2, RowsFinite
    <3>2. PICK S : S = B \cap OwnRows(blocks, q)
      OBVIOUS
    <3>3. IsFiniteSet(S) /\ \A i \in S : d[i] \in Nat
      BY <1>5, <3>1, <3>2, FS_Subset
    <3> QED
      BY <2>2, <3>2, <3>3, SumNat
  <2>6. ASSUME NeverExpires(blocks', q) PROVE held[q] <= balance[q] /\ n = 0
    <3>1. NeverExpires(blocks, q)
      BY <1>3, <1>5, <2>6 DEF NeverExpires, OwnRows
    <3>2. B \cap OwnRows(blocks, q) = {}
      BY <1>1, <1>2, <3>1 DEF NeverExpires, ExpiredBlocks, Never
    <3>3. n = 0
      BY <2>2, <3>2, SumEmpty
    <3> QED
      BY <2>1, <3>1, <3>3 DEF AccountSound
  <2>7. balance'[q] \in Int /\ 0 <= balance'[q] /\ balance'[q] <= balance[q]
        /\ balance'[q] <= RemainingIn(blocks', q)
    BY <2>1, <2>3, <2>4, <2>5 DEF AccountSound
  <2>8. NeverExpires(blocks', q) => held'[q] <= balance'[q]
    BY <1>1, <2>1, <2>4, <2>6 DEF AccountSound
  <2>9. withdrawn'[q] + balance'[q] + CapturedIn(holds', q) <= OriginalIn(blocks', q)
    BY <1>1, <2>1, <2>3, <2>7 DEF AccountSound
  <2>10. held'[q] = AuthorizedIn(holds', q)
    BY <1>1, <2>1 DEF AccountSound
  <2>11. AccountSound(q)'
    BY <2>7, <2>8, <2>9, <2>10 DEF AccountSound
  <2> QED
    BY <2>7, <2>11
<1>8. BalanceTypes'
  <2>1. balance' \in [Account -> Int]
    <3>1. \A q \in Account : balance'[q] \in Int
      BY <1>7
    <3>2. balance' = [q \in Account |-> balance'[q]]
      BY <1>1
    <3> QED
      BY <3>1, <3>2
  <2> QED
    BY <1>1, <2>1 DEF TotalsInv, BalanceTypes
<1> QED
  BY <1>7, <1>8 DEF TotalsInv

\* A hold sweep gives back exactly what the holds it ends had reserved: its clamp never bites.
LEMMA HoldExpiryTotals ==
    ASSUME IInv, IInv', TotalsInv, NEW t \in 0..now, HoldExpiryBatch(t)
    PROVE  TotalsInv'
<1>1. PICK B \in SUBSET ExpiredHolds(t) :
         /\ holds' = [i \in 1..Len(holds) |->
                        IF i \in B THEN [holds[i] EXCEPT !.status = "expired"] ELSE holds[i]]
         /\ held' = [q \in Account |->
                       AfterExpiry(held[q], SumFunctionOnSet(authorized, B \cap ActiveHoldsOf(q)))]
         /\ UNCHANGED <<balance, blocks, withdrawn>>
  BY DEF HoldExpiryBatch
<1>2. /\ holds \in Seq(Hold) /\ holds' \in Seq(Hold)
      /\ Len(holds) \in Nat /\ Len(holds') \in Nat
  BY DEF IInv, RowsTypeOK
<1>3. Len(holds') = Len(holds)
  <2>1. DOMAIN holds' = 1..Len(holds) /\ DOMAIN holds' = 1..Len(holds')
    BY <1>1, <1>2
  <2> QED
    BY <1>2, <2>1
<1>4. ASSUME NEW i \in 1..Len(holds)
      PROVE  /\ holds'[i].acct = holds[i].acct /\ holds'[i].authorized = holds[i].authorized
             /\ holds'[i].captured = holds[i].captured
             /\ i \in B => holds[i].status = "active" /\ holds'[i].status # "active"
             /\ i \notin B => holds'[i].status = holds[i].status
  <2>1. PICK h \in Hold : h = holds[i]
    BY <1>2
  <2>2. CASE i \in B
    <3>1. PICK k : k = [h EXCEPT !.status = "expired"]
      OBVIOUS
    <3>2. holds'[i] = k /\ h.status = "active"
      BY <1>1, <2>1, <2>2, <3>1 DEF ExpiredHolds
    <3>3. /\ k.acct = h.acct /\ k.authorized = h.authorized /\ k.captured = h.captured
          /\ k.status = "expired"
      BY <3>1 DEF Hold
    <3> QED
      BY <2>1, <2>2, <3>2, <3>3
  <2>3. CASE i \notin B
    <3>1. holds'[i] = holds[i]
      BY <1>1, <2>3
    <3> QED
      BY <2>3, <3>1
  <2> QED
    BY <2>2, <2>3
<1>5. Ended(holds, holds', B)
  BY <1>3, <1>4 DEF Ended
<1>6. ASSUME NEW q \in Account PROVE held'[q] \in Int /\ AccountSound(q)'
  <2>1. /\ balance[q] \in Int /\ held[q] \in Int /\ withdrawn[q] \in Int
        /\ RemainingIn(blocks, q) \in Nat /\ OriginalIn(blocks, q) \in Nat
        /\ AuthorizedIn(holds, q) \in Nat /\ CapturedIn(holds, q) \in Nat
        /\ AccountSound(q)
    BY Numbers
  <2>2. PICK n : n = SumFunctionOnSet(AuthorizedColumn(holds), B \cap ActiveRows(holds, q))
    OBVIOUS
  <2>3. /\ AuthorizedIn(holds, q) = AuthorizedIn(holds', q) + n /\ n \in Nat
        /\ AuthorizedIn(holds', q) \in Nat
    BY <1>2, <1>5, <2>2, HoldsEnded, SumsAreNumbers
  <2>4. held'[q] = IF held[q] < n THEN 0 ELSE held[q] - n
    <3>1. authorized = AuthorizedColumn(holds)
      BY DEF authorized, AuthorizedColumn
    <3> QED
      BY <1>1, <2>2, <3>1, RowsAre DEF AfterExpiry
  <2>5. CapturedIn(holds', q) = CapturedIn(holds, q)
    BY <1>3, <1>4, CapturedSame
  <2>6. held'[q] = AuthorizedIn(holds', q) /\ held'[q] <= held[q]
    BY <2>1, <2>3, <2>4 DEF AccountSound
  <2> QED
    BY <1>1, <2>1, <2>3, <2>5, <2>6 DEF AccountSound
<1>7. BalanceTypes'
  <2>1. held' \in [Account -> Int]
    <3>1. \A q \in Account : held'[q] \in Int
      BY <1>6
    <3>2. held' = [q \in Account |-> held'[q]]
      BY <1>1
    <3> QED
      BY <3>1, <3>2
  <2> QED
    BY <1>1, <2>1 DEF TotalsInv, BalanceTypes
<1> QED
  BY <1>6, <1>7 DEF TotalsInv

\* Every step keeps the totals.
LEMMA NextTotals == IInv /\ IInv' /\ TotalsInv /\ [Next]_vars => TotalsInv'
<1> SUFFICES ASSUME IInv, IInv', TotalsInv, [Next]_vars PROVE TotalsInv'
  OBVIOUS
<1>1. CASE UNCHANGED <<balance, held, blocks, holds, withdrawn>>
  BY <1>1 DEF TotalsInv, BalanceTypes, AccountSound
<1>2. CASE Tick \/ (\E ct \in CreditTypes, on \in BOOLEAN : SetActive(ct, on)) \/ UNCHANGED vars
  BY <1>1, <1>2 DEF Tick, SetActive, vars
<1> QED
  BY <1>2, DepositSums, GrantSums, WithdrawTotals, PlaceHoldTotals, CaptureTotals,
     ReleaseTotals, CreditExpiryTotals, HoldExpiryTotals
  DEF Next, CreditExpiryWorker, HoldExpiryWorker

\* The totals hold in every reachable state.
LEMMA TotalsHold == Spec => [](IInv /\ TotalsInv)
  BY InitIInv, InitTotals, NextIInv, NextTotals, PTL DEF Spec

\* Every row and every balance has the shape its Go model declares.
THEOREM TypeCorrect == Spec => []TypeOK
<1>1. IInv /\ TotalsInv => TypeOK
  BY DEF IInv, TotalsInv, BalanceTypes, TypeOK
<1> QED
  BY <1>1, TotalsHold, PTL

\* held_balance is the sum of what the active holds authorize, for any number of accounts,
\* holds and sweeps: a reservation is given back once and only once.
THEOREM HeldAddsUp == Spec => []HeldIsActiveHolds
<1>1. IInv /\ TotalsInv => HeldIsActiveHolds
  BY RowsAre
  DEF TotalsInv, AccountSound, HeldIsActiveHolds, AuthorizedIn, AuthorizedColumn, authorized
<1> QED
  BY <1>1, TotalsHold, PTL

\* No balance is negative or larger than what is left in the account's credit blocks.
THEOREM BalancesBacked == Spec => []BalanceBacked
<1>1. IInv /\ TotalsInv => BalanceBacked
  BY RowsAre
  DEF TotalsInv, AccountSound, BalanceBacked, Remaining, RemainingIn, remaining
<1> QED
  BY <1>1, TotalsHold, PTL

\* What an account withdrew, captured and still has was deposited into it.
THEOREM CreditsConserved == Spec => []NoCreditCreated
<1>1. IInv /\ TotalsInv => NoCreditCreated
  BY RowsAre
  DEF TotalsInv, AccountSound, NoCreditCreated, CapturedIn, OriginalIn, captured, original
<1> QED
  BY <1>1, TotalsHold, PTL

\* While none of an account's blocks expires, its reservations are covered by its balance.
THEOREM ReservationsCovered == Spec => []HoldsCovered
<1>1. IInv /\ TotalsInv => HoldsCovered
  BY RowsAre DEF TotalsInv, AccountSound, HoldsCovered, NeverExpires
<1> QED
  BY <1>1, TotalsHold, PTL

=============================================================================
