---------------------------- MODULE MCLifecycle ----------------------------
(***************************************************************************)
(* Instances of Lifecycle for TLC: an NMI and a CCBill subscription.       *)
(***************************************************************************)
EXTENDS Audit, FiniteSets, TLC

CONSTANTS nmi, ccb, premium, vip, gold, silver

\* Transactions and transaction ids are interchangeable.
TxSymmetry == Permutations(Workers) \cup Permutations(Txns)
TxnSymmetry == Permutations(Txns)
LifecycleSources == {Paid(s) : s \in Subs} \cup {Grace(s) : s \in Subs}
Spec1 == [p \in Products |-> {premium}]
Rank1 == [p \in Products |-> 1]
Owns1 == [s \in Subs |-> gold]

\* Two tiers, the higher one with an entitlement of its own.
Spec2 == [p \in Products |-> IF p = gold THEN {premium, vip} ELSE {premium}]
Rank2 == [p \in Products |-> IF p = gold THEN 2 ELSE 1]
Owns2 == [s \in Subs |-> IF s = nmi THEN gold ELSE silver]

\* Bound: the user buys through one of the two processors.
OneProcessor == Cardinality({s \in Subs : sub[s].status # "none"}) <= 1
============================================================================
