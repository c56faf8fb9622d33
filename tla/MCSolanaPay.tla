---------------------------- MODULE MCSolanaPay ----------------------------
(* Instances of SolanaPay for TLC.                                         *)
EXTENDS SolanaPay, TLC

CONSTANTS usdc

\* Every session is quoted in SOL, or in another token.
AllSOL == [s \in Sessions |-> SOL]
AllUSDC == [s \in Sessions |-> usdc]

Symmetry == Permutations(Sessions) \cup Permutations(Refs) \cup Permutations(Sigs)
            \cup Permutations(Workers)

\* Bound: the price is quoted for each of two sessions, or twice for one.
TwoOffers == Cardinality(offers) <= 2
=============================================================================
