---------------------------- MODULE MCCheckout ----------------------------
(***************************************************************************)
(* An instance of Checkout for TLC: two attempts to pay in the same way    *)
(* (others share nothing but a client key), of which a1 comes first.       *)
(***************************************************************************)
EXTENDS Checkout

CONSTANTS a1, a2

PaysOf(a) ==
    CASE att[a].price \in Hosted -> "page" [] att[a].price \in Forms -> "form" [] OTHER -> "card"

AlikeInOrder == att[a2] # None => att[a1] # None /\ PaysOf(a1) = PaysOf(a2)

\* Card payments come without a client key: they run one at a time until a
\* record expires, and side by side then, as under different keys.  No notice
\* completes their sessions, and nobody reads these.
CardsBare ==
    \A a \in Attempts : att[a] # None /\ PaysOf(a) = "card" => att[a].key = None /\ copies[a] = {}
=============================================================================
