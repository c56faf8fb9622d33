----------------------------- MODULE MCCredits -----------------------------
(***************************************************************************)
(* Instances of Credits for TLC.  A credits_spec is a set of grants        *)
(* [ct, amount, cadence, days], days = 0 meaning no expires_days.          *)
(***************************************************************************)
EXTENDS Credits

CONSTANTS u1, api, s1, s2

\* A product that grants lasting credits when a membership starts, and one
\* that grants expiring credits on every renewal.
TwoSubs == {s1, s2}
OwnedByU1 == [s \in TwoSubs |-> u1]
GrantSpecs ==
    [s \in TwoSubs |->
       IF s = s1
       THEN {[ct |-> api, amount |-> 2, cadence |-> "once", days |-> 0]}
       ELSE {[ct |-> api, amount |-> 1, cadence |-> "per_renewal", days |-> 1]}]
============================================================================
