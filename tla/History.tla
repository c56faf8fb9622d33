------------------------------ MODULE History ------------------------------
(***************************************************************************)
(* What billing.entitlements promises whoever reads it, without saying who *)
(* writes it or why: the windows of a timeline are a history.  A row, once *)
(* there, keeps its interval and its source ("end_at is immutable"); all   *)
(* that may happen to it is that it ends, and then for good; and what is   *)
(* added comes behind everything that is live by then.  A step may concern *)
(* any number of timelines and rows.                                       *)
(*                                                                         *)
(* Entitlements and Lifecycle implement it.                                *)
(***************************************************************************)
EXTENDS Timeline

CONSTANT Timelines
VARIABLE history

Init == history = [k \in Timelines |-> <<>>]

\* The live ones among the rows behind the first n begin behind all live rows before them.
AddedBehind(ws, n) ==
    \A j \in LiveWindows(ws) : j > n =>
       \A i \in LiveWindows(ws) : i < j => ws[i].end <= ws[j].start

Next == \A k \in Timelines : /\ OnlyEnds(history[k], history'[k])
                             /\ AddedBehind(history'[k], Len(history[k]))

Spec == Init /\ [][Next]_history
============================================================================
