------------------------------ MODULE Timeline ------------------------------
(***************************************************************************)
(* One entitlement timeline: the rows of billing.entitlements for one      *)
(* (user_id, entitlement), in order of insertion, and what                 *)
(* PushNewEntitlement and RevokeExistingEntitlement make of them.          *)
(***************************************************************************)
EXTENDS Integers, Sequences, FiniteSetsExt

CONSTANTS Sources,   \* (source_type, source_id) pairs
          Horizon    \* bound: no finite window ends later

ASSUME TimelineAssumption == Horizon \in Nat

\* end_at IS NULL, an infinite end.
Never == Horizon + 1

\* A row is live, revoked (revoked_at set) or deleted (deleted_at set).
Window == [start: 0..Horizon, end: 0..Never, src: Sources,
           state: {"live", "revoked", "deleted"}]

LiveWindows(ws) == {i \in 1..Len(ws) : ws[i].state = "live"}

\* Is there a row, past or not, that is neither revoked nor deleted?
ExistsBySource(ws, src) == \E i \in LiveWindows(ws) : ws[i].src = src

HasIndefinite(ws) == \E i \in LiveWindows(ws) : ws[i].end = Never

\* uniq_entitlements_active: one row with revoked_at and end_at NULL.  The
\* index does not look at deleted_at.
IndefiniteIndexed(ws) ==
    \E i \in 1..Len(ws) : ws[i].end = Never /\ ws[i].state # "revoked"

----------------------------------------------------------------------------
\* The plausible mistakes the runs are shown to notice.
TailStartOfActive(ws, t, nb) ==
    Max({t, nb} \cup {ws[i].end : i \in {j \in LiveWindows(ws) : ws[j].start <= t}})
RevokedByTruncation(ws, t, srcs) ==
    [i \in 1..Len(ws) |->
       IF i \in LiveWindows(ws) /\ ws[i].src \in srcs /\ ws[i].end > t
       THEN [ws[i] EXCEPT !.end = t, !.state = "revoked"] ELSE ws[i]]
RevokedActiveOnly(ws, t, srcs) ==
    [i \in 1..Len(ws) |->
       IF i \in LiveWindows(ws) /\ ws[i].src \in srcs /\ ws[i].start <= t /\ ws[i].end > t
       THEN [ws[i] EXCEPT !.state = "revoked"] ELSE ws[i]]

----------------------------------------------------------------------------
\* Where a push begins: the latest of the clock, NotBefore and the tail.
TailStart(ws, t, nb) == Max({t, nb} \cup {ws[i].end : i \in LiveWindows(ws)})

\* Appending a window.  Behind an indefinite window, or with an end that the
\* tail already reaches, a push is a no-op.
Pushed(ws, src, start, end) ==
    IF HasIndefinite(ws) \/ end <= start THEN ws
    ELSE Append(ws, [start |-> start, end |-> end, src |-> src, state |-> "live"])

\* Active windows of the given sources are revoked at t, future ones are
\* soft-deleted, past ones stay.
Revoked(ws, t, srcs) ==
    [i \in 1..Len(ws) |->
       IF i \notin LiveWindows(ws) \/ ws[i].src \notin srcs \/ ws[i].end <= t
       THEN ws[i]
       ELSE [ws[i] EXCEPT !.state = IF ws[i].start <= t THEN "revoked" ELSE "deleted"]]

----------------------------------------------------------------------------
(* What every timeline satisfies.                                          *)

WindowsNonEmptyIn(ws) == \A i \in 1..Len(ws) : ws[i].start < ws[i].end

OrderedIn(ws) == \A i, j \in LiveWindows(ws) : i < j => ws[i].end <= ws[j].start

DisjointIn(ws) ==
    \A i, j \in LiveWindows(ws) :
       i # j => ws[i].end <= ws[j].start \/ ws[j].end <= ws[i].start

\* What a step may do to a timeline: append rows, and end live ones.
OnlyEnds(ws, ws2) ==
    /\ Len(ws) <= Len(ws2)
    /\ \A i \in 1..Len(ws) :
          /\ ws2[i].start = ws[i].start /\ ws2[i].end = ws[i].end
          /\ ws2[i].src = ws[i].src
          /\ ws[i].state # "live" => ws2[i] = ws[i]

============================================================================
