---------------------------- MODULE Entitlements ----------------------------
(***************************************************************************)
(* The entitlement service on its own: PushNewEntitlement and              *)
(* RevokeExistingEntitlement of internal/modules/entitlements, the only    *)
(* two writers of billing.entitlements in the service, called by anyone in *)
(* any order.                                                              *)
(*                                                                         *)
(* Both run in one transaction under an advisory lock on the timeline, so  *)
(* each is one step.  The caller's clock reading is taken before the lock  *)
(* is awaited and may be stale: it is the parameter t \in 0..now.          *)
(*                                                                         *)
(* The no-overlap constraint of the table (EXCLUDE entitlements_no_overlap)*)
(* is not part of the model: NoOverlap shows it never has to reject a row. *)
(* The unique index uniq_entitlements_active is: it can.                   *)
(***************************************************************************)
EXTENDS Timeline

CONSTANTS Timelines,     \* (user_id, entitlement) pairs
          Durations,     \* window lengths callers ask for
          MaxTime,       \* bound: the clock runs over 0..MaxTime
          MaxWindows     \* bound on the rows of a timeline

ASSUME EntitlementsAssumption ==
    /\ Durations \subseteq Nat \ {0}
    /\ MaxTime \in 0..Horizon
    /\ MaxWindows \in Nat

VARIABLES now,      \* the clock
          windows   \* rows of billing.entitlements, by timeline

vars == <<now, windows>>

Init == now = 0 /\ windows = [k \in Timelines |-> <<>>]

Tick == now < MaxTime /\ now' = now + 1 /\ UNCHANGED windows

Push(k, src, start, end) ==
    /\ Len(windows[k]) < MaxWindows
    /\ windows' = [windows EXCEPT ![k] = Pushed(@, src, start, end)]
    /\ UNCHANGED now

PushIndefinite(k, src, t, nb) ==
    /\ ~IndefiniteIndexed(windows[k])
    /\ Push(k, src, TailStart(windows[k], t, nb), Never)

PushDuration(k, src, t, nb, d) ==
    LET start == TailStart(windows[k], t, nb) IN
    /\ start + d <= Horizon
    /\ Push(k, src, start, start + d)

PushUntil(k, src, t, nb, end) == Push(k, src, TailStart(windows[k], t, nb), end)

Revoke(k, t, srcs) ==
    /\ windows' = [windows EXCEPT ![k] = Revoked(@, t, srcs)]
    /\ UNCHANGED now

\* A revocation addresses all sources, one source type, or one source.
SourceFilters ==
    {Sources} \cup {{s} : s \in Sources}
      \cup {{r \in Sources : r[1] = s[1]} : s \in Sources}

Next ==
    \/ Tick
    \/ \E k \in Timelines, src \in Sources, t \in 0..now, nb \in 0..MaxTime :
          \/ PushIndefinite(k, src, t, nb)
          \/ \E d \in Durations : PushDuration(k, src, t, nb, d)
          \/ \E end \in 0..Horizon : PushUntil(k, src, t, nb, end)
    \/ \E k \in Timelines, t \in 0..now, srcs \in SourceFilters : Revoke(k, t, srcs)

Spec == Init /\ [][Next]_vars

----------------------------------------------------------------------------
(* Properties.                                                             *)

\* Rows have the shape of models.Entitlement.
TypeOK == now \in 0..MaxTime /\ windows \in [Timelines -> Seq(Window)]

\* Every window grants some time (chk_valid_time_window never rejects a push).
WindowsNonEmpty == \A k \in Timelines : WindowsNonEmptyIn(windows[k])

\* Two live windows of a timeline never overlap, whatever the sources, the
\* order of pushes and revocations and the staleness of their clocks: the
\* exclusion constraint of the table never rejects an append.
NoOverlap == \A k \in Timelines : DisjointIn(windows[k])

\* Appending happens at the tail: among the live windows of a timeline a
\* later row starts no earlier than an older one ends.  So a live indefinite
\* window is the last one.
AppendedAtTail == \A k \in Timelines : OrderedIn(windows[k])

H == INSTANCE History WITH history <- windows

\* The service implements History: whatever the callers, their order and the
\* staleness of their clocks, no window is moved, extended, shortened or
\* revived, and none is put before or between live ones.
KeepsHistory == H!Spec

============================================================================
