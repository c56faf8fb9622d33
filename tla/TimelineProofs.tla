--------------------------- MODULE TimelineProofs ---------------------------
(***************************************************************************)
(* What pushing and revoking preserve on one timeline, for every timeline. *)
(*                                                                         *)
(* Disjointness alone is not preserved by a push: an append is safe        *)
(* because it starts behind every live window, and there is such a start   *)
(* only because a bounded set of numbers has a maximum.  OrderedIn is the  *)
(* strengthening.                                                          *)
(***************************************************************************)
EXTENDS Timeline, SumProofs

\* A nonempty set of naturals below N has a greatest element, so Max is one.
LEMMA MaxExists ==
    ASSUME NEW N \in Nat, NEW S \in SUBSET (0..N), S # {}
    PROVE  Max(S) \in S /\ \A y \in S : y <= Max(S)
<1> DEFINE T == {N - x : x \in S}
<1>1. T \in SUBSET Nat /\ T # {}
  <2>1. ASSUME NEW x \in S PROVE N - x \in Nat
    OBVIOUS
  <2>2. PICK x \in S : TRUE
    OBVIOUS
  <2>3. N - x \in T
    OBVIOUS
  <2> QED
    BY <2>1, <2>3
<1>2. PICK m \in T : \A n \in T : m <= n
  <2> HIDE DEF T
  <2> QED
    BY <1>1, MinExists
<1>3. PICK x \in S : m = N - x
  OBVIOUS
<1>4. ASSUME NEW y \in S PROVE x >= y
  <2>1. N - y \in T
    OBVIOUS
  <2>2. m <= N - y
    BY <2>1, <1>2
  <2> QED
    BY <2>2, <1>3
<1>5. Max(S) \in S /\ \A y \in S : Max(S) >= y
  BY <1>4 DEF Max
<1> QED
  BY <1>5

\* A push starts at or after the clock, NotBefore and the end of every live
\* window; where no window is indefinite, that is a finite instant.
LEMMA TailStartBehind ==
    ASSUME NEW ws \in Seq(Window), NEW t \in 0..Horizon, NEW nb \in 0..Horizon
    PROVE  /\ TailStart(ws, t, nb) \in 0..Never
           /\ t <= TailStart(ws, t, nb) /\ nb <= TailStart(ws, t, nb)
           /\ \A i \in LiveWindows(ws) : ws[i].end <= TailStart(ws, t, nb)
           /\ ~HasIndefinite(ws) => TailStart(ws, t, nb) \in 0..Horizon
<1> DEFINE S == {t, nb} \cup {ws[i].end : i \in LiveWindows(ws)}
<1> USE TimelineAssumption
<1>1. \A i \in LiveWindows(ws) : ws[i].end \in 0..Never
  <2> SUFFICES ASSUME NEW i \in LiveWindows(ws) PROVE ws[i].end \in 0..Never
    OBVIOUS
  <2>1. ws[i] \in Window
    BY DEF LiveWindows
  <2> QED
    BY <2>1 DEF Window
<1>2. S \in SUBSET (0..Never) /\ S # {} /\ Never \in Nat
  <2>1. Never \in Nat /\ t \in 0..Never /\ nb \in 0..Never
    BY DEF Never
  <2> QED
    BY <1>1, <2>1
<1>3. Max(S) \in S /\ \A y \in S : y <= Max(S)
  <2> HIDE DEF S
  <2> QED
    BY <1>2, MaxExists
<1>4. TailStart(ws, t, nb) = Max(S)
  BY DEF TailStart
<1>5. ASSUME ~HasIndefinite(ws) PROVE Max(S) \in 0..Horizon
  <2>1. \A i \in LiveWindows(ws) : ws[i].end \in 0..Horizon
    BY <1>1, <1>5 DEF HasIndefinite, Never
  <2>2. S \subseteq 0..Horizon
    BY <2>1
  <2> QED
    BY <1>3, <2>2
<1> QED
  BY <1>2, <1>3, <1>4, <1>5

TimelineOK(ws) == ws \in Seq(Window) /\ WindowsNonEmptyIn(ws) /\ OrderedIn(ws)

\* Ordered live windows are disjoint.
LEMMA OrderedIsDisjoint ==
    ASSUME NEW ws \in Seq(Window), OrderedIn(ws)
    PROVE  DisjointIn(ws)
<1> SUFFICES ASSUME NEW i \in LiveWindows(ws), NEW j \in LiveWindows(ws), i # j
             PROVE  ws[i].end <= ws[j].start \/ ws[j].end <= ws[i].start
  BY DEF DisjointIn
<1>1. i \in Nat /\ j \in Nat
  BY DEF LiveWindows
<1>2. i < j \/ j < i
  BY <1>1
<1> QED
  BY <1>2 DEF OrderedIn

\* A push at the tail keeps a timeline ordered, and only appends.
LEMMA PushKeeps ==
    ASSUME NEW ws, TimelineOK(ws), NEW src \in Sources,
           NEW t \in 0..Horizon, NEW nb \in 0..Horizon, NEW end \in 0..Never
    PROVE  /\ TimelineOK(Pushed(ws, src, TailStart(ws, t, nb), end))
           /\ OnlyEnds(ws, Pushed(ws, src, TailStart(ws, t, nb), end))
<1> DEFINE start == TailStart(ws, t, nb)
           w == [start |-> start, end |-> end, src |-> src, state |-> "live"]
           n == Len(ws)
           ws2 == Append(ws, w)
<1>1. ws \in Seq(Window) /\ n \in Nat
  BY DEF TimelineOK
<1>2. CASE HasIndefinite(ws) \/ end <= start
  BY <1>1, <1>2 DEF Pushed, OnlyEnds
<1>3. CASE ~(HasIndefinite(ws) \/ end <= start)
  <2>1. /\ start \in 0..Horizon
        /\ \A i \in LiveWindows(ws) : ws[i].end <= start
    BY <1>1, <1>3, TailStartBehind
  <2> HIDE DEF start
  <2>2. w \in Window /\ start < end
    BY <2>1, <1>3, TimelineAssumption DEF Window, Never
  <2>3. /\ ws2 \in Seq(Window) /\ Len(ws2) = n + 1
        /\ \A i \in 1..n : ws2[i] = ws[i]
        /\ ws2[n + 1] = w
    BY <1>1, <2>2
  <2> HIDE DEF ws2, w
  <2>4. WindowsNonEmptyIn(ws2)
    <3> SUFFICES ASSUME NEW i \in 1..n + 1 PROVE ws2[i].start < ws2[i].end
      BY <2>3 DEF WindowsNonEmptyIn
    <3>1. CASE i \in 1..n
      BY <3>1, <2>3 DEF TimelineOK, WindowsNonEmptyIn
    <3>2. CASE i = n + 1
      BY <3>2, <2>3, <2>2 DEF w
    <3> QED
      BY <1>1, <3>1, <3>2
  <2>5. OrderedIn(ws2)
    <3> SUFFICES ASSUME NEW i \in 1..n + 1, NEW j \in 1..n + 1, i < j,
                        ws2[i].state = "live", ws2[j].state = "live"
                 PROVE  ws2[i].end <= ws2[j].start
      BY <2>3 DEF OrderedIn, LiveWindows
    <3>1. i \in 1..n /\ i \in LiveWindows(ws)
      BY <1>1, <2>3 DEF LiveWindows
    <3>2. CASE j \in 1..n
      BY <3>1, <3>2, <2>3 DEF TimelineOK, OrderedIn, LiveWindows
    <3>3. CASE j = n + 1
      BY <3>1, <3>3, <2>1, <2>3 DEF w
    <3> QED
      BY <1>1, <3>2, <3>3
  <2>6. OnlyEnds(ws, ws2)
    BY <1>1, <2>3 DEF OnlyEnds
  <2>7. Pushed(ws, src, start, end) = ws2
    BY <1>3 DEF Pushed, ws2, w
  <2> QED
    BY <2>3, <2>4, <2>5, <2>6, <2>7 DEF TimelineOK, start
<1> QED
  BY <1>2, <1>3

\* A revocation keeps a timeline ordered, and only ends windows.
LEMMA RevokeKeeps ==
    ASSUME NEW ws, TimelineOK(ws), NEW t, NEW srcs
    PROVE  TimelineOK(Revoked(ws, t, srcs)) /\ OnlyEnds(ws, Revoked(ws, t, srcs))
<1> DEFINE ws2 == Revoked(ws, t, srcs)
           n == Len(ws)
<1>1. ws \in Seq(Window) /\ n \in Nat
  BY DEF TimelineOK
<1>2. ASSUME NEW i \in 1..n
      PROVE  /\ ws2[i] \in Window
             /\ ws2[i].start = ws[i].start /\ ws2[i].end = ws[i].end
             /\ ws2[i].src = ws[i].src
             /\ ws[i].state # "live" => ws2[i] = ws[i]
  <2>1. ws[i] \in Window
    BY <1>1
  <2>2. \/ ws2[i] = ws[i]
        \/ /\ ws[i].state = "live"
           /\ \/ ws2[i] = [ws[i] EXCEPT !.state = "revoked"]
              \/ ws2[i] = [ws[i] EXCEPT !.state = "deleted"]
    BY DEF Revoked, LiveWindows
  <2> QED
    BY <2>1, <2>2 DEF Window
<1>3. ws2 = [i \in 1..n |-> ws2[i]]
  BY DEF Revoked
<1> HIDE DEF ws2
<1>4. ws2 \in [1..n -> Window]
  BY <1>2, <1>3
<1>5. ws2 \in Seq(Window) /\ Len(ws2) = n
  BY <1>1, <1>4
<1>6. WindowsNonEmptyIn(ws2)
  BY <1>2, <1>5 DEF TimelineOK, WindowsNonEmptyIn
<1>7. OrderedIn(ws2)
  BY <1>2, <1>5 DEF TimelineOK, OrderedIn, LiveWindows
<1>8. OnlyEnds(ws, ws2)
  BY <1>1, <1>2, <1>5 DEF OnlyEnds
<1> QED
  BY <1>5, <1>6, <1>7, <1>8 DEF TimelineOK, ws2

============================================================================
