-------------------------- MODULE LifecycleProofs --------------------------
(***************************************************************************)
(* Proofs about Lifecycle and the audit over its state, for every value of *)
(* the constants.  Every transaction that commits replaces one row and     *)
(* makes the timelines evolve: Effect says how, an Effect lemma per        *)
(* operation derives it, and the invariants follow from Effect alone.      *)
(***************************************************************************)
EXTENDS Audit, TimelineProofs

-----------------------------------------------------------------------------
(* Timelines.                                                              *)

\* All paid windows of s are over at t.
Over(ws, s, t) == \A i \in LiveWindows(ws) : ws[i].src = Paid(s) => ws[i].end <= t

\* A timeline that is kept in order, and gets windows of the given sources only.
Adds(ws, ws2, srcs) == \A i \in 1..Len(ws2) : i > Len(ws) => ws2[i].src \in srcs
Evolves(ws, ws2, srcs) == TimelineOK(ws2) /\ OnlyEnds(ws, ws2) /\ Adds(ws, ws2, srcs)

\* Windows are told apart by their sources.
LEMMA SourcesDiffer ==
  ASSUME NEW s, NEW q
  PROVE  Paid(s) # Grace(q) /\ (Paid(s) = Paid(q) => s = q)
  BY DEF Paid, Grace

\* Doing nothing.
LEMMA Stays ==
  ASSUME NEW ws, TimelineOK(ws), NEW srcs
  PROVE  Evolves(ws, ws, srcs)
<1>1. ws \in Seq(Window) /\ Len(ws) \in Nat
  BY DEF TimelineOK
<1> QED
  BY <1>1 DEF Evolves, OnlyEnds, Adds

\* One thing after the other.
LEMMA EvolvesOn ==
  ASSUME NEW a, NEW b, NEW c, NEW S, NEW T, NEW U, TimelineOK(a),
         Evolves(a, b, S), Evolves(b, c, T), S \cup T \subseteq U
  PROVE  Evolves(a, c, U)
<1>1. /\ a \in Seq(Window) /\ b \in Seq(Window) /\ c \in Seq(Window)
      /\ Len(a) \in Nat /\ Len(b) \in Nat /\ Len(c) \in Nat
      /\ Len(a) <= Len(b) /\ Len(b) <= Len(c)
  BY DEF Evolves, TimelineOK, OnlyEnds
<1>2. ASSUME NEW i \in 1..Len(b)
      PROVE  /\ c[i].start = b[i].start /\ c[i].end = b[i].end /\ c[i].src = b[i].src
             /\ b[i].state # "live" => c[i] = b[i]
  BY DEF Evolves, OnlyEnds
<1>3. ASSUME NEW i \in 1..Len(a)
      PROVE  /\ b[i].start = a[i].start /\ b[i].end = a[i].end /\ b[i].src = a[i].src
             /\ a[i].state # "live" => b[i] = a[i]
  BY DEF Evolves, OnlyEnds
<1>4. OnlyEnds(a, c)
  <2> SUFFICES ASSUME NEW i \in 1..Len(a)
               PROVE  /\ c[i].start = a[i].start /\ c[i].end = a[i].end /\ c[i].src = a[i].src
                      /\ a[i].state # "live" => c[i] = a[i]
    BY <1>1 DEF OnlyEnds
  <2>1. i \in 1..Len(b)
    BY <1>1
  <2> QED
    BY <1>2, <1>3, <2>1
<1>5. Adds(a, c, U)
  <2> SUFFICES ASSUME NEW i \in 1..Len(c), i > Len(a) PROVE c[i].src \in U
    BY DEF Adds
  <2>1. CASE i \in 1..Len(b)
    BY <2>1, <1>2 DEF Evolves, Adds
  <2>2. CASE i > Len(b)
    BY <2>2 DEF Evolves, Adds
  <2> QED
    BY <1>1, <2>1, <2>2
<1> QED
  BY <1>4, <1>5 DEF Evolves

\* A push.
LEMMA PushEvolves ==
  ASSUME NEW ws, TimelineOK(ws), NEW src \in Sources, now \in 1..MaxTime,
         NEW nb \in 0..Horizon, NEW end \in 0..Never
  PROVE  Evolves(ws, PushedUntil(ws, src, nb, end), {src})
<1>1. now \in 0..Horizon
  BY LifecycleAssumption, TimelineAssumption
<1>2. /\ TimelineOK(PushedUntil(ws, src, nb, end))
      /\ OnlyEnds(ws, PushedUntil(ws, src, nb, end))
  BY <1>1, PushKeeps DEF PushedUntil
<1>3. Adds(ws, PushedUntil(ws, src, nb, end), {src})
  <2>1. ws \in Seq(Window) /\ Len(ws) \in Nat
    BY DEF TimelineOK
  <2> DEFINE start == TailStart(ws, now, nb)
  <2> HIDE DEF start
  <2>2. Adds(ws, Pushed(ws, src, start, end), {src})
    BY <2>1 DEF Adds, Pushed
  <2> QED
    BY <2>2 DEF PushedUntil, start
<1> QED
  BY <1>2, <1>3 DEF Evolves

\* A revocation.
LEMMA RevokeEvolves ==
  ASSUME NEW ws, TimelineOK(ws), NEW t \in Nat, NEW srcs
  PROVE  /\ Evolves(ws, Revoked(ws, t, srcs), {})
         /\ \A s : Paid(s) \in srcs => Over(Revoked(ws, t, srcs), s, t)
<1>1. ws \in Seq(Window) /\ Len(ws) \in Nat
  BY DEF TimelineOK
<1>2. TimelineOK(Revoked(ws, t, srcs)) /\ OnlyEnds(ws, Revoked(ws, t, srcs))
  BY RevokeKeeps
<1>3. /\ Revoked(ws, t, srcs) \in Seq(Window) /\ Len(Revoked(ws, t, srcs)) = Len(ws)
  BY <1>1, <1>2 DEF Revoked, TimelineOK
<1>4. Adds(ws, Revoked(ws, t, srcs), {})
  BY <1>1, <1>3 DEF Adds
<1>5. ASSUME NEW s, Paid(s) \in srcs, NEW i \in LiveWindows(Revoked(ws, t, srcs)),
             Revoked(ws, t, srcs)[i].src = Paid(s)
      PROVE  Revoked(ws, t, srcs)[i].end <= t
  <2>1. i \in 1..Len(ws) /\ Revoked(ws, t, srcs)[i].state = "live"
    BY <1>3, <1>5 DEF LiveWindows
  <2>2. ws[i] \in Window
    BY <1>1, <2>1
  <2>3. Revoked(ws, t, srcs)[i] =
          IF i \notin LiveWindows(ws) \/ ws[i].src \notin srcs \/ ws[i].end <= t THEN ws[i]
          ELSE [ws[i] EXCEPT !.state = IF ws[i].start <= t THEN "revoked" ELSE "deleted"]
    BY <2>1 DEF Revoked
  <2>4. i \notin LiveWindows(ws) \/ ws[i].src \notin srcs \/ ws[i].end <= t
    BY <2>1, <2>2, <2>3 DEF Window
  <2> QED
    BY <1>5, <2>1, <2>3, <2>4 DEF LiveWindows
<1> QED
  BY <1>2, <1>4, <1>5 DEF Evolves, Over

\* Paid windows that are over stay so unless one is added.
LEMMA OverStays ==
  ASSUME NEW ws, TimelineOK(ws), NEW ws2, NEW srcs, Evolves(ws, ws2, srcs), NEW s, NEW t,
         Paid(s) \notin srcs, Over(ws, s, t)
  PROVE  Over(ws2, s, t)
<1>1. /\ ws \in Seq(Window) /\ ws2 \in Seq(Window) /\ Len(ws) \in Nat /\ Len(ws2) \in Nat
  BY DEF Evolves, TimelineOK
<1> SUFFICES ASSUME NEW i \in LiveWindows(ws2), ws2[i].src = Paid(s)
             PROVE  ws2[i].end <= t
  BY DEF Over
<1>2. i \in 1..Len(ws2) /\ ws2[i].state = "live"
  BY DEF LiveWindows
<1>3. i \in 1..Len(ws)
  BY <1>1, <1>2 DEF Evolves, Adds
<1>4. ws2[i].end = ws[i].end /\ ws2[i].src = ws[i].src /\ (ws[i].state # "live" => ws2[i] = ws[i])
  BY <1>3 DEF Evolves, OnlyEnds
<1>5. i \in LiveWindows(ws)
  BY <1>2, <1>3, <1>4 DEF LiveWindows
<1> QED
  BY <1>4, <1>5 DEF Over

-----------------------------------------------------------------------------
(* Rows.                                                                   *)

\* Who is past due has a retry ahead, or no attempt left and no period; CCBill
\* counts its attempts itself.
Sound(s, r) ==
    /\ s \in NMISubs /\ r.status = "past_due" =>
          r.nextRetry # Null \/ r.attempts >= MaxDunningFailures
    /\ r.status = "past_due" /\ r.attempts >= MaxDunningFailures => r.pend = Null
    /\ s \notin NMISubs => r.attempts = 0

Blamed(r) == r.ctype = "chargeback"

\* What holds however transactions overlap, whoever the processor.
IInv ==
    /\ TypeOK
    /\ \A k \in Ents : TimelineOK(windows[k])
    /\ \A s \in Subs : Sound(s, sub[s]) /\ RowChecks(sub[s])
    /\ \A w \in Workers : tx[w] # NoTx => Sound(tx[w].sub, tx[w].row)
    /\ \A s, q \in Subs : s # q => ~(sub[s].status = "active" /\ sub[q].status = "active")
    /\ \A s \in Subs, k \in Ents : sub[s].status = "none" =>
          \A i \in 1..Len(windows[k]) : windows[k][i].src # Paid(s)

\* The snapshot of an open transaction is a row of its subscription.
LEMMA SnapshotType ==
  ASSUME IInv, NEW w \in Workers, tx[w] # NoTx
  PROVE  /\ tx[w].sub \in Subs /\ tx[w].row \in Row /\ Sound(tx[w].sub, tx[w].row)
         /\ Paid(tx[w].sub) \in Sources /\ Grace(tx[w].sub) \in Sources
  BY LifecycleAssumption DEF IInv, TypeOK, Tx

\* The clock is within the horizon.
LEMMA ClockType ==
  ASSUME IInv
  PROVE  now \in 1..MaxTime /\ now \in 0..Horizon /\ now \in Nat /\ now - 1 \in 0..Horizon
  BY LifecycleAssumption, TimelineAssumption DEF IInv, TypeOK

-----------------------------------------------------------------------------
(* What a committed transaction does.                                      *)

Commits(w, n) ==
    /\ n \in Row /\ n.status # "none" /\ Sound(tx[w].sub, n) /\ Save(w, n)
    /\ now' = now /\ payments' \subseteq Txns /\ disputed' \subseteq Subs
    /\ windows' = [k \in Ents |-> windows'[k]]
    /\ \A k \in Ents : Evolves(windows[k], windows'[k], {Paid(tx[w].sub), Grace(tx[w].sub)})

\* Nothing paid is added to a timeline; everything paid on it is over.
Unpaid(w, k) == Evolves(windows[k], windows'[k], {Grace(tx[w].sub)})
Ends(w, k) == Over(windows'[k], tx[w].sub, now)

\* A chargeback in the row that is written was there before, or ends what is paid.
KeepsBlame(w, n) ==
    Blamed(n) => \/ Blamed(tx[w].row) /\ \A k \in Ents : Unpaid(w, k)
                 \/ \A k \in Ents : Ends(w, k)

\* What the product of the row that is written does not grant, the old one did not grant
\* either and nothing is added, or it is ended.
KeepsGrade(w, n) ==
    \A k \in Ents \ Granted(n.product) :
       Ends(w, k) \/ (Unpaid(w, k) /\ k \notin Granted(tx[w].row.product))

\* A row is written back as it was read, but for the downgrade that is scheduled.
Schedules(w, n) ==
    /\ windows' = windows
    /\ \E p \in Products : /\ TierRank[p] < TierRank[tx[w].row.product]
                           /\ n = [tx[w].row EXCEPT !.scheduled = p]

\* A subscription that is over for a chargeback, or without saying when it ended, ends
\* what is paid, before its period does.
Closes(w, n) ==
    /\ Terminal(n) => \A k \in Ents : Ends(w, k)
    /\ n.status = "cancelled" /\ n.endedAt = Null =>
          (n.pend = Null \/ n.pend > now) /\ \A k \in Ents : Ends(w, k)

Specified == \A p \in Products : EntSpec[p] # {}

Effect(w) ==
    \E n : /\ Commits(w, n) /\ KeepsBlame(w, n)
           /\ Specified => KeepsGrade(w, n)
           /\ tx[w].sub \in NMISubs /\ ~KeepEntitlements => Schedules(w, n) \/ Closes(w, n)
           /\ tx[w].row.status # "none" \/ tx[w].sub \notin NMISubs

\* A product with a specification grants what it says.
LEMMA GrantsSpec ==
  ASSUME Specified, NEW p \in Products
  PROVE  Granted(p) = EntSpec[p]
  BY DEF Specified, Granted

\* The names a product grants are entitlements.
LEMMA GrantedType ==
  ASSUME NEW p \in Products
  PROVE  Granted(p) \subseteq Ents
  BY LifecycleAssumption DEF Granted

-----------------------------------------------------------------------------
(* What the operations make of a row.                                      *)

\* The row becomes active for a period.
LEMMA ActivatedRow ==
  ASSUME NEW r \in Row, NEW start \in 0..Horizon, NEW end \in 0..Horizon
  PROVE  LET n == Activated(r, start, end)
         IN  /\ n \in Row /\ n.status = "active" /\ n.product = r.product
             /\ n.attempts = r.attempts /\ ~Blamed(n) /\ n.pend = end
  BY DEF Activated, Row, Status, CancelType, Time, Blamed

\* No retry is scheduled any more.
LEMMA NotRetryingRow ==
  ASSUME NEW r \in Row
  PROVE  LET n == NotRetrying(r)
         IN  /\ n \in Row /\ n.status = r.status /\ n.product = r.product
             /\ n.attempts = 0 /\ (Blamed(n) => Blamed(r))
<1>1. 0 \in 0..MaxDunningFailures /\ Null \in Time
  BY LifecycleAssumption DEF Time
<1> QED
  BY <1>1 DEF NotRetrying, Row, Blamed

\* The row is cancelled, with a type and an end.
LEMMA CancelledRow ==
  ASSUME NEW r \in Row, NEW ct \in CancelType, NEW ended \in Time, now \in 0..Horizon
  PROVE  LET n == Cancelled(r, ct, ended)
         IN  /\ n \in Row /\ n.status = "cancelled" /\ n.product = r.product
             /\ n.ctype = ct /\ n.endedAt = ended /\ n.attempts = r.attempts
             /\ n.noted = r.noted /\ n.pend = r.pend /\ n.pstart = r.pstart
  BY DEF Cancelled, Row, Status, Time

\* Only a row that is past due has to have a retry.
LEMMA NotPastDueSound ==
  ASSUME NEW s, NEW r, Sound(s, r), NEW n, n.status # "past_due",
         n.attempts = r.attempts \/ n.attempts = 0
  PROVE  Sound(s, n)
  BY DEF Sound

-----------------------------------------------------------------------------
(* What the operations make of the timelines.                              *)

\* More sources may be used than are.
LEMMA EvolvesMore ==
  ASSUME NEW a, NEW b, NEW S, NEW T, Evolves(a, b, S), S \subseteq T
  PROVE  Evolves(a, b, T)
  BY DEF Evolves, Adds

\* What adds nothing paid evolves all the same.
LEMMA UnpaidEvolves ==
  ASSUME NEW w, NEW k, Unpaid(w, k)
  PROVE  Evolves(windows[k], windows'[k], {Paid(tx[w].sub), Grace(tx[w].sub)})
  BY EvolvesMore DEF Unpaid

\* The windows stay as they are.
LEMMA WindowsStay ==
  ASSUME IInv, NEW w, windows' = windows
  PROVE  windows' = [k \in Ents |-> windows'[k]] /\ \A k \in Ents : Unpaid(w, k)
<1>1. ASSUME NEW k \in Ents PROVE Unpaid(w, k)
  BY <1>1, Stays DEF IInv, Unpaid
<1> QED
  BY <1>1 DEF IInv, TypeOK

\* A revocation of what s has paid.
LEMMA WindowsRevoked ==
  ASSUME IInv, NEW w, NEW srcs, Paid(tx[w].sub) \in srcs, SetWindows(RevokedFrom(srcs))
  PROVE  /\ windows' = [k \in Ents |-> windows'[k]]
         /\ \A k \in Ents : Unpaid(w, k) /\ Ends(w, k)
<1>1. windows' = [k \in Ents |-> Revoked(windows[k], now, srcs)]
  BY DEF SetWindows, RevokedFrom
<1>2. ASSUME NEW k \in Ents PROVE Unpaid(w, k) /\ Ends(w, k)
  <2>1. TimelineOK(windows[k]) /\ now \in Nat
    BY ClockType DEF IInv
  <2>2. /\ Evolves(windows[k], windows'[k], {})
        /\ Over(windows'[k], tx[w].sub, now)
    BY <1>1, <2>1, RevokeEvolves
  <2> QED
    BY <2>2, EvolvesMore DEF Unpaid, Ends
<1> QED
  BY <1>1, <1>2

\* Grace after a declined charge.
LEMMA WindowsGraced ==
  ASSUME IInv, NEW w \in Workers, tx[w] # NoTx, NEW names, NEW pend \in Time, NEW until \in Int,
         until <= Horizon, SetWindows(WithGrace(tx[w].sub, names, pend, until))
  PROVE  windows' = [k \in Ents |-> windows'[k]] /\ \A k \in Ents : Unpaid(w, k)
<1> DEFINE s == tx[w].sub
           from == IF pend > now THEN pend ELSE now
<1>1. windows' = [k \in Ents |->
                    IF k \in names /\ pend # Null /\ until > pend
                    THEN PushedUntil(windows[k], Grace(s), from, until) ELSE windows[k]]
  BY DEF SetWindows, WithGrace
<1>2. ASSUME NEW k \in Ents PROVE Unpaid(w, k)
  <2>1. TimelineOK(windows[k]) /\ Grace(s) \in Sources /\ now \in 1..MaxTime
    BY SnapshotType, ClockType DEF IInv
  <2>2. CASE k \in names /\ pend # Null /\ until > pend
    <3>1. from \in 0..Horizon /\ until \in 0..Never
      BY <2>2, ClockType, TimelineAssumption DEF Time, Null, Never
    <3> HIDE DEF from
    <3>2. Evolves(windows[k], PushedUntil(windows[k], Grace(s), from, until), {Grace(s)})
      BY <2>1, <3>1, PushEvolves
    <3>3. windows'[k] = PushedUntil(windows[k], Grace(s), from, until)
      BY <1>1, <2>2
    <3> QED
      BY <3>2, <3>3 DEF Unpaid
  <2>3. CASE ~(k \in names /\ pend # Null /\ until > pend)
    <3>1. windows'[k] = windows[k]
      BY <1>1, <2>3
    <3> QED
      BY <3>1, <2>1, Stays DEF Unpaid
  <2> QED
    BY <2>2, <2>3
<1> QED
  BY <1>1, <1>2

\* Grace is revoked and a paid window appended, on the timelines named.
LEMMA ExtendedEvolves ==
  ASSUME IInv, NEW w \in Workers, tx[w] # NoTx, NEW names, NEW nb \in 0..Horizon,
         NEW end \in 0..Never, NEW k \in Ents
  PROVE  LET new == Extended(tx[w].sub, names, nb, end)
         IN  /\ Evolves(windows[k], new[k], {Paid(tx[w].sub), Grace(tx[w].sub)})
             /\ k \notin names => new[k] = windows[k]
<1> DEFINE s == tx[w].sub
           cleared == Revoked(windows[k], now, {Grace(s)})
           new == Extended(s, names, nb, end)
<1>1. new[k] = IF k \in names THEN PushedUntil(cleared, Paid(s), nb, end) ELSE windows[k]
  BY DEF Extended
<1>2. TimelineOK(windows[k]) /\ Paid(s) \in Sources /\ now \in 1..MaxTime /\ now \in Nat
  BY SnapshotType, ClockType DEF IInv
<1>3. Evolves(windows[k], cleared, {})
  BY <1>2, RevokeEvolves
<1>4. TimelineOK(cleared)
  BY <1>3 DEF Evolves
<1> HIDE DEF cleared
<1>5. Evolves(cleared, PushedUntil(cleared, Paid(s), nb, end), {Paid(s)})
  BY <1>2, <1>4, PushEvolves
<1>6. Evolves(windows[k], PushedUntil(cleared, Paid(s), nb, end), {Paid(s), Grace(s)})
  BY <1>2, <1>3, <1>5, EvolvesOn
<1>7. Evolves(windows[k], windows[k], {Paid(s), Grace(s)})
  BY <1>2, Stays
<1> HIDE DEF new
<1>8. Evolves(windows[k], new[k], {Paid(s), Grace(s)}) /\ (k \notin names => new[k] = windows[k])
  BY <1>1, <1>6, <1>7
<1> QED
  BY <1>8 DEF new

-----------------------------------------------------------------------------
(* The operations, one by one.                                             *)

\* Periods end within the horizon.
LEMMA PeriodEndType ==
  ASSUME NEW start \in 0..Horizon, NEW date \in Dates \cup {Null},
         PeriodEnd(start, date) <= Horizon
  PROVE  PeriodEnd(start, date) \in 0..Horizon
  BY LifecycleAssumption, TimelineAssumption DEF PeriodEnd, Null

\* A row that is active is neither blamed nor over.
LEMMA ActiveCloses ==
  ASSUME NEW w, NEW n, n.status = "active", ~Blamed(n)
  PROVE  KeepsBlame(w, n) /\ Closes(w, n)
  BY DEF KeepsBlame, Closes, Terminal

\* A purchase, and the activation of a pending row.
LEMMA CreateMembershipEffect ==
  ASSUME IInv, NEW w \in Workers, tx[w] # NoTx, NEW ids \in SUBSET Txns,
         NEW date \in Dates \cup {Null}, CreateMembership(w, ids, date)
  PROVE  Effect(w)
<1> DEFINE s == tx[w].sub
           r == tx[w].row
           end == PeriodEnd(now, date)
           n == Activated(r, now, end)
           missing == {k \in Granted(r.product) : ~ExistsBySource(windows[k], Paid(s))}
<1>1. /\ r.status = "none" => s \notin NMISubs
      /\ end <= Horizon /\ Save(w, n) /\ now' = now
      /\ payments' = payments \cup ids /\ disputed' = disputed \ {s}
      /\ windows' = [k \in Ents |-> IF k \in missing THEN PushedUntil(windows[k], Paid(s), now, end)
                                    ELSE windows[k]]
  BY DEF CreateMembership, GrantPurchased, RecordPurchase, SetWindows
<1>2. /\ s \in Subs /\ r \in Row /\ Sound(s, r) /\ Paid(s) \in Sources
      /\ now \in 0..Horizon /\ now \in 1..MaxTime
  BY SnapshotType, ClockType
<1>3. end \in 0..Horizon /\ end \in 0..Never
  BY <1>1, <1>2, PeriodEndType, TimelineAssumption DEF Never
<1> HIDE DEF end
<1>4. /\ n \in Row /\ n.status = "active" /\ n.product = r.product
      /\ n.attempts = r.attempts /\ ~Blamed(n)
  BY <1>2, <1>3, ActivatedRow
<1>5. Sound(s, n)
  BY <1>2, <1>4, NotPastDueSound
<1> HIDE DEF n
<1>6. ASSUME NEW k \in Ents
      PROVE  /\ Evolves(windows[k], windows'[k], {Paid(s), Grace(s)})
             /\ k \notin Granted(r.product) => Unpaid(w, k)
  <2>1. TimelineOK(windows[k])
    BY DEF IInv
  <2>2. /\ Evolves(windows[k], PushedUntil(windows[k], Paid(s), now, end), {Paid(s)})
        /\ Evolves(windows[k], windows[k], {Grace(s)})
    BY <1>2, <1>3, <2>1, PushEvolves, Stays
  <2>3. /\ Evolves(windows[k], PushedUntil(windows[k], Paid(s), now, end), {Paid(s), Grace(s)})
        /\ Evolves(windows[k], windows[k], {Paid(s), Grace(s)})
    BY <2>2, EvolvesMore
  <2>4. CASE k \in missing
    BY <2>3, <2>4, <1>1
  <2>5. CASE k \notin missing
    <3>1. windows'[k] = windows[k]
      BY <2>5, <1>1
    <3> QED
      BY <3>1, <2>2, <2>3 DEF Unpaid
  <2> QED
    BY <2>4, <2>5
<1>7. windows' = [k \in Ents |-> windows'[k]]
  BY <1>1
<1>8. payments' \subseteq Txns /\ disputed' \subseteq Subs
  BY <1>1 DEF IInv, TypeOK
<1>9. Commits(w, n)
  BY <1>1, <1>4, <1>5, <1>6, <1>7, <1>8 DEF Commits
<1>10. KeepsGrade(w, n)
  BY <1>4, <1>6 DEF KeepsGrade
<1> QED
  BY <1>1, <1>4, <1>9, <1>10, ActiveCloses DEF Effect

\* A renewal, with the downgrade that was scheduled for it.
LEMMA RenewMembershipEffect ==
  ASSUME IInv, NEW w \in Workers, tx[w] # NoTx, NEW t \in Txns,
         NEW date \in Dates \cup {Null}, RenewMembership(w, t, date)
  PROVE  Effect(w)
<1> DEFINE s == tx[w].sub
           r == tx[w].row
           product == IF r.scheduled = NoProduct THEN r.product ELSE r.scheduled
           start == IF r.pend = Null THEN now ELSE r.pend
           end == PeriodEnd(start, date)
           m == NotRetrying(Activated(r, start, end))
           n == [m EXCEPT !.product = product, !.scheduled = NoProduct]
           ext == Extended(s, EntSpec[product], start, end)
<1>1. /\ r.status # "none" /\ end <= Horizon /\ Save(w, n) /\ now' = now
      /\ payments' = payments \cup {t} /\ disputed' = disputed
      /\ windows' = [k \in Ents |-> IF k \in EntSpec[r.product] \ EntSpec[product]
                                    THEN Revoked(ext[k], now, {Paid(s)}) ELSE ext[k]]
  BY DEF RenewMembership, SetWindows, Downgraded
<1>2. /\ s \in Subs /\ r \in Row /\ Sound(s, r) /\ now \in 0..Horizon /\ now \in Nat
  BY SnapshotType, ClockType
<1>3. product \in Products /\ start \in 0..Horizon /\ r.product \in Products
  BY <1>2 DEF Row, Time
<1>4. end \in 0..Horizon /\ end \in 0..Never
  <2> HIDE DEF start
  <2>1. end \in 0..Horizon
    BY <1>1, <1>3, PeriodEndType
  <2> HIDE DEF end
  <2> QED
    BY <2>1, TimelineAssumption DEF Never
<1> HIDE DEF product, start, end
<1>5. /\ m \in Row /\ m.status = "active" /\ m.attempts = 0 /\ ~Blamed(m)
  <2> DEFINE a == Activated(r, start, end)
  <2>1. a \in Row /\ a.status = "active" /\ ~Blamed(a)
    BY <1>2, <1>3, <1>4, ActivatedRow DEF start, end
  <2> HIDE DEF a
  <2>2. /\ NotRetrying(a) \in Row /\ NotRetrying(a).status = "active"
        /\ NotRetrying(a).attempts = 0 /\ ~Blamed(NotRetrying(a))
    BY <2>1, NotRetryingRow
  <2> QED
    BY <2>2 DEF a
<1> HIDE DEF m
<1>6. n \in Row /\ n.status = "active" /\ n.attempts = 0 /\ ~Blamed(n) /\ n.product = product
  <2>1. /\ n.status = m.status /\ n.attempts = m.attempts /\ n.ctype = m.ctype
        /\ n.noted = m.noted /\ n.product = product
    BY <1>5 DEF Row
  <2>2. n \in Row
    BY <1>3, <1>5 DEF Row
  <2> QED
    BY <1>5, <2>1, <2>2 DEF Blamed
<1>7. Sound(s, n)
  BY <1>2, <1>6, NotPastDueSound
<1> HIDE DEF n, ext
<1>8. ASSUME NEW k \in Ents
      PROVE  /\ Evolves(windows[k], windows'[k], {Paid(s), Grace(s)})
             /\ k \in EntSpec[r.product] \ EntSpec[product] => Ends(w, k)
             /\ k \notin EntSpec[r.product] \cup EntSpec[product] => Unpaid(w, k)
  <2>1. TimelineOK(windows[k])
    BY DEF IInv
  <2>2. /\ Evolves(windows[k], ext[k], {Paid(s), Grace(s)})
        /\ k \notin EntSpec[product] => ext[k] = windows[k]
    <3> DEFINE names == EntSpec[product]
    <3> HIDE DEF names
    <3>1. PICK nb \in 0..Horizon, e \in 0..Never : nb = start /\ e = end
      BY <1>3, <1>4
    <3>2. /\ Evolves(windows[k], Extended(s, names, nb, e)[k], {Paid(s), Grace(s)})
          /\ k \notin names => Extended(s, names, nb, e)[k] = windows[k]
      BY ExtendedEvolves
    <3> QED
      BY <3>1, <3>2 DEF ext, names
  <2>3. TimelineOK(ext[k])
    BY <2>2 DEF Evolves
  <2>4. /\ Evolves(ext[k], Revoked(ext[k], now, {Paid(s)}), {})
        /\ Over(Revoked(ext[k], now, {Paid(s)}), s, now)
    BY <1>2, <2>3, RevokeEvolves
  <2>5. Evolves(windows[k], Revoked(ext[k], now, {Paid(s)}), {Paid(s), Grace(s)})
    BY <2>1, <2>2, <2>4, EvolvesOn
  <2>6. CASE k \in EntSpec[r.product] \ EntSpec[product]
    <3>1. windows'[k] = Revoked(ext[k], now, {Paid(s)})
      BY <1>1, <2>6
    <3> QED
      BY <3>1, <2>4, <2>5, <2>6 DEF Ends
  <2>7. CASE k \notin EntSpec[r.product] \ EntSpec[product]
    <3>1. windows'[k] = ext[k]
      BY <1>1, <2>7
    <3>2. k \notin EntSpec[product] => windows'[k] = windows[k]
      BY <3>1, <2>2
    <3>3. Evolves(windows[k], windows[k], {Grace(s)})
      BY <2>1, Stays
    <3> QED
      BY <3>1, <3>2, <3>3, <2>2, <2>7 DEF Unpaid
  <2> QED
    BY <2>6, <2>7
<1>9. windows' = [k \in Ents |-> windows'[k]]
  BY <1>1
<1>10. payments' \subseteq Txns /\ disputed' \subseteq Subs
  BY <1>1 DEF IInv, TypeOK
<1>11. Commits(w, n)
  BY <1>1, <1>6, <1>7, <1>8, <1>9, <1>10 DEF Commits
<1>12. ASSUME Specified PROVE KeepsGrade(w, n)
  <2>1. Granted(n.product) = EntSpec[product] /\ Granted(r.product) = EntSpec[r.product]
    BY <1>12, <1>3, <1>6, GrantsSpec
  <2> QED
    BY <2>1, <1>8 DEF KeepsGrade
<1> QED
  BY <1>1, <1>6, <1>11, <1>12, ActiveCloses DEF Effect

\* A reactivation by CCBill.
LEMMA ReactivateMembershipEffect ==
  ASSUME IInv, NEW w \in Workers, tx[w] # NoTx, NEW date \in Dates,
         ReactivateMembership(w, date)
  PROVE  Effect(w)
<1> DEFINE s == tx[w].sub
           r == tx[w].row
           m == Activated(r, now, date)
           n == NotRetrying(m)
<1>1. /\ r.status # "none" /\ Save(w, n) /\ now' = now
      /\ payments' = payments /\ disputed' = disputed
      /\ windows' = Extended(s, Granted(r.product), now, date)
  BY DEF ReactivateMembership, SetWindows
<1>2. /\ s \in Subs /\ r \in Row /\ Sound(s, r) /\ now \in 0..Horizon
  BY SnapshotType, ClockType
<1>3. date \in 0..Horizon /\ date \in 0..Never
  BY LifecycleAssumption, TimelineAssumption DEF Never
<1>4. m \in Row /\ m.status = "active" /\ ~Blamed(m) /\ m.product = r.product
  BY <1>2, <1>3, ActivatedRow
<1> HIDE DEF m
<1>5. n \in Row /\ n.status = "active" /\ n.attempts = 0 /\ ~Blamed(n) /\ n.product = r.product
  BY <1>4, NotRetryingRow
<1>6. Sound(s, n)
  BY <1>2, <1>5, NotPastDueSound
<1> HIDE DEF n
<1>7. ASSUME NEW k \in Ents
      PROVE  /\ Evolves(windows[k], windows'[k], {Paid(s), Grace(s)})
             /\ k \notin Granted(r.product) => Unpaid(w, k)
  <2>1. /\ Evolves(windows[k], windows'[k], {Paid(s), Grace(s)})
        /\ k \notin Granted(r.product) => windows'[k] = windows[k]
    BY <1>1, <1>2, <1>3, ExtendedEvolves
  <2>2. Evolves(windows[k], windows[k], {Grace(s)})
    BY Stays DEF IInv
  <2> QED
    BY <2>1, <2>2 DEF Unpaid
<1>8. windows' = [k \in Ents |-> windows'[k]]
  BY <1>1 DEF Extended
<1>9. Commits(w, n)
  BY <1>1, <1>5, <1>6, <1>7, <1>8 DEF Commits, IInv, TypeOK
<1>10. KeepsGrade(w, n)
  BY <1>5, <1>7 DEF KeepsGrade
<1> QED
  BY <1>1, <1>5, <1>9, <1>10, ActiveCloses DEF Effect

\* Nothing paid is added and the product stays.
LEMMA UnpaidKeepsGrade ==
  ASSUME NEW w, NEW n, n.product = tx[w].row.product, \A k \in Ents : Unpaid(w, k)
  PROVE  KeepsGrade(w, n)
  BY DEF KeepsGrade

\* A transaction that adds nothing paid.
LEMMA CommitsUnpaid ==
  ASSUME IInv, NEW w, NEW n, n \in Row, n.status # "none", Sound(tx[w].sub, n), Save(w, n),
         now' = now, payments' = payments, disputed' \subseteq Subs,
         windows' = [k \in Ents |-> windows'[k]], \A k \in Ents : Unpaid(w, k)
  PROVE  Commits(w, n)
<1>1. \A k \in Ents : Evolves(windows[k], windows'[k], {Paid(tx[w].sub), Grace(tx[w].sub)})
  BY UnpaidEvolves
<1> QED
  BY <1>1 DEF Commits, IInv, TypeOK

\* A cancellation, at once or at the end of the period.
LEMMA CancelMembershipEffect ==
  ASSUME IInv, NEW w \in Workers, tx[w] # NoTx, NEW ct \in CancelType, NEW noted \in BOOLEAN,
         NEW revokeAccess \in BOOLEAN, ct = "chargeback" => revokeAccess,
         noted => revokeAccess \/ tx[w].sub \notin NMISubs,
         CancelMembership(w, ct, noted, revokeAccess)
  PROVE  Effect(w)
<1> DEFINE s == tx[w].sub
           r == tx[w].row
           pend == IF revokeAccess THEN now ELSE r.pend
           ended == IF pend > now THEN pend ELSE now
           pstart == IF revokeAccess /\ r.pstart >= now THEN now - 1 ELSE r.pstart
           m == Cancelled(r, ct, ended)
           n == [m EXCEPT !.pstart = pstart, !.pend = pend, !.noted = noted]
<1>1. /\ s \in Subs /\ r \in Row /\ Sound(s, r) /\ now \in 0..Horizon /\ now - 1 \in 0..Horizon
  BY SnapshotType, ClockType
<1>2. r.pstart \in Time /\ r.pend \in Time /\ r.product \in Products
  BY <1>1 DEF Row
<1>3. /\ pend \in Time /\ ended \in Time /\ ended # Null /\ pstart \in Time
      /\ pend \in Int /\ (revokeAccess => ~(pend > now))
  BY <1>1, <1>2, TimelineAssumption DEF Time, Null
<1>4. /\ r.status # "none" /\ now' = now /\ payments' = payments
      /\ SetWindows(IF pend > now THEN windows ELSE RevokedFrom({Paid(s)}))
      /\ disputed' = IF ct = "chargeback" THEN disputed \cup {s} ELSE disputed
  BY DEF CancelMembership
<1> HIDE DEF pend, ended, pstart
<1>5. /\ m \in Row /\ m.status = "cancelled" /\ m.product = r.product /\ m.ctype = ct
      /\ m.endedAt = ended /\ m.attempts = r.attempts /\ m.pstart = r.pstart
  BY <1>1, <1>3, CancelledRow
<1>6. Save(w, n)
  BY <1>5 DEF CancelMembership, pend, ended, pstart
<1> HIDE DEF m
<1>7. /\ n.status = m.status /\ n.product = m.product /\ n.ctype = m.ctype
      /\ n.endedAt = m.endedAt /\ n.attempts = m.attempts /\ n.noted = noted
  BY <1>5 DEF Row
<1>8. n \in Row
  BY <1>3, <1>5 DEF Row
<1> HIDE DEF n
<1>9. Sound(s, n)
  BY <1>1, <1>5, <1>7, NotPastDueSound
<1>10. /\ windows' = [k \in Ents |-> windows'[k]]
       /\ \A k \in Ents : Unpaid(w, k)
       /\ revokeAccess => \A k \in Ents : Ends(w, k)
  <2>1. CASE pend > now
    BY <2>1, <1>3, <1>4, WindowsStay DEF SetWindows
  <2>2. CASE ~(pend > now)
    BY <2>2, <1>4, WindowsRevoked
  <2> QED
    BY <2>1, <2>2
<1>11. disputed' \subseteq Subs
  BY <1>1, <1>4 DEF IInv, TypeOK
<1>12. Commits(w, n)
  BY <1>4, <1>5, <1>6, <1>7, <1>8, <1>9, <1>10, <1>11, CommitsUnpaid
<1>13. KeepsBlame(w, n) /\ (s \in NMISubs => Closes(w, n))
  BY <1>3, <1>5, <1>7, <1>10 DEF KeepsBlame, Closes, Blamed, Terminal
<1> QED
  BY <1>4, <1>5, <1>7, <1>10, <1>12, <1>13, UnpaidKeepsGrade DEF Effect

\* An expiration reported by CCBill.
LEMMA ExpireMembershipEffect ==
  ASSUME IInv, NEW w \in Workers, tx[w] # NoTx, ExpireMembership(w)
  PROVE  Effect(w)
<1> DEFINE s == tx[w].sub
           r == tx[w].row
           n == Cancelled(r, "expired", now)
<1>1. /\ s \in Subs /\ r \in Row /\ Sound(s, r) /\ now \in 0..Horizon
  BY SnapshotType, ClockType
<1>2. /\ r.status # "none" /\ now' = now /\ payments' = payments /\ disputed' = disputed
      /\ Save(w, n) /\ SetWindows(RevokedFrom({Paid(s), Grace(s)}))
  BY DEF ExpireMembership
<1>3. "expired" \in CancelType /\ now \in Time /\ now # Null
  BY <1>1, TimelineAssumption DEF CancelType, Time, Null
<1>4. /\ n \in Row /\ n.status = "cancelled" /\ n.product = r.product /\ n.endedAt = now
      /\ n.attempts = r.attempts
  BY <1>1, <1>3, CancelledRow
<1> HIDE DEF n
<1>5. Sound(s, n)
  BY <1>1, <1>4, NotPastDueSound
<1>6. /\ windows' = [k \in Ents |-> windows'[k]]
      /\ \A k \in Ents : Unpaid(w, k) /\ Ends(w, k)
  BY <1>2, WindowsRevoked
<1>7. Commits(w, n)
  BY <1>2, <1>4, <1>5, <1>6, CommitsUnpaid DEF IInv, TypeOK
<1> QED
  BY <1>2, <1>3, <1>4, <1>6, <1>7, UnpaidKeepsGrade DEF Effect, KeepsBlame, Closes

\* A row read by ResetCurrentPeriods: its period is cleared if it is over.
LEMMA LapsedClearedRow ==
  ASSUME NEW r \in Row, r.pend # Null, now \in 1..MaxTime, now \in 0..Horizon, now - 1 \in 0..Horizon
  PROVE  LET n == LapsedCleared(r)
         IN  /\ n \in Row /\ n.product = r.product /\ n.attempts = r.attempts
             /\ n.noted = r.noted /\ n.status = r.status
             /\ n.endedAt = Null => n.pend > now
<1>1. r.pend \in Int /\ now \in Int /\ Null \in Time /\ now - 1 \in Time /\ now - 1 # Null
  BY TimelineAssumption DEF Row, Time, Null
<1>2. CASE r.pend <= now
  <2> DEFINE n == [r EXCEPT !.pstart = Null, !.pend = Null, !.endedAt = now - 1]
  <2>1. /\ n \in Row /\ n.product = r.product /\ n.attempts = r.attempts
        /\ n.noted = r.noted /\ n.status = r.status /\ n.endedAt = now - 1
    BY <1>1 DEF Row
  <2> QED
    BY <2>1, <1>1, <1>2 DEF LapsedCleared
<1>3. CASE ~(r.pend <= now)
  BY <1>1, <1>3 DEF LapsedCleared
<1> QED
  BY <1>2, <1>3

\* CCBill ends a subscription for a refund or a chargeback.
LEMMA TerminateEffect ==
  ASSUME IInv, NEW w \in Workers, tx[w] # NoTx, NEW ct \in CancelType, NEW noted \in BOOLEAN,
         NEW ended \in Time, tx[w].sub \notin NMISubs, tx[w].row.pend # Null,
         Save(w, [Cancelled(LapsedCleared(tx[w].row), ct, ended) EXCEPT !.noted = noted]),
         now' = now, payments' = payments, disputed' \subseteq Subs,
         SetWindows(RevokedFrom({Paid(tx[w].sub)}))
  PROVE  Effect(w)
<1> DEFINE s == tx[w].sub
           r == tx[w].row
           l == LapsedCleared(r)
           m == Cancelled(l, ct, ended)
           n == [m EXCEPT !.noted = noted]
<1>1. /\ s \in Subs /\ r \in Row /\ Sound(s, r) /\ now \in 0..Horizon /\ now - 1 \in 0..Horizon
      /\ now \in 1..MaxTime
  BY SnapshotType, ClockType
<1>2. l \in Row /\ l.product = r.product /\ l.attempts = r.attempts
  BY <1>1, LapsedClearedRow
<1> HIDE DEF l
<1>3. m \in Row /\ m.status = "cancelled" /\ m.product = r.product /\ m.attempts = r.attempts
  BY <1>1, <1>2, CancelledRow
<1>4. Save(w, n)
  BY DEF l
<1> HIDE DEF m
<1>5. n \in Row /\ n.status = "cancelled" /\ n.product = r.product /\ n.attempts = r.attempts
  BY <1>3 DEF Row
<1> HIDE DEF n
<1>6. Sound(s, n)
  BY <1>1, <1>5, NotPastDueSound
<1>7. /\ windows' = [k \in Ents |-> windows'[k]]
      /\ \A k \in Ents : Unpaid(w, k) /\ Ends(w, k)
  BY WindowsRevoked
<1>8. Commits(w, n)
  BY <1>4, <1>5, <1>6, <1>7, CommitsUnpaid
<1> QED
  BY <1>5, <1>7, <1>8, UnpaidKeepsGrade DEF Effect, KeepsBlame

\* A refund by CCBill, of most of the price or of less.
LEMMA HandleRefundEffect ==
  ASSUME IInv, NEW w \in Workers, tx[w] # NoTx, NEW terminate \in BOOLEAN,
         HandleRefund(w, terminate)
  PROVE  Effect(w)
<1> DEFINE s == tx[w].sub
           r == tx[w].row
           l == LapsedCleared(r)
<1>1. /\ s \in Subs /\ r \in Row /\ Sound(s, r) /\ now \in 0..Horizon /\ now - 1 \in 0..Horizon
      /\ now \in 1..MaxTime
  BY SnapshotType, ClockType
<1>2. /\ s \notin NMISubs /\ r.status # "none" /\ now' = now /\ payments' = payments
      /\ disputed' = disputed /\ disputed' \subseteq Subs
  BY DEF HandleRefund, IInv, TypeOK
<1>3. CASE TerminateForRefund(w)
  <2>1. r.pend # Null /\ SetWindows(RevokedFrom({Paid(s)}))
    BY <1>3 DEF TerminateForRefund
  <2>2. l \in Row /\ l.endedAt \in Time /\ l.noted \in BOOLEAN
    <3>1. l \in Row
      BY <1>1, <2>1, LapsedClearedRow
    <3> QED
      BY <3>1 DEF Row
  <2>3. PICK noted \in BOOLEAN :
           Save(w, [Cancelled(l, "merchant", l.endedAt) EXCEPT !.noted = noted])
    BY <1>3 DEF TerminateForRefund
  <2>4. noted \in BOOLEAN /\ "merchant" \in CancelType
    BY <2>2 DEF CancelType
  <2> QED
    BY <1>2, <2>1, <2>2, <2>3, <2>4, TerminateEffect
<1>4. CASE Save(w, r) /\ UNCHANGED windows
  <2>1. windows' = [k \in Ents |-> windows'[k]] /\ \A k \in Ents : Unpaid(w, k)
    BY <1>4, WindowsStay
  <2>2. Commits(w, r)
    BY <1>1, <1>2, <1>4, <2>1, CommitsUnpaid
  <2> QED
    BY <1>2, <2>1, <2>2, UnpaidKeepsGrade DEF Effect, KeepsBlame
<1> QED
  BY <1>3, <1>4 DEF HandleRefund

\* A chargeback reported by CCBill.
LEMMA HandleChargebackEffect ==
  ASSUME IInv, NEW w \in Workers, tx[w] # NoTx, HandleChargeback(w)
  PROVE  Effect(w)
<1>1. /\ tx[w].sub \in Subs /\ now \in Time /\ "chargeback" \in CancelType
  BY SnapshotType, ClockType DEF Time, CancelType
<1>2. /\ tx[w].sub \notin NMISubs /\ tx[w].row.pend # Null /\ now' = now /\ payments' = payments
      /\ Save(w, [Cancelled(LapsedCleared(tx[w].row), "chargeback", now) EXCEPT !.noted = TRUE])
      /\ SetWindows(RevokedFrom({Paid(tx[w].sub)})) /\ disputed' = disputed \cup {tx[w].sub}
  BY DEF HandleChargeback, TerminateForChargeback
<1>3. disputed' \subseteq Subs
  BY <1>1, <1>2 DEF IInv, TypeOK
<1> QED
  BY <1>1, <1>2, <1>3, TerminateEffect

\* A new billing date.
LEMMA HandleBillingDateChangeEffect ==
  ASSUME IInv, NEW w \in Workers, tx[w] # NoTx, NEW date \in Dates,
         HandleBillingDateChange(w, date)
  PROVE  Effect(w)
<1> DEFINE s == tx[w].sub
           r == tx[w].row
           n == [r EXCEPT !.pend = date]
<1>1. s \in Subs /\ r \in Row /\ Sound(s, r)
  BY SnapshotType
<1>2. /\ s \notin NMISubs /\ r.status # "none" /\ now' = now /\ payments' = payments
      /\ disputed' = disputed /\ disputed' \subseteq Subs /\ windows' = windows /\ Save(w, n)
  BY DEF HandleBillingDateChange, IInv, TypeOK
<1>3. date \in Time
  BY LifecycleAssumption, TimelineAssumption DEF Time
<1>4. n.status = r.status /\ n.product = r.product /\ n.ctype = r.ctype /\ n.noted = r.noted
      /\ n.attempts = r.attempts
  BY <1>1 DEF Row
<1>5. n \in Row
  BY <1>1, <1>3 DEF Row
<1> HIDE DEF n
<1>6. Sound(s, n)
  BY <1>1, <1>2, <1>4, LifecycleAssumption DEF Sound
<1>7. windows' = [k \in Ents |-> windows'[k]] /\ \A k \in Ents : Unpaid(w, k)
  BY <1>2, WindowsStay
<1>8. Commits(w, n)
  BY <1>2, <1>4, <1>5, <1>6, <1>7, CommitsUnpaid
<1> QED
  BY <1>2, <1>4, <1>7, <1>8, UnpaidKeepsGrade DEF Effect, KeepsBlame, Blamed

\* A downgrade is scheduled.
LEMMA ProcessDowngradeEffect ==
  ASSUME IInv, NEW w \in Workers, tx[w] # NoTx, NEW p \in Products, tx[w].row.status # "none",
         ProcessDowngrade(w, p)
  PROVE  Effect(w)
<1> DEFINE s == tx[w].sub
           r == tx[w].row
           n == [r EXCEPT !.scheduled = p]
<1>1. s \in Subs /\ r \in Row /\ Sound(s, r)
  BY SnapshotType
<1>2. /\ now' = now /\ payments' = payments /\ disputed' = disputed /\ disputed' \subseteq Subs
      /\ windows' = windows /\ Save(w, n) /\ Schedules(w, n)
  BY DEF ProcessDowngrade, IInv, TypeOK, Schedules
<1>3. /\ n.status = r.status /\ n.product = r.product /\ n.ctype = r.ctype /\ n.noted = r.noted
      /\ n.attempts = r.attempts /\ n.nextRetry = r.nextRetry /\ n.pend = r.pend
  BY <1>1 DEF Row
<1>4. n \in Row
  BY <1>1 DEF Row
<1> HIDE DEF n
<1>5. Sound(s, n)
  BY <1>1, <1>3 DEF Sound
<1>6. windows' = [k \in Ents |-> windows'[k]] /\ \A k \in Ents : Unpaid(w, k)
  BY <1>2, WindowsStay
<1>7. Commits(w, n)
  BY <1>2, <1>3, <1>4, <1>5, <1>6, CommitsUnpaid
<1> QED
  BY <1>2, <1>3, <1>6, <1>7, UnpaidKeepsGrade DEF Effect, KeepsBlame, Blamed

\* A declined renewal of CCBill.
LEMMA HandleRenewalFailureEffect ==
  ASSUME IInv, NEW w \in Workers, tx[w] # NoTx, NEW date \in Dates \cup {Null},
         HandleRenewalFailure(w, date)
  PROVE  Effect(w)
<1> DEFINE s == tx[w].sub
           r == tx[w].row
           retry == CapCCBillRetryAt(date, r.pend)
           n == [r EXCEPT !.status = "past_due", !.nextRetry = retry, !.attempts = 0]
<1>1. s \in Subs /\ r \in Row /\ Sound(s, r) /\ r.pend \in Time
  BY SnapshotType DEF Row
<1>2. /\ s \notin NMISubs /\ r.status # "none" /\ now' = now /\ payments' = payments
      /\ disputed' = disputed /\ disputed' \subseteq Subs /\ retry <= Horizon /\ Save(w, n)
      /\ SetWindows(WithGrace(s, Granted(r.product), r.pend, retry))
  BY DEF HandleRenewalFailure, GrantCCBillGrace, IInv, TypeOK
<1>3. retry \in Time /\ retry \in Int
  BY <1>1, <1>2, LifecycleAssumption, TimelineAssumption DEF CapCCBillRetryAt, Time, Null
<1>4. 0 \in 0..MaxDunningFailures /\ ~(0 >= MaxDunningFailures) /\ "past_due" \in Status
  BY LifecycleAssumption DEF Status
<1> HIDE DEF retry
<1>5. /\ n.status = "past_due" /\ n.product = r.product /\ n.ctype = r.ctype
      /\ n.noted = r.noted /\ n.attempts = 0
  BY <1>1 DEF Row
<1>6. n \in Row
  BY <1>1, <1>3, <1>4 DEF Row
<1>7. Sound(s, n)
  <2> HIDE DEF n
  <2> QED
    BY <1>2, <1>4, <1>5 DEF Sound
<1>8. windows' = [k \in Ents |-> windows'[k]] /\ \A k \in Ents : Unpaid(w, k)
  BY <1>1, <1>2, <1>3, WindowsGraced
<1> HIDE DEF n
<1>9. Commits(w, n)
  BY <1>2, <1>5, <1>6, <1>7, <1>8, CommitsUnpaid
<1> QED
  BY <1>2, <1>5, <1>8, <1>9, UnpaidKeepsGrade DEF Effect, KeepsBlame, Blamed

\* An upgrade by CCBill.
LEMMA HandleUpgradeSuccessEffect ==
  ASSUME IInv, NEW w \in Workers, tx[w] # NoTx, NEW t \in Txns, NEW p \in Products,
         HandleUpgradeSuccess(w, t, p)
  PROVE  Effect(w)
<1> DEFINE s == tx[w].sub
           r == tx[w].row
           start == IF r.pend = Null THEN now ELSE r.pend
           end == start + Cycle
           until == IF end > now THEN end ELSE Never
           m == Activated(r, start, end)
           n == [m EXCEPT !.product = p]
           lost == Granted(r.product) \ Granted(p)
           won == {k \in Granted(p) \ Granted(r.product) : ~ExistsBySource(windows[k], Paid(s))}
<1>1. /\ s \notin NMISubs /\ r.status # "none" /\ now' = now /\ disputed' = disputed
      /\ payments' = payments \cup {t} /\ end \in now..Horizon /\ Save(w, n)
      /\ SetWindows(WindowsAfterUpgrade(s, r.product, p, until))
  BY DEF HandleUpgradeSuccess, UpgradeMembership
<1>2. windows' = [k \in Ents |-> IF k \in lost THEN Revoked(windows[k], now, {Paid(s)})
                                 ELSE IF k \in won THEN PushedUntil(windows[k], Paid(s), now, until)
                                 ELSE windows[k]]
  BY <1>1 DEF SetWindows, WindowsAfterUpgrade
<1>3. /\ s \in Subs /\ r \in Row /\ Sound(s, r) /\ Paid(s) \in Sources
      /\ now \in 0..Horizon /\ now \in 1..MaxTime /\ now \in Nat
  BY SnapshotType, ClockType
<1>4. start \in 0..Horizon
  BY <1>3 DEF Row, Time
<1>5. end \in 0..Horizon /\ until \in 0..Never
  BY <1>1, <1>3, <1>4, TimelineAssumption DEF Never
<1> HIDE DEF start, end, until
<1>6. /\ m \in Row /\ m.status = "active" /\ m.attempts = r.attempts /\ ~Blamed(m)
  <2>1. PICK a \in 0..Horizon, b \in 0..Horizon : a = start /\ b = end
    BY <1>4, <1>5
  <2>2. LET x == Activated(r, a, b)
        IN  x \in Row /\ x.status = "active" /\ x.attempts = r.attempts /\ ~Blamed(x)
    BY <1>3, ActivatedRow
  <2> QED
    BY <2>1, <2>2
<1> HIDE DEF m
<1>7. n.status = m.status /\ n.attempts = m.attempts /\ n.ctype = m.ctype /\ n.noted = m.noted
      /\ n.product = p
  BY <1>6 DEF Row
<1>8. n \in Row
  BY <1>6 DEF Row
<1> HIDE DEF n
<1>9. ~Blamed(n) /\ Sound(s, n)
  BY <1>3, <1>6, <1>7, NotPastDueSound DEF Blamed
<1>10. ASSUME NEW k \in Ents
       PROVE  /\ Evolves(windows[k], windows'[k], {Paid(s), Grace(s)})
              /\ k \in lost => Ends(w, k)
              /\ k \notin Granted(r.product) \cup Granted(p) => Unpaid(w, k)
  <2>1. TimelineOK(windows[k])
    BY DEF IInv
  <2>2. CASE k \in lost
    <3>1. windows'[k] = Revoked(windows[k], now, {Paid(s)})
      BY <1>2, <2>2
    <3>2. Evolves(windows[k], windows'[k], {}) /\ Over(windows'[k], s, now)
      BY <1>3, <2>1, <3>1, RevokeEvolves
    <3> QED
      BY <2>2, <3>2, EvolvesMore DEF Ends
  <2>3. CASE k \notin lost /\ k \in won
    <3>1. windows'[k] = PushedUntil(windows[k], Paid(s), now, until)
      BY <1>2, <2>3
    <3>2. PICK e \in 0..Never : e = until
      BY <1>5
    <3>3. Evolves(windows[k], PushedUntil(windows[k], Paid(s), now, e), {Paid(s)})
      BY <1>3, <2>1, PushEvolves
    <3>4. Evolves(windows[k], windows'[k], {Paid(s), Grace(s)})
      BY <3>1, <3>2, <3>3, EvolvesMore
    <3> QED
      BY <2>3, <3>4
  <2>4. CASE k \notin lost /\ k \notin won
    <3>1. windows'[k] = windows[k]
      BY <1>2, <2>4
    <3>2. Evolves(windows[k], windows[k], {Paid(s), Grace(s)}) /\ Evolves(windows[k], windows[k], {Grace(s)})
      BY <2>1, Stays
    <3> QED
      BY <2>4, <3>1, <3>2 DEF Unpaid
  <2> QED
    BY <2>2, <2>3, <2>4
<1>11. windows' = [k \in Ents |-> windows'[k]]
  BY <1>2
<1>12. payments' \subseteq Txns /\ disputed' \subseteq Subs
  BY <1>1 DEF IInv, TypeOK
<1>13. Commits(w, n)
  BY <1>1, <1>6, <1>7, <1>8, <1>9, <1>10, <1>11, <1>12 DEF Commits
<1>14. KeepsGrade(w, n)
  BY <1>7, <1>10 DEF KeepsGrade
<1> QED
  BY <1>1, <1>6, <1>7, <1>9, <1>13, <1>14, ActiveCloses DEF Effect

\* A failed renewal of NMI: another attempt, no period to retry for, or the end.
LEMMA AfterFailureRow ==
  ASSUME NEW s \in NMISubs, NEW r \in Row, Sound(s, r), AfterFailure(r).nextRetry <= Horizon,
         now \in 0..Horizon, now - 1 \in 0..Horizon
  PROVE  LET n == AfterFailure(r)
         IN  /\ n \in Row /\ n.product = r.product /\ n.status \in {"past_due", "cancelled"}
             /\ Sound(s, n) /\ (Blamed(n) => Blamed(r))
             /\ n.status = "cancelled" /\ n.endedAt = Null => n.pend = Null \/ n.pend > now
<1> DEFINE Good(n) == /\ n \in Row /\ n.product = r.product /\ n.status \in {"past_due", "cancelled"}
                      /\ Sound(s, n) /\ (Blamed(n) => Blamed(r))
                      /\ n.status = "cancelled" /\ n.endedAt = Null => n.pend = Null \/ n.pend > now
           M == MaxDunningFailures
<1>1. /\ Null \in Time /\ now \in Time /\ now - 1 \in Time /\ now # Null /\ now - 1 # Null
      /\ "expired" \in CancelType /\ "past_due" \in Status /\ "cancelled" \in Status
      /\ M \in 0..M /\ M >= M
  BY LifecycleAssumption, TimelineAssumption DEF Time, Null, CancelType, Status
<1>2. r.attempts \in 0..M /\ r.pend \in Time /\ r.endedAt \in Time /\ r.pend \in Int
  BY TimelineAssumption DEF Row, Time, Null
<1>3. CASE DunningMode = "off"
  <2> DEFINE n == [r EXCEPT !.status = "cancelled", !.endedAt = now]
  <2>1. /\ n.product = r.product /\ n.status = "cancelled" /\ n.endedAt = now
        /\ n.ctype = r.ctype /\ n.noted = r.noted
    BY DEF Row
  <2>2. n \in Row
    BY <1>1 DEF Row
  <2> HIDE DEF n
  <2>3. Good(n)
    BY <1>1, <2>1, <2>2 DEF Sound, Blamed
  <2> QED
    BY <1>3, <2>3 DEF AfterFailure, n
<1>4. CASE DunningMode # "off" /\ r.attempts + 1 < M
  <2> DEFINE a == r.attempts + 1
             d == now + DunningInterval
             n == [r EXCEPT !.status = "past_due", !.attempts = a, !.nextRetry = d]
  <2>1. AfterFailure(r) = n
    BY <1>4 DEF AfterFailure
  <2>2. n.nextRetry = d
    BY DEF Row
  <2>3. d <= Horizon
    BY <2>1, <2>2
  <2>4. a \in 0..M /\ ~(a >= M) /\ d \in Time /\ d # Null
    BY <1>2, <1>4, <2>3, LifecycleAssumption, TimelineAssumption DEF Time, Null
  <2> HIDE DEF a, d
  <2>5. /\ n.product = r.product /\ n.status = "past_due" /\ n.attempts = a
        /\ n.ctype = r.ctype /\ n.noted = r.noted
    BY DEF Row
  <2>6. n \in Row
    BY <1>1, <2>4 DEF Row
  <2> HIDE DEF n
  <2>7. Good(n)
    BY <2>2, <2>4, <2>5, <2>6 DEF Sound, Blamed
  <2> QED
    BY <2>1, <2>7
<1>5. CASE DunningMode # "off" /\ ~(r.attempts + 1 < M) /\ r.pend = Null
  <2> DEFINE n == [r EXCEPT !.status = "past_due", !.attempts = M]
  <2>1. /\ n.product = r.product /\ n.status = "past_due" /\ n.attempts = M
        /\ n.ctype = r.ctype /\ n.noted = r.noted /\ n.pend = r.pend
    BY DEF Row
  <2>2. n \in Row
    BY <1>1 DEF Row
  <2> HIDE DEF n
  <2>3. Good(n)
    BY <1>1, <1>5, <2>1, <2>2 DEF Sound, Blamed
  <2> QED
    BY <1>5, <2>3 DEF AfterFailure, n
<1>6. CASE DunningMode # "off" /\ ~(r.attempts + 1 < M) /\ r.pend # Null /\ r.pend <= now
  <2> DEFINE m == Cancelled(r, "expired", now - 1)
             n == [m EXCEPT !.pstart = Null, !.pend = Null, !.noted = FALSE, !.attempts = M]
  <2>1. /\ m \in Row /\ m.status = "cancelled" /\ m.product = r.product /\ m.ctype = "expired"
        /\ m.endedAt = now - 1
    BY <1>1, CancelledRow
  <2>2. AfterFailure(r) = n
    BY <1>6 DEF AfterFailure
  <2> HIDE DEF m
  <2>3. /\ n.product = m.product /\ n.status = m.status /\ n.ctype = m.ctype
        /\ n.noted = FALSE /\ n.endedAt = m.endedAt
    BY <2>1 DEF Row
  <2>4. n \in Row
    BY <1>1, <2>1 DEF Row
  <2> HIDE DEF n
  <2>5. Good(n)
    BY <1>1, <2>1, <2>3, <2>4 DEF Sound, Blamed
  <2> QED
    BY <2>2, <2>5
<1>7. CASE DunningMode # "off" /\ ~(r.attempts + 1 < M) /\ r.pend # Null /\ ~(r.pend <= now)
  <2> DEFINE m == Cancelled(r, "expired", r.endedAt)
             n == [m EXCEPT !.noted = FALSE, !.attempts = M]
  <2>1. /\ m \in Row /\ m.status = "cancelled" /\ m.product = r.product /\ m.ctype = "expired"
        /\ m.pend = r.pend
    <3>1. PICK ended \in Time : ended = r.endedAt
      BY <1>2
    <3>2. LET x == Cancelled(r, "expired", ended)
          IN  /\ x \in Row /\ x.status = "cancelled" /\ x.product = r.product
              /\ x.ctype = "expired" /\ x.pend = r.pend
      BY <1>1, CancelledRow
    <3> QED
      BY <3>1, <3>2
  <2>2. AfterFailure(r) = n
    BY <1>7 DEF AfterFailure
  <2> HIDE DEF m
  <2>3. /\ n.product = m.product /\ n.status = m.status /\ n.ctype = m.ctype
        /\ n.noted = FALSE /\ n.pend = m.pend
    BY <2>1 DEF Row
  <2>4. n \in Row
    BY <1>1, <2>1 DEF Row
  <2> HIDE DEF n
  <2>5. n.pend > now
    BY <1>2, <1>7, <2>1, <2>3
  <2>6. Good(n)
    BY <2>1, <2>3, <2>4, <2>5 DEF Sound, Blamed
  <2> QED
    BY <2>2, <2>6
<1> QED
  BY <1>3, <1>4, <1>5, <1>6, <1>7

\* A declined charge of NMI.
LEMMA FailMembershipEffect ==
  ASSUME IInv, NEW w \in Workers, tx[w] # NoTx, tx[w].sub \in NMISubs, FailMembership(w)
  PROVE  Effect(w)
<1> DEFINE s == tx[w].sub
           r == tx[w].row
           n == AfterFailure(r)
<1>1. /\ s \in Subs /\ r \in Row /\ Sound(s, r) /\ now \in 0..Horizon /\ now - 1 \in 0..Horizon
  BY SnapshotType, ClockType
<1>2. /\ r.status # "none" /\ n.nextRetry <= Horizon /\ Save(w, n) /\ now' = now
      /\ SetWindows(WindowsAfterFailure(s, n))
      /\ payments' = payments /\ disputed' = disputed /\ disputed' \subseteq Subs
  BY DEF FailMembership, IInv, TypeOK
<1>3. /\ n \in Row /\ n.product = r.product /\ n.status \in {"past_due", "cancelled"}
      /\ Sound(s, n) /\ (Blamed(n) => Blamed(r))
      /\ n.status = "cancelled" /\ n.endedAt = Null => n.pend = Null \/ n.pend > now
  BY <1>1, <1>2, AfterFailureRow
<1> HIDE DEF n
<1>4. /\ windows' = [k \in Ents |-> windows'[k]] /\ \A k \in Ents : Unpaid(w, k)
      /\ n.status = "cancelled" /\ ~KeepEntitlements => \A k \in Ents : Ends(w, k)
  <2>1. CASE n.status = "cancelled" /\ KeepEntitlements
    <3>1. windows' = windows
      BY <1>2, <2>1 DEF SetWindows, WindowsAfterFailure
    <3> QED
      BY <2>1, <3>1, WindowsStay
  <2>2. CASE n.status = "cancelled" /\ ~KeepEntitlements
    <3>1. SetWindows(RevokedFrom({Paid(s), Grace(s)}))
      BY <1>2, <2>2 DEF WindowsAfterFailure
    <3> QED
      BY <3>1, WindowsRevoked
  <2>3. CASE n.status # "cancelled"
    <3> DEFINE names == {k \in Ents : ExistsBySource(windows[k], Paid(s))}
    <3>1. SetWindows(WithGrace(s, names, n.pend, n.nextRetry))
      BY <1>2, <2>3 DEF WindowsAfterFailure
    <3>2. n.pend \in Time /\ n.nextRetry \in Int
      BY <1>3, TimelineAssumption DEF Row, Time, Null
    <3> HIDE DEF names
    <3>3. PICK pend \in Time, until \in Int : pend = n.pend /\ until = n.nextRetry
      BY <3>2
    <3>4. SetWindows(WithGrace(s, names, pend, until)) /\ until <= Horizon
      BY <1>2, <3>1, <3>3
    <3> QED
      BY <2>3, <3>4, WindowsGraced
  <2> QED
    BY <2>1, <2>2, <2>3
<1>5. Commits(w, n)
  BY <1>2, <1>3, <1>4, CommitsUnpaid
<1>6. KeepsBlame(w, n)
  BY <1>3, <1>4 DEF KeepsBlame
<1>7. ~KeepEntitlements => Closes(w, n)
  BY <1>3, <1>4 DEF Closes, Terminal
<1> QED
  BY <1>2, <1>3, <1>4, <1>5, <1>6, <1>7, UnpaidKeepsGrade DEF Effect

\* Every transaction of CCBill's webhooks has its effect, or none.
LEMMA CCBillEffect ==
  ASSUME IInv, NEW w \in Workers, tx[w] # NoTx, HandleCCBillWebhook(w)
  PROVE  Effect(w) \/ LogOnly(w)
<1>1. ASSUME NEW t \in Txns, NEW date \in Dates \cup {Null}, HandleNewSaleSuccess(w, t, date)
      PROVE  Effect(w)
  <2>1. {t} \in SUBSET Txns /\ CreateMembership(w, {t}, date)
    BY <1>1 DEF HandleNewSaleSuccess
  <2> QED
    BY <2>1, CreateMembershipEffect
<1>2. ASSUME NEW t \in Txns, NEW date \in Dates \cup {Null}, HandleRenewalSuccess(w, t, date)
      PROVE  Effect(w)
  BY <1>2, RenewMembershipEffect DEF HandleRenewalSuccess
<1>3. ASSUME NEW date \in Dates \cup {Null}, HandleRenewalFailure(w, date)
      PROVE  Effect(w)
  BY <1>3, HandleRenewalFailureEffect
<1>4. ASSUME NEW t \in Txns, NEW p \in Products, HandleUpgradeSuccess(w, t, p)
      PROVE  Effect(w)
  BY <1>4, HandleUpgradeSuccessEffect
<1>5. CASE HandleUpgradeFailure(w) \/ HandleCustomerDataUpdate(w) \/ HandleVoid(w)
  BY <1>5 DEF HandleUpgradeFailure, HandleCustomerDataUpdate, HandleVoid
<1>6. CASE HandleCancel(w)
  <2>1. PICK ct \in {"merchant", "expired"}, noted \in BOOLEAN : CancelMembership(w, ct, noted, FALSE)
    BY <1>6 DEF HandleCancel
  <2>2. ct \in CancelType /\ ct # "chargeback" /\ FALSE \in BOOLEAN /\ tx[w].sub \notin NMISubs
    BY <1>6 DEF CancelType, HandleCancel
  <2> QED
    BY <2>1, <2>2, CancelMembershipEffect
<1>7. CASE HandleExpiration(w)
  BY <1>7, ExpireMembershipEffect DEF HandleExpiration
<1>8. ASSUME NEW date \in Dates,
             HandleUserReactivation(w, date) \/ HandleBillingDateChange(w, date)
      PROVE  Effect(w)
  BY <1>8, ReactivateMembershipEffect, HandleBillingDateChangeEffect DEF HandleUserReactivation
<1>9. ASSUME NEW terminate \in BOOLEAN, HandleRefund(w, terminate)
      PROVE  Effect(w)
  BY <1>9, HandleRefundEffect
<1>10. CASE HandleChargeback(w)
  BY <1>10, HandleChargebackEffect
<1> QED
  BY <1>1, <1>2, <1>3, <1>4, <1>5, <1>6, <1>7, <1>8, <1>9, <1>10 DEF HandleCCBillWebhook

\* So has every transaction of NMI's.
LEMMA NMIEffect ==
  ASSUME IInv, NEW w \in Workers, tx[w] # NoTx, HandleNMIWebhook(w)
  PROVE  Effect(w) \/ LogOnly(w)
<1> USE DEF CancelType
<1>1. CASE HandleAddSubscription(w)
  <2>1. {} \in SUBSET Txns /\ Null \in Dates \cup {Null} /\ CreateMembership(w, {}, Null)
    BY <1>1 DEF HandleAddSubscription
  <2> QED
    BY <2>1, CreateMembershipEffect
<1>2. ASSUME NEW t \in Txns, HandleTransactionSaleSuccess(w, t)
      PROVE  Effect(w)
  <2>1. /\ {t} \in SUBSET Txns /\ Null \in Dates \cup {Null}
        /\ CreateMembership(w, {t}, Null) \/ RenewMembership(w, t, Null)
    BY <1>2 DEF HandleTransactionSaleSuccess, RenewFromCharge
  <2> QED
    BY <2>1, CreateMembershipEffect, RenewMembershipEffect
<1>3. CASE HandleTransactionSaleFailure(w)
  BY <1>3, FailMembershipEffect DEF HandleTransactionSaleFailure
<1>4. CASE HandleDeleteSubscription(w)
  <2>1. CancelMembership(w, "merchant", FALSE, FALSE) /\ "merchant" \in CancelType /\ FALSE \in BOOLEAN
    BY <1>4 DEF HandleDeleteSubscription
  <2> QED
    BY <2>1, CancelMembershipEffect
<1>5. CASE HandleRefundSuccess(w)
  <2>1. CancelMembership(w, "merchant", FALSE, TRUE) /\ "merchant" \in CancelType /\ {TRUE, FALSE} \subseteq BOOLEAN
    BY <1>5 DEF HandleRefundSuccess
  <2> QED
    BY <2>1, CancelMembershipEffect
<1>6. CASE HandleChargebackComplete(w)
  <2>1. CancelMembership(w, "chargeback", TRUE, TRUE) /\ "chargeback" \in CancelType /\ TRUE \in BOOLEAN
    BY <1>6 DEF HandleChargebackComplete
  <2> QED
    BY <2>1, CancelMembershipEffect
<1>7. CASE \/ HandleUpdateSubscription(w) \/ HandleACUEvent(w) \/ HandleRefundFailure(w)
           \/ HandleVoidSuccess(w) \/ HandleVoidFailure(w)
  BY <1>7 DEF HandleUpdateSubscription, HandleACUEvent, HandleRefundFailure, HandleVoidSuccess,
              HandleVoidFailure
<1> QED
  BY <1>1, <1>2, <1>3, <1>4, <1>5, <1>6, <1>7 DEF HandleNMIWebhook

\* Every transaction that commits has its effect, or none.
LEMMA CommitEffect ==
  ASSUME IInv, NEW w \in Workers, tx[w] # NoTx, Commit(w)
  PROVE  Effect(w) \/ LogOnly(w)
<1>1. ASSUME NEW p \in Products, TierChange(w, p)
      PROVE  Effect(w) \/ LogOnly(w)
  <2>1. LogOnly(w) \/ (tx[w].row.status # "none" /\ ProcessDowngrade(w, p))
    BY <1>1 DEF TierChange, ProcessTierChangeNMI, ProcessTierChangeCCBill, ProcessUpgrade,
                ProcessCCBillUpgrade
  <2> QED
    BY <2>1, ProcessDowngradeEffect
<1> QED
  BY <1>1, CCBillEffect, NMIEffect DEF Commit

-----------------------------------------------------------------------------
(* What holds in general.                                                  *)

\* The row, the snapshots and the timelines after a transaction.
LEMMA Committed ==
  ASSUME IInv, NEW w \in Workers, tx[w] # NoTx, NEW n, Commits(w, n)
  PROVE  /\ tx[w].sub \in Subs
         /\ sub' = [sub EXCEPT ![tx[w].sub] = n]
         /\ \A q \in Subs : sub'[q] = IF q = tx[w].sub THEN n ELSE sub[q]
         /\ tx' = [tx EXCEPT ![w] = NoTx]
         /\ \A v \in Workers : tx'[v] = IF v = w THEN NoTx ELSE tx[v]
         /\ \A q \in Subs, k \in Ents : q # tx[w].sub =>
               \A t : Over(windows[k], q, t) => Over(windows'[k], q, t)
<1>1. /\ tx[w].sub \in Subs /\ sub' = [sub EXCEPT ![tx[w].sub] = n]
      /\ tx' = [tx EXCEPT ![w] = NoTx]
  BY SnapshotType DEF Commits, Save
<1>2. ASSUME NEW q \in Subs, NEW k \in Ents, NEW t, q # tx[w].sub, Over(windows[k], q, t)
      PROVE  Over(windows'[k], q, t)
  <2>1. Paid(q) \notin {Paid(tx[w].sub), Grace(tx[w].sub)}
    BY <1>2, SourcesDiffer
  <2>2. /\ TimelineOK(windows[k])
        /\ Evolves(windows[k], windows'[k], {Paid(tx[w].sub), Grace(tx[w].sub)})
    BY DEF IInv, Commits
  <2> QED
    BY <1>2, <2>1, <2>2, OverStays
<1> QED
  BY <1>1, <1>2 DEF IInv, TypeOK

\* A transaction keeps the invariant.
LEMMA CommitsKeeps ==
  ASSUME IInv, NEW w \in Workers, tx[w] # NoTx, NEW n, Commits(w, n)
  PROVE  IInv'
<1> DEFINE s == tx[w].sub
<1>1. /\ s \in Subs /\ sub' = [sub EXCEPT ![s] = n]
      /\ \A q \in Subs : sub'[q] = IF q = s THEN n ELSE sub[q]
      /\ tx' = [tx EXCEPT ![w] = NoTx]
      /\ \A v \in Workers : tx'[v] = IF v = w THEN NoTx ELSE tx[v]
  BY Committed
<1>2. /\ n \in Row /\ n.status # "none" /\ Sound(s, n) /\ RowChecks(n) /\ UniqueOpen(s, n)
      /\ now' = now /\ payments' \subseteq Txns /\ disputed' \subseteq Subs
      /\ windows' = [k \in Ents |-> windows'[k]]
      /\ \A k \in Ents : Evolves(windows[k], windows'[k], {Paid(s), Grace(s)})
  BY DEF Commits, Save, Accepted
<1>3. \A k \in Ents : TimelineOK(windows'[k]) /\ windows'[k] \in Seq(Window)
  BY <1>2 DEF Evolves, TimelineOK
<1>4. TypeOK'
  BY <1>1, <1>2, <1>3 DEF IInv, TypeOK
<1>5. (\A q \in Subs : Sound(q, sub[q]) /\ RowChecks(sub[q]))'
  <2> SUFFICES ASSUME NEW q \in Subs PROVE Sound(q, sub'[q]) /\ RowChecks(sub'[q])
    BY DEF Sound, RowChecks
  <2> QED
    BY <1>1, <1>2 DEF IInv
<1>6. (\A v \in Workers : tx[v] # NoTx => Sound(tx[v].sub, tx[v].row))'
  BY <1>1 DEF IInv
<1>7. ASSUME NEW p \in Subs, NEW q \in Subs, p # q,
             sub'[p].status = "active", sub'[q].status = "active"
      PROVE  FALSE
  BY <1>1, <1>2, <1>7 DEF UniqueOpen, IInv
<1>8. ASSUME NEW q \in Subs, NEW k \in Ents, sub'[q].status = "none",
             NEW i \in 1..Len(windows'[k])
      PROVE  windows'[k][i].src # Paid(q)
  <2>1. q # s /\ sub[q].status = "none"
    BY <1>1, <1>2, <1>8
  <2>2. Paid(q) \notin {Paid(s), Grace(s)}
    BY <2>1, SourcesDiffer
  <2>3. /\ Len(windows[k]) \in Nat /\ Len(windows'[k]) \in Nat
        /\ \A j \in 1..Len(windows[k]) : windows[k][j].src # Paid(q)
    BY <1>3, <2>1 DEF IInv, TypeOK
  <2>4. CASE i \in 1..Len(windows[k])
    BY <1>2, <2>3, <2>4 DEF Evolves, OnlyEnds
  <2>5. CASE i > Len(windows[k])
    BY <1>2, <2>2, <2>5, <1>8 DEF Evolves, Adds
  <2> QED
    BY <2>3, <2>4, <2>5
<1> QED
  BY <1>3, <1>4, <1>5, <1>6, <1>7, <1>8 DEF IInv

\* The initial states satisfy the invariant.
LEMMA InitIInv == Init => IInv
<1> SUFFICES ASSUME Init PROVE IInv
  OBVIOUS
<1>1. ASSUME NEW s \in Subs
      PROVE  NoRow(s) \in Row /\ Sound(s, NoRow(s)) /\ RowChecks(NoRow(s))
  <2>1. 0 \in 0..MaxDunningFailures /\ Null \in Time /\ ProductOf[s] \in Products
    BY LifecycleAssumption DEF Time
  <2>2. NoRow(s) \in Row
    BY <2>1 DEF NoRow, Row, Status, CancelType
  <2> QED
    BY <2>2 DEF NoRow, Sound, RowChecks
<1>2. TypeOK
  BY <1>1, LifecycleAssumption DEF Init, TypeOK
<1>3. TimelineOK(<<>>)
  BY DEF TimelineOK, WindowsNonEmptyIn, OrderedIn, LiveWindows
<1>4. \A s \in Subs : sub[s] = NoRow(s) /\ sub[s].status = "none"
  BY DEF Init, NoRow
<1>5. \A k \in Ents : windows[k] = <<>> /\ Len(windows[k]) = 0
  BY DEF Init
<1>6. \A w \in Workers : tx[w] = NoTx
  BY DEF Init
<1> QED
  BY <1>1, <1>2, <1>3, <1>4, <1>5, <1>6 DEF IInv

\* A step that leaves the rows, the windows and the snapshots alone.
LEMMA OthersKeep ==
  ASSUME IInv, now' \in 1..MaxTime, payments' \subseteq Txns,
         UNCHANGED <<sub, windows, disputed>>, tx' \in [Workers -> Tx \cup {NoTx}],
         \A v \in Workers : tx'[v] # NoTx => Sound(tx'[v].sub, tx'[v].row)
  PROVE  IInv'
  BY DEF IInv, TypeOK, RowChecks, Sound, TimelineOK

\* A transaction begins with the row as it is.
LEMMA BeginKeeps ==
  ASSUME IInv, NEW w \in Workers, NEW s \in Subs, Begin(w, s)
  PROVE  IInv'
<1> DEFINE t == [sub |-> s, row |-> sub[s]]
<1>1. t \in Tx /\ Sound(t.sub, t.row)
  BY DEF IInv, TypeOK, Tx
<1> HIDE DEF t
<1>2. /\ tx' = [tx EXCEPT ![w] = t] /\ UNCHANGED <<now, sub, windows, payments, disputed>>
  BY DEF Begin, t
<1>3. tx' \in [Workers -> Tx \cup {NoTx}]
  BY <1>1, <1>2 DEF IInv, TypeOK
<1>4. \A v \in Workers : tx'[v] # NoTx => Sound(tx'[v].sub, tx'[v].row)
  BY <1>1, <1>2 DEF IInv, TypeOK
<1> QED
  BY <1>2, <1>3, <1>4, OthersKeep DEF IInv, TypeOK

\* One ends without an effect.
LEMMA LogOnlyKeeps ==
  ASSUME IInv, NEW w \in Workers, LogOnly(w)
  PROVE  IInv'
<1>1. tx' \in [Workers -> Tx \cup {NoTx}]
  BY DEF LogOnly, IInv, TypeOK
<1>2. \A v \in Workers : tx'[v] # NoTx => Sound(tx'[v].sub, tx'[v].row)
  BY DEF LogOnly, IInv, TypeOK
<1> QED
  BY <1>1, <1>2, OthersKeep DEF LogOnly, IInv, TypeOK

\* Checkout inserts a pending row.
LEMMA CreatePendingKeeps ==
  ASSUME IInv, NEW s \in Subs, CreatePending(s)
  PROVE  IInv'
<1> DEFINE n == [sub[s] EXCEPT !.status = "pending"]
<1>1. /\ sub[s].status = "none" /\ RowChecks(n)
      /\ UNCHANGED <<now, windows, payments, tx, disputed>>
  BY DEF CreatePending, Accepted
<1>2. /\ sub' = [sub EXCEPT ![s] = n]
  BY DEF CreatePending
<1>3. sub[s] \in Row /\ Sound(s, sub[s])
  BY DEF IInv, TypeOK
<1>4. n.status = "pending" /\ n.attempts = sub[s].attempts
  BY <1>3 DEF Row
<1>5. n \in Row
  BY <1>3 DEF Row, Status
<1> HIDE DEF n
<1>6. Sound(s, n)
  BY <1>3, <1>4, NotPastDueSound
<1>7. \A q \in Subs : sub'[q] = IF q = s THEN n ELSE sub[q]
  BY <1>2 DEF IInv, TypeOK
<1>8. TypeOK'
  BY <1>1, <1>2, <1>5 DEF IInv, TypeOK
<1>9. (\A q \in Subs : Sound(q, sub[q]) /\ RowChecks(sub[q]))'
  <2> SUFFICES ASSUME NEW q \in Subs PROVE Sound(q, sub'[q]) /\ RowChecks(sub'[q])
    BY DEF Sound, RowChecks
  <2> QED
    BY <1>1, <1>6, <1>7 DEF IInv
<1>10. (\A v \in Workers : tx[v] # NoTx => Sound(tx[v].sub, tx[v].row))'
  BY <1>1 DEF IInv
<1>11. \A p, q \in Subs : p # q => ~(sub'[p].status = "active" /\ sub'[q].status = "active")
  BY <1>4, <1>7 DEF IInv
<1>12. \A q \in Subs, k \in Ents : sub'[q].status = "none" =>
          \A i \in 1..Len(windows'[k]) : windows'[k][i].src # Paid(q)
  BY <1>1, <1>4, <1>7 DEF IInv
<1>13. \A k \in Ents : TimelineOK(windows'[k])
  BY <1>1 DEF IInv
<1> QED
  BY <1>8, <1>9, <1>10, <1>11, <1>12, <1>13 DEF IInv

\* What a step of the lifecycle is: a transaction with an effect, or one of the steps that
\* leave the timelines and all existing rows alone.
LEMMA Steps ==
  ASSUME IInv, [Next]_vars
  PROVE  \/ \E w \in Workers : tx[w] # NoTx /\ Effect(w)
         \/ \E s \in Subs : CreatePending(s)
         \/ \E w \in Workers : LogOnly(w) \/ \E s \in Subs : Begin(w, s)
         \/ UNCHANGED <<sub, windows, tx, disputed>> /\ now' \in {now, now + 1}
               /\ now' \in 1..MaxTime /\ payments' \subseteq Txns
<1>1. CASE Tick
  BY <1>1, LifecycleAssumption DEF Tick, IInv, TypeOK
<1>2. ASSUME NEW s \in Subs, NEW t \in Txns, RecordDeclined(s, t)
      PROVE  UNCHANGED <<sub, windows, tx, disputed>> /\ now' \in {now, now + 1}
               /\ now' \in 1..MaxTime /\ payments' \subseteq Txns
  BY <1>2 DEF RecordDeclined, IInv, TypeOK
<1>3. ASSUME NEW w \in Workers, tx[w] # NoTx, Commit(w) \/ Rollback(w)
      PROVE  Effect(w) \/ LogOnly(w)
  BY <1>3, CommitEffect DEF Rollback, LogOnly
<1>4. CASE UNCHANGED vars
  BY <1>4 DEF vars, IInv, TypeOK
<1> QED
  BY <1>1, <1>2, <1>3, <1>4 DEF Next

\* Every step keeps the invariant, and the windows that are there.
LEMMA NextIInv ==
  ASSUME IInv, [Next]_vars
  PROVE  IInv' /\ \A k \in Ents : OnlyEnds(windows[k], windows'[k])
<1>1. ASSUME windows' = windows PROVE \A k \in Ents : OnlyEnds(windows[k], windows'[k])
  BY <1>1, Stays DEF IInv, Evolves
<1>2. ASSUME NEW w \in Workers, tx[w] # NoTx, Effect(w)
      PROVE  IInv' /\ \A k \in Ents : OnlyEnds(windows[k], windows'[k])
  <2>1. PICK n : Commits(w, n)
    BY <1>2 DEF Effect
  <2>2. \A k \in Ents : OnlyEnds(windows[k], windows'[k])
    BY <2>1 DEF Commits, Evolves
  <2> QED
    BY <1>2, <2>1, <2>2, CommitsKeeps
<1>3. ASSUME NEW s \in Subs, CreatePending(s) PROVE IInv' /\ windows' = windows
  BY <1>3, CreatePendingKeeps DEF CreatePending
<1>4. ASSUME NEW w \in Workers, LogOnly(w) PROVE IInv' /\ windows' = windows
  BY <1>4, LogOnlyKeeps DEF LogOnly
<1>5. ASSUME NEW w \in Workers, NEW s \in Subs, Begin(w, s) PROVE IInv' /\ windows' = windows
  BY <1>5, BeginKeeps DEF Begin
<1>6. ASSUME UNCHANGED <<sub, windows, tx, disputed>>, now' \in 1..MaxTime, payments' \subseteq Txns
      PROVE  IInv' /\ windows' = windows
  BY <1>6, OthersKeep DEF IInv, TypeOK
<1> QED
  BY <1>1, <1>2, <1>3, <1>4, <1>5, <1>6, Steps

\* Rows, windows, payments and snapshots keep their types.
THEOREM TypeCorrect == Spec => []TypeOK
<1>1. IInv => TypeOK
  BY DEF IInv
<1>2. IInv /\ [Next]_vars => IInv'
  BY NextIInv
<1> QED
  BY InitIInv, <1>1, <1>2, PTL DEF Spec

\* The lifecycle of a membership implements History, for any processors, products, numbers
\* of transactions under way and clocks: whatever webhooks and users do, and in whichever
\* order their transactions commit, no window is moved, extended or revived.
THEOREM ImplementsHistory == Spec => LifecycleKeepsHistory
<1>1. Init => H!Init
  BY DEF Init, H!Init
<1>2. ASSUME IInv, [Next]_vars
      PROVE  [H!Next]_windows
  <2>1. IInv' /\ \A k \in Ents : OnlyEnds(windows[k], windows'[k])
    BY <1>2, NextIInv
  <2>2. ASSUME NEW k \in Ents
        PROVE  H!OnlyEnds(windows[k], windows'[k])
    BY <2>1, <2>2 DEF OnlyEnds, H!OnlyEnds
  <2>3. ASSUME NEW k \in Ents
        PROVE  H!AddedBehind(windows'[k], Len(windows[k]))
    <3>1. OrderedIn(windows'[k])
      BY <2>1 DEF IInv, TimelineOK, OrderedIn, LiveWindows
    <3> QED
      BY <3>1 DEF OrderedIn, LiveWindows, H!AddedBehind, H!LiveWindows
  <2> QED
    BY <2>2, <2>3 DEF H!Next
<1>3. IInv /\ [Next]_vars => IInv'
  BY NextIInv
<1> QED
  BY InitIInv, <1>1, <1>2, <1>3, PTL DEF Spec, LifecycleKeepsHistory, H!Spec

\* The order of a timeline leaves nothing to find for the checks of its windows.
LEMMA TimelineChecks ==
  ASSUME IInv
  PROVE  /\ CheckInvalidTimeWindow = {} /\ CheckMultipleIndefiniteEntitlements = {}
         /\ CheckOverlappingEntitlementWindows = {}
<1>1. ASSUME NEW k \in Ents, NEW i \in Kept(k), windows[k][i].start >= windows[k][i].end
      PROVE  FALSE
  <2>1. TimelineOK(windows[k]) /\ windows[k] \in Seq(Window) /\ i \in 1..Len(windows[k])
    BY DEF IInv, Kept, TimelineOK
  <2>2. windows[k][i] \in Window
    BY <2>1
  <2> QED
    BY <1>1, <2>1, <2>2, TimelineAssumption DEF TimelineOK, WindowsNonEmptyIn, Window, Never
<1>2. ASSUME NEW k \in Ents, NEW i \in LiveWindows(windows[k]), NEW j \in LiveWindows(windows[k]),
             i < j
      PROVE  /\ ~(windows[k][j].start < windows[k][i].end)
             /\ ~(windows[k][i].end = Never)
  <2>1. /\ TimelineOK(windows[k]) /\ windows[k] \in Seq(Window)
        /\ i \in 1..Len(windows[k]) /\ j \in 1..Len(windows[k])
    BY DEF IInv, LiveWindows, TimelineOK
  <2>2. windows[k][i] \in Window /\ windows[k][j] \in Window
    BY <2>1
  <2>3. windows[k][i].end <= windows[k][j].start
    BY <1>2, <2>1 DEF TimelineOK, OrderedIn
  <2> QED
    BY <2>2, <2>3, TimelineAssumption DEF Window, Never
<1> QED
  BY <1>1, <1>2 DEF CheckInvalidTimeWindow, CheckMultipleIndefiniteEntitlements,
                    CheckOverlappingEntitlementWindows

\* The constraints of the tables leave nothing to find for the checks of rows.
LEMMA RowsPrevented ==
  ASSUME IInv
  PROVE  Prevented
<1>1. CheckMultipleActiveSubscriptions = {}
  BY DEF IInv, CheckMultipleActiveSubscriptions
<1>2. CheckCancelledWithoutMetadata = {}
  BY DEF IInv, RowChecks, CheckCancelledWithoutMetadata
<1>3. ASSUME NEW s \in Subs
      PROVE  /\ s \notin CheckInvalidPeriodDates /\ s \notin CheckEndedBeforeCancelled
  <2>1. sub[s] \in Row /\ RowChecks(sub[s])
    BY DEF IInv, TypeOK
  <2>2. /\ sub[s].pstart \in Int /\ sub[s].pend \in Int /\ sub[s].endedAt \in Int
        /\ sub[s].cancelledAt \in Int
    BY <2>1, TimelineAssumption DEF Row, Time, Null
  <2> QED
    BY <2>1, <2>2 DEF RowChecks, CheckInvalidPeriodDates, CheckEndedBeforeCancelled
<1>4. CheckInvalidPeriodDates = {} /\ CheckEndedBeforeCancelled = {}
  BY <1>3 DEF CheckInvalidPeriodDates, CheckEndedBeforeCancelled
<1> QED
  BY <1>1, <1>2, <1>4, TimelineChecks DEF Prevented

\* What the audit does not find, however transactions overlap.
AlwaysClean ==
    /\ Prevented
    /\ CheckOverlappingEntitlementWindows = {}
    /\ CheckEntitlementSourceMismatch = {}
    /\ CheckPastDueWithoutRetry \cap NMISubs = {}
    /\ \A s \in CheckStalePastDueMaxRetries : sub[s].pend = Null

\* The invariant leaves nothing of it to find.
LEMMA FindsNothing ==
  ASSUME IInv
  PROVE  AlwaysClean
<1>1. CheckEntitlementSourceMismatch = {}
  <2> SUFFICES ASSUME NEW x \in Subs \X Ents, sub[x[1]].status = "none",
                      NEW i \in Kept(x[2]), windows[x[2]][i].src = Paid(x[1])
               PROVE  FALSE
    BY DEF CheckEntitlementSourceMismatch, CheckEntitlementOrphanSource
  <2>1. x[1] \in Subs /\ x[2] \in Ents /\ i \in 1..Len(windows[x[2]])
    BY DEF Kept
  <2> QED
    BY <2>1 DEF IInv
<1>2. CheckPastDueWithoutRetry \cap NMISubs = {}
  <2> SUFFICES ASSUME NEW s \in Subs, s \in NMISubs, sub[s].status = "past_due",
                      sub[s].nextRetry = Null, sub[s].attempts < MaxDunningFailures
               PROVE  FALSE
    BY DEF CheckPastDueWithoutRetry
  <2>1. sub[s].attempts \in Int /\ MaxDunningFailures \in Int
    BY LifecycleAssumption DEF IInv, TypeOK, Row
  <2> QED
    BY <2>1 DEF IInv, Sound
<1>3. \A s \in CheckStalePastDueMaxRetries : sub[s].pend = Null
  BY DEF CheckStalePastDueMaxRetries, IInv, Sound
<1> QED
  BY <1>1, <1>2, <1>3, RowsPrevented, TimelineChecks DEF AlwaysClean

\* What registerAllChecks says cannot happen any more does not: at any number of overlapping
\* transactions with stale snapshots, for both processors and any products, the checks that
\* were taken out of the audit would find nothing; nor do those of overlapping windows, of
\* windows without a subscription and of subscriptions past due without a retry.
THEOREM AuditMostlyClean == Spec => []AlwaysClean
<1>1. IInv => AlwaysClean
  BY FindsNothing
<1>2. IInv /\ [Next]_vars => IInv'
  BY NextIInv
<1> QED
  BY InitIInv, <1>1, <1>2, PTL DEF Spec

-----------------------------------------------------------------------------
(* What holds when nobody writes back a row that has changed meanwhile:    *)
(* transactions do not overlap, or none of them writes a row without       *)
(* settling the windows.  CCBill's small refunds and new billing dates do, *)
(* and the scheduling of a downgrade.                                      *)

OneAtATime == \A v, w \in Workers : v = w
OneTier == \A p, q \in Products : TierRank[p] = TierRank[q]
OnlyNMI == NMISubs = Subs /\ ~KeepEntitlements /\ (OneTier \/ OneAtATime)

\* A snapshot is the row, or of a time before the row.
Fresh == \A w \in Workers : tx[w] # NoTx =>
            \/ tx[w].row = sub[tx[w].sub]
            \/ tx[w].row.status = "none" /\ tx[w].sub \in NMISubs

BlameInv == \A s \in Subs, k \in Ents : Blamed(sub[s]) => Over(windows[k], s, now)
GradeInv == \A s \in Subs : \A k \in Ents \ Granted(sub[s].product) : Over(windows[k], s, now)

\* Over for a chargeback, or without saying when it ended.
ClosedInv ==
    \A s \in Subs, k \in Ents :
       /\ Terminal(sub[s]) => Over(windows[k], s, now)
       /\ sub[s].status = "cancelled" /\ sub[s].endedAt = Null =>
             /\ Over(windows[k], s, now)
             /\ sub[s].pend # Null => Over(windows[k], s, sub[s].pend)

\* What is over stays over.
LEMMA OverLater ==
  ASSUME NEW ws \in Seq(Window), NEW s, NEW t \in Int, NEW u \in Int, t <= u, Over(ws, s, t)
  PROVE  Over(ws, s, u)
<1> SUFFICES ASSUME NEW i \in LiveWindows(ws), ws[i].src = Paid(s) PROVE ws[i].end <= u
  BY DEF Over
<1>1. ws[i].end \in Int /\ ws[i].end <= t
  <2>1. i \in 1..Len(ws)
    BY DEF LiveWindows
  <2>2. ws[i] \in Window
    BY <2>1
  <2> QED
    BY <2>2, TimelineAssumption DEF Over, Window, Never
<1> QED
  BY <1>1

\* Nothing paid on a timeline comes back with time.
LEMMA OverStill ==
  ASSUME IInv, windows' = windows, now' \in {now, now + 1}, NEW k \in Ents, NEW s,
         Over(windows[k], s, now)
  PROVE  Over(windows'[k], s, now')
<1>1. windows[k] \in Seq(Window) /\ now \in Int /\ now' \in Int /\ now <= now'
  BY ClockType DEF IInv, TypeOK
<1> QED
  BY <1>1, OverLater

\* What is paid and over stays so if nothing paid is added.
LEMMA UnpaidOver ==
  ASSUME IInv, NEW w, NEW k \in Ents, Unpaid(w, k), NEW t, Over(windows[k], tx[w].sub, t)
  PROVE  Over(windows'[k], tx[w].sub, t)
<1>1. Paid(tx[w].sub) \notin {Grace(tx[w].sub)} /\ TimelineOK(windows[k])
  BY SourcesDiffer DEF IInv
<1> QED
  BY <1>1, OverStays DEF Unpaid

\* One transaction at a time: its snapshot is the row.
LEMMA SnapshotIsRow ==
  ASSUME Fresh, NEW w \in Workers, tx[w] # NoTx, Effect(w)
  PROVE  tx[w].row = sub[tx[w].sub]
  BY DEF Fresh, Effect

\* Where transactions do not overlap, snapshots stay fresh.
LEMMA FreshStep ==
  ASSUME OneAtATime, IInv, Fresh, [Next]_vars
  PROVE  Fresh'
<1>1. ASSUME NEW w \in Workers, tx[w] # NoTx, Effect(w)
      PROVE  Fresh'
  <2>1. PICK n : Commits(w, n)
    BY <1>1 DEF Effect
  <2>2. \A v \in Workers : tx'[v] = NoTx
    BY <1>1, <2>1, Committed DEF OneAtATime
  <2> QED
    BY <2>2 DEF Fresh
<1>2. ASSUME NEW s \in Subs, CreatePending(s)
      PROVE  Fresh'
  <2> DEFINE n == [sub[s] EXCEPT !.status = "pending"]
  <2>1. sub[s].status = "none" /\ s \in NMISubs /\ tx' = tx /\ sub' = [sub EXCEPT ![s] = n]
    BY <1>2 DEF CreatePending
  <2> HIDE DEF n
  <2>2. \A q \in Subs : q # s => sub'[q] = sub[q]
    BY <2>1 DEF IInv, TypeOK
  <2> SUFFICES ASSUME NEW v \in Workers, tx[v] # NoTx
               PROVE  \/ tx[v].row = sub'[tx[v].sub]
                      \/ tx[v].row.status = "none" /\ tx[v].sub \in NMISubs
    BY <2>1 DEF Fresh
  <2>3. tx[v].sub \in Subs
    BY SnapshotType
  <2> QED
    BY <2>1, <2>2, <2>3 DEF Fresh
<1>3. ASSUME NEW w \in Workers, LogOnly(w)
      PROVE  Fresh'
  BY <1>3 DEF LogOnly, Fresh, IInv, TypeOK
<1>4. ASSUME NEW w \in Workers, NEW s \in Subs, Begin(w, s)
      PROVE  Fresh'
  <2> DEFINE t == [sub |-> s, row |-> sub[s]]
  <2>1. tx' = [tx EXCEPT ![w] = t] /\ sub' = sub
    BY <1>4 DEF Begin
  <2>2. t.sub = s /\ t.row = sub[s]
    OBVIOUS
  <2> HIDE DEF t
  <2> QED
    BY <2>1, <2>2 DEF Fresh, IInv, TypeOK
<1>5. ASSUME UNCHANGED <<sub, windows, tx, disputed>>
      PROVE  Fresh'
  BY <1>5 DEF Fresh
<1> QED
  BY <1>1, <1>2, <1>3, <1>4, <1>5, Steps

\* A chargeback in a row means that nothing paid is left.
LEMMA BlameStep ==
  ASSUME IInv, Fresh, BlameInv, [Next]_vars
  PROVE  BlameInv'
<1>1. ASSUME NEW w \in Workers, tx[w] # NoTx, Effect(w)
      PROVE  BlameInv'
  <2>1. PICK n : Commits(w, n) /\ KeepsBlame(w, n)
    BY <1>1 DEF Effect
  <2>2. /\ tx[w].sub \in Subs /\ now' = now /\ tx[w].row = sub[tx[w].sub]
        /\ \A q \in Subs : sub'[q] = IF q = tx[w].sub THEN n ELSE sub[q]
        /\ \A q \in Subs, k \in Ents : q # tx[w].sub =>
              \A t : Over(windows[k], q, t) => Over(windows'[k], q, t)
    BY <1>1, <2>1, Committed, SnapshotIsRow DEF Commits
  <2> SUFFICES ASSUME NEW q \in Subs, NEW k \in Ents, Blamed(sub'[q])
               PROVE  Over(windows'[k], q, now)
    BY <2>2 DEF BlameInv, Over, Blamed
  <2>3. CASE q # tx[w].sub
    BY <2>2, <2>3 DEF BlameInv
  <2>4. CASE q = tx[w].sub /\ Blamed(sub[q]) /\ Unpaid(w, k)
    <3>1. Over(windows[k], tx[w].sub, now)
      BY <2>2, <2>4 DEF BlameInv
    <3> QED
      BY <2>4, <3>1, UnpaidOver
  <2>5. CASE q = tx[w].sub /\ Ends(w, k)
    BY <2>5 DEF Ends
  <2> QED
    BY <2>1, <2>2, <2>3, <2>4, <2>5 DEF KeepsBlame
<1>2. ASSUME NEW s \in Subs, CreatePending(s)
      PROVE  BlameInv'
  <2> DEFINE n == [sub[s] EXCEPT !.status = "pending"]
  <2>1. windows' = windows /\ now' = now /\ sub' = [sub EXCEPT ![s] = n]
    BY <1>2 DEF CreatePending
  <2>2. n.ctype = sub[s].ctype /\ n.noted = sub[s].noted
    BY DEF IInv, TypeOK, Row
  <2> HIDE DEF n
  <2>3. \A q \in Subs : sub'[q].ctype = sub[q].ctype /\ sub'[q].noted = sub[q].noted
    BY <2>1, <2>2 DEF IInv, TypeOK
  <2> QED
    BY <2>1, <2>3 DEF BlameInv, Blamed, Over
<1>3. ASSUME UNCHANGED <<sub, windows>>, now' \in {now, now + 1}
      PROVE  BlameInv'
  <2> SUFFICES ASSUME NEW q \in Subs, NEW k \in Ents, Blamed(sub[q])
               PROVE  Over(windows'[k], q, now')
    BY <1>3 DEF BlameInv, Over, Blamed
  <2> QED
    BY <1>3, OverStill DEF BlameInv
<1> QED
  BY <1>1, <1>2, <1>3, Steps DEF LogOnly, Begin

\* What the product of a row does not grant is not paid for.
LEMMA GradeStep ==
  ASSUME Specified, IInv, Fresh, GradeInv, [Next]_vars
  PROVE  GradeInv'
<1>1. ASSUME NEW w \in Workers, tx[w] # NoTx, Effect(w)
      PROVE  GradeInv'
  <2>1. PICK n : Commits(w, n) /\ KeepsGrade(w, n)
    BY <1>1 DEF Effect
  <2>2. /\ tx[w].sub \in Subs /\ now' = now /\ tx[w].row = sub[tx[w].sub]
        /\ \A q \in Subs : sub'[q] = IF q = tx[w].sub THEN n ELSE sub[q]
        /\ \A q \in Subs, k \in Ents : q # tx[w].sub =>
              \A t : Over(windows[k], q, t) => Over(windows'[k], q, t)
    BY <1>1, <2>1, Committed, SnapshotIsRow DEF Commits
  <2> SUFFICES ASSUME NEW q \in Subs, NEW k \in Ents, k \notin Granted(sub'[q].product)
               PROVE  Over(windows'[k], q, now)
    BY <2>2 DEF GradeInv, Over, Granted
  <2>3. CASE q # tx[w].sub
    BY <2>2, <2>3 DEF GradeInv
  <2>4. CASE q = tx[w].sub /\ Unpaid(w, k) /\ k \notin Granted(sub[q].product)
    <3>1. Over(windows[k], tx[w].sub, now)
      BY <2>2, <2>4 DEF GradeInv
    <3> QED
      BY <2>4, <3>1, UnpaidOver
  <2>5. CASE q = tx[w].sub /\ Ends(w, k)
    BY <2>5 DEF Ends
  <2> QED
    BY <2>1, <2>2, <2>3, <2>4, <2>5 DEF KeepsGrade
<1>2. ASSUME NEW s \in Subs, CreatePending(s)
      PROVE  GradeInv'
  <2> DEFINE n == [sub[s] EXCEPT !.status = "pending"]
  <2>1. windows' = windows /\ now' = now /\ sub' = [sub EXCEPT ![s] = n]
    BY <1>2 DEF CreatePending
  <2>2. n.product = sub[s].product
    BY DEF IInv, TypeOK, Row
  <2> HIDE DEF n
  <2>3. \A q \in Subs : sub'[q].product = sub[q].product
    BY <2>1, <2>2 DEF IInv, TypeOK
  <2> QED
    BY <2>1, <2>3 DEF GradeInv, Granted, Over
<1>3. ASSUME UNCHANGED <<sub, windows>>, now' \in {now, now + 1}
      PROVE  GradeInv'
  <2> SUFFICES ASSUME NEW q \in Subs, NEW k \in Ents \ Granted(sub[q].product)
               PROVE  Over(windows'[k], q, now')
    BY <1>3 DEF GradeInv, Over, Granted
  <2> QED
    BY <1>3, OverStill DEF GradeInv
<1> QED
  BY <1>1, <1>2, <1>3, Steps DEF LogOnly, Begin

\* A subscription of NMI that is over has nothing paid left, unless the row says when it ended.
LEMMA ClosedStep ==
  ASSUME OnlyNMI, IInv, OneAtATime => Fresh, ClosedInv, [Next]_vars
  PROVE  ClosedInv'
<1> DEFINE Closed(r, ws, s) ==
             /\ Terminal(r) => Over(ws, s, now)
             /\ r.status = "cancelled" /\ r.endedAt = Null =>
                   Over(ws, s, now) /\ (r.pend # Null => Over(ws, s, r.pend))
<1>1. ASSUME NEW w \in Workers, tx[w] # NoTx, Effect(w)
      PROVE  ClosedInv'
  <2>1. PICK n : Commits(w, n) /\ (tx[w].sub \in NMISubs => Schedules(w, n) \/ Closes(w, n))
    BY <1>1 DEF Effect, OnlyNMI
  <2>2. /\ tx[w].sub \in Subs /\ now' = now
        /\ \A q \in Subs : sub'[q] = IF q = tx[w].sub THEN n ELSE sub[q]
        /\ \A q \in Subs, k \in Ents : q # tx[w].sub =>
              \A t : Over(windows[k], q, t) => Over(windows'[k], q, t)
    BY <1>1, <2>1, Committed DEF Commits
  <2> SUFFICES ASSUME NEW q \in Subs, NEW k \in Ents
               PROVE  Closed(sub'[q], windows'[k], q)
    BY <2>2 DEF ClosedInv, Over, Terminal
  <2>3. CASE q # tx[w].sub
    BY <2>2, <2>3 DEF ClosedInv
  <2>4. CASE q = tx[w].sub /\ Schedules(w, n)
    <3>1. PICK p \in Products : /\ TierRank[p] < TierRank[tx[w].row.product]
                                /\ n = [tx[w].row EXCEPT !.scheduled = p]
      BY <2>4 DEF Schedules
    <3>2. tx[w].row \in Row /\ tx[w].row.product \in Products
      BY <1>1, SnapshotType DEF Row
    <3>3. TierRank[p] \in Nat /\ TierRank[p] # TierRank[tx[w].row.product]
      BY <3>1, <3>2, LifecycleAssumption
    <3>4. OneAtATime
      BY <3>2, <3>3 DEF OnlyNMI, OneTier
    <3>5. tx[w].row = sub[q]
      BY <1>1, <2>4, <3>4, SnapshotIsRow
    <3>6. /\ n.status = sub[q].status /\ n.ctype = sub[q].ctype /\ n.noted = sub[q].noted
          /\ n.endedAt = sub[q].endedAt /\ n.pend = sub[q].pend
      BY <3>1, <3>2, <3>5 DEF Row
    <3>7. windows' = windows /\ sub'[q] = n
      BY <2>2, <2>4 DEF Schedules
    <3> QED
      BY <3>6, <3>7 DEF ClosedInv, Terminal
  <2>5. CASE q = tx[w].sub /\ Closes(w, n)
    <3>1. sub'[q] = n /\ n \in Row /\ windows'[k] \in Seq(Window)
      BY <2>1, <2>2, <2>5 DEF Commits, Evolves, TimelineOK
    <3>2. Ends(w, k) => Over(windows'[k], q, now)
      BY <2>5 DEF Ends
    <3>3. n.pend \in Int /\ now \in Int
      BY <3>1, ClockType, TimelineAssumption DEF Row, Time, Null
    <3>4. ASSUME Ends(w, k), n.pend > now PROVE Over(windows'[k], q, n.pend)
      <4>1. PICK u \in Int : u = n.pend /\ now <= u
        BY <3>3, <3>4
      <4>2. Over(windows'[k], q, u)
        BY <3>1, <3>2, <3>3, <3>4, <4>1, OverLater
      <4> QED
        BY <4>1, <4>2
    <3> QED
      BY <2>5, <3>1, <3>2, <3>4 DEF Closes
  <2> QED
    BY <2>1, <2>2, <2>3, <2>4, <2>5 DEF OnlyNMI
<1>2. ASSUME NEW s \in Subs, CreatePending(s)
      PROVE  ClosedInv'
  <2> DEFINE n == [sub[s] EXCEPT !.status = "pending"]
  <2>1. windows' = windows /\ now' = now /\ sub' = [sub EXCEPT ![s] = n]
    BY <1>2 DEF CreatePending
  <2>2. n.status = "pending"
    BY DEF IInv, TypeOK, Row
  <2> HIDE DEF n
  <2>3. \A q \in Subs : sub'[q] = sub[q] \/ sub'[q].status = "pending"
    BY <2>1, <2>2 DEF IInv, TypeOK
  <2> QED
    BY <2>1, <2>3 DEF ClosedInv, Terminal, Over
<1>3. ASSUME UNCHANGED <<sub, windows>>, now' \in {now, now + 1}
      PROVE  ClosedInv'
  <2> SUFFICES ASSUME NEW q \in Subs, NEW k \in Ents
               PROVE  /\ Terminal(sub[q]) => Over(windows'[k], q, now')
                      /\ sub[q].status = "cancelled" /\ sub[q].endedAt = Null =>
                            /\ Over(windows'[k], q, now')
                            /\ sub[q].pend # Null => Over(windows'[k], q, sub[q].pend)
    BY <1>3 DEF ClosedInv, Over, Terminal
  <2> QED
    BY <1>3, OverStill DEF ClosedInv
<1> QED
  BY <1>1, <1>2, <1>3, Steps DEF LogOnly, Begin

\* There is nothing to be over at the start.
LEMMA InitOver == Init => Fresh /\ BlameInv /\ GradeInv /\ ClosedInv
<1> SUFFICES ASSUME Init PROVE Fresh /\ BlameInv /\ GradeInv /\ ClosedInv
  OBVIOUS
<1>1. \A k \in Ents : windows[k] = <<>> /\ LiveWindows(windows[k]) = {}
  BY DEF Init, LiveWindows
<1> QED
  BY <1>1 DEF Init, Fresh, BlameInv, GradeInv, ClosedInv, Over

\* A cancellation for a chargeback leaves nothing paid, for any processors and products, where
\* transactions do not overlap.
THEOREM ChargebacksLeaveNothing ==
  OneAtATime => (Spec => []ChargebackLeavesNothingPaid)
<1>1. ASSUME OneAtATime PROVE Spec => []ChargebackLeavesNothingPaid
  <2>1. BlameInv => ChargebackLeavesNothingPaid
    BY DEF BlameInv, Blamed, ChargebackLeavesNothingPaid, Over
  <2>2. IInv /\ Fresh /\ BlameInv /\ [Next]_vars => (IInv /\ Fresh /\ BlameInv)'
    BY <1>1, NextIInv, FreshStep, BlameStep
  <2>3. Init => IInv /\ Fresh /\ BlameInv
    BY InitIInv, InitOver
  <2> QED
    BY <2>1, <2>2, <2>3, PTL DEF Spec
<1> QED
  BY <1>1

\* A row that is terminal has no paid access left where all subscriptions are billed by NMI and
\* entitlements expire: for any number of overlapping transactions where no downgrade can be
\* scheduled, and for any tiers where they do not overlap.
THEOREM ChargebacksEndAccess == OnlyNMI => (Spec => []ChargebackEndsPaidAccess)
<1>1. ASSUME OnlyNMI PROVE Spec => []ChargebackEndsPaidAccess
  <2>1. ClosedInv => ChargebackEndsPaidAccess
    BY DEF ClosedInv, ChargebackEndsPaidAccess, Over
  <2>2. CASE OneAtATime
    <3>1. IInv /\ Fresh /\ ClosedInv /\ [Next]_vars => (IInv /\ Fresh /\ ClosedInv)'
      BY <1>1, <2>2, NextIInv, FreshStep, ClosedStep
    <3>2. Init => IInv /\ Fresh /\ ClosedInv
      BY InitIInv, InitOver
    <3> QED
      BY <2>1, <3>1, <3>2, PTL DEF Spec
  <2>3. CASE ~OneAtATime
    <3>1. IInv /\ ClosedInv /\ [Next]_vars => (IInv /\ ClosedInv)'
      BY <1>1, <2>3, NextIInv, ClosedStep
    <3>2. Init => IInv /\ ClosedInv
      BY InitIInv, InitOver
    <3> QED
      BY <2>1, <3>1, <3>2, PTL DEF Spec
  <2> QED
    BY <2>2, <2>3
<1> QED
  BY <1>1

\* Where transactions do not overlap and every product says what it grants, a subscription
\* has no paid access beyond its product, for any tiers, specifications and processors.
THEOREM AccessFollowsProduct ==
  OneAtATime /\ Specified => (Spec => []PaidAccessIsOfProduct)
<1>1. ASSUME OneAtATime, Specified PROVE Spec => []PaidAccessIsOfProduct
  <2>1. GradeInv => PaidAccessIsOfProduct
    BY DEF GradeInv, PaidAccessIsOfProduct, Over
  <2>2. IInv /\ Fresh /\ GradeInv /\ [Next]_vars => (IInv /\ Fresh /\ GradeInv)'
    BY <1>1, NextIInv, FreshStep, GradeStep
  <2>3. Init => IInv /\ Fresh /\ GradeInv
    BY InitIInv, InitOver
  <2> QED
    BY <2>1, <2>2, <2>3, PTL DEF Spec
<1> QED
  BY <1>1

\* What the audit of NMI subscriptions finds is explained by the row.
LEMMA ClosedIsClean ==
  ASSUME IInv, ClosedInv
  PROVE  AuditClean
<1>1. ASSUME NEW x \in CheckOrphanSubscriptionEntitlements
      PROVE  x \in CheckCancelledSubscriptionActiveEntitlements
  <2>1. /\ x \in Subs \X Ents /\ x[1] \in Subs /\ x[2] \in Ents
        /\ sub[x[1]].status \notin {"active", "pending", "past_due"}
    BY DEF CheckOrphanSubscriptionEntitlements
  <2>2. PICK i \in Current(x[2]) : windows[x[2]][i].src = Paid(x[1])
    BY DEF CheckOrphanSubscriptionEntitlements
  <2>3. /\ i \in LiveWindows(windows[x[2]]) /\ i \in 1..Len(windows[x[2]])
        /\ windows[x[2]][i].end > now
    BY DEF Current, LiveWindows
  <2>4. sub[x[1]].status # "none"
    BY <2>1, <2>2, <2>3 DEF IInv
  <2>5. sub[x[1]].status = "cancelled"
    BY <2>1, <2>4 DEF IInv, TypeOK, Row, Status
  <2>6. windows[x[2]][i].end \in Int /\ now \in Int
    <3>1. windows[x[2]] \in Seq(Window)
      BY <2>1 DEF IInv, TypeOK
    <3>2. windows[x[2]][i] \in Window
      BY <2>3, <3>1
    <3> QED
      BY <3>2, ClockType, TimelineAssumption DEF Window, Never
  <2>7. ASSUME sub[x[1]].endedAt = Null PROVE FALSE
    BY <2>1, <2>2, <2>3, <2>5, <2>6, <2>7 DEF ClosedInv, Over
  <2> QED
    BY <2>1, <2>2, <2>5, <2>7 DEF CheckCancelledSubscriptionActiveEntitlements
<1>2. ASSUME NEW x \in CheckWrongEntitlementEndDate, NEW i \in LiveWindows(windows[x[2]]),
             windows[x[2]][i].src = Paid(x[1])
      PROVE  windows[x[2]][i].end <= sub[x[1]].pend
  <2>1. /\ x[1] \in Subs /\ x[2] \in Ents
        /\ sub[x[1]].status = "cancelled" /\ sub[x[1]].endedAt = Null /\ sub[x[1]].pend # Null
    BY DEF CheckWrongEntitlementEndDate
  <2> QED
    BY <1>2, <2>1 DEF ClosedInv, Over
<1> QED
  BY <1>1, <1>2, FindsNothing DEF AuditClean, AlwaysClean

\* The audit of subscriptions that NMI bills finds nothing but what a cancellation at the end
\* of a period leaves, with entitlements that expire: for any number of overlapping
\* transactions where no downgrade can be scheduled, and for any tiers where they do not
\* overlap.
THEOREM AuditFindsNothing == OnlyNMI => (Spec => []AuditClean)
<1>1. ASSUME OnlyNMI PROVE Spec => []AuditClean
  <2>1. IInv /\ ClosedInv => AuditClean
    BY ClosedIsClean
  <2>2. CASE OneAtATime
    <3>1. IInv /\ Fresh /\ ClosedInv /\ [Next]_vars => (IInv /\ Fresh /\ ClosedInv)'
      BY <1>1, <2>2, NextIInv, FreshStep, ClosedStep
    <3>2. Init => IInv /\ Fresh /\ ClosedInv
      BY InitIInv, InitOver
    <3> QED
      BY <2>1, <3>1, <3>2, PTL DEF Spec
  <2>3. CASE ~OneAtATime
    <3>1. IInv /\ ClosedInv /\ [Next]_vars => (IInv /\ ClosedInv)'
      BY <1>1, <2>3, NextIInv, ClosedStep
    <3>2. Init => IInv /\ ClosedInv
      BY InitIInv, InitOver
    <3> QED
      BY <2>1, <3>1, <3>2, PTL DEF Spec
  <2> QED
    BY <2>2, <2>3
<1> QED
  BY <1>1

=============================================================================
