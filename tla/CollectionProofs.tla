--------------------------- MODULE CollectionProofs ---------------------------
(***************************************************************************)
(* What Collection guarantees for every number of subscriptions, subjects,  *)
(* disputes and faults, several subscriptions of one subject included.      *)
(*                                                                         *)
(* The argument.  Every transaction is made of the functions on one row,    *)
(* and each of them moves a row Forward and Keeps its marker or makes a     *)
(* fresh one.  So the only key a step can add is the pair of the row's own  *)
(* newest version and newest state; any older key at that version carries   *)
(* the same state, because a new state always comes with a new version.     *)
(***************************************************************************)
EXTENDS Collection, TLAPS

-----------------------------------------------------------------------------
(* One row. *)

\* The CHECK constraints on one row.
Chain(r) ==
    /\ r.appliedVersion <= r.desiredVersion
    /\ Marked(r) => r.inFlight \in (r.appliedVersion + 1)..r.desiredVersion
    /\ Marked(r) <=> r.inFlightState # "none"

\* What a transaction may do to a row.
Forward(r, q) ==
    /\ q \in Row /\ Chain(q)
    /\ r.desiredVersion <= q.desiredVersion
    /\ r.appliedVersion <= q.appliedVersion
    /\ r.desired # q.desired => r.desiredVersion < q.desiredVersion
    /\ r.desired = "canceled" => q.desired = "canceled"
    /\ r.canceled => q.canceled

SameMarker(r, q) == q.inFlight = r.inFlight /\ q.inFlightState = r.inFlightState

Fresh(q) == q.inFlight = q.desiredVersion /\ q.inFlightState = q.desired

Keeps(r, q) == Marked(q) => SameMarker(r, q) \/ Fresh(q)

\* Forward is a preorder on rows that satisfy the constraints.
LEMMA ForwardReflexive ==
    ASSUME NEW r \in Row, Chain(r) PROVE Forward(r, r)
BY DEF Forward, Row

LEMMA ForwardTransitive ==
    ASSUME NEW r \in Row, NEW q \in Row, NEW p, Forward(r, q), Forward(q, p)
    PROVE  Forward(r, p)
BY DEF Forward, Row

\* The fields of a row have the types of its columns.
LEMMA RowFields ==
    ASSUME NEW r \in Row
    PROVE  /\ r.desired \in CollectionState
           /\ r.desiredVersion \in Nat /\ r.appliedVersion \in Nat /\ r.inFlight \in Nat
           /\ r.inFlightState \in CollectionState \cup {"none"}
           /\ r.aged \in BOOLEAN /\ r.canceled \in BOOLEAN
BY DEF Row

\* A claim marks the row with its newest version and state, or leaves it alone.
LEMMA ClaimRow ==
    ASSUME NEW r \in Row, Chain(r)
    PROVE  /\ Forward(r, ClaimCollection(r))
           /\ Keeps(r, ClaimCollection(r))
           /\ ClaimCollection(r) = r \/ Fresh(ClaimCollection(r))
           /\ Claimable(r) => Marked(ClaimCollection(r)) /\ Fresh(ClaimCollection(r))
           /\ Marked(r) => ClaimCollection(r) = r
<1>1. CASE ~Claimable(r)
  BY <1>1, ForwardReflexive DEF ClaimCollection, Keeps, SameMarker
<1>2. CASE Claimable(r)
  <2> DEFINE q == ClaimCollection(r)
  <2>1. /\ q \in Row
        /\ q.desired = r.desired /\ q.desiredVersion = r.desiredVersion
        /\ q.appliedVersion = r.appliedVersion /\ q.canceled = r.canceled
        /\ q.inFlight = r.desiredVersion /\ q.inFlightState = r.desired
    BY <1>2 DEF ClaimCollection, Row
  <2> HIDE DEF q
  <2>2. Fresh(q)
    BY <2>1 DEF Fresh
  <2>3. Marked(q) /\ Chain(q)
    BY <1>2, <2>1, RowFields DEF Claimable, Marked, NoVersion, Chain, CollectionState
  <2>4. Forward(r, q)
    BY <2>1, <2>3, RowFields DEF Forward
  <2> QED BY <1>2, <2>2, <2>3, <2>4 DEF q, Keeps, Claimable
<1> QED BY <1>1, <1>2

\* Clearing the marker moves nothing else.
LEMMA UnmarkRow ==
    ASSUME NEW r \in Row, Chain(r)
    PROVE  /\ Unmark(r) \in Row /\ Forward(r, Unmark(r))
           /\ ~Marked(Unmark(r))
           /\ Unmark(r).desired = r.desired
           /\ Unmark(r).desiredVersion = r.desiredVersion
           /\ Unmark(r).appliedVersion = r.appliedVersion
           /\ Unmark(r).canceled = r.canceled
           /\ Unmark(r).inFlight = NoVersion /\ Unmark(r).inFlightState = "none"
<1> DEFINE q == Unmark(r)
<1>1. /\ q \in Row /\ q.desired = r.desired /\ q.desiredVersion = r.desiredVersion
      /\ q.appliedVersion = r.appliedVersion /\ q.canceled = r.canceled
      /\ q.inFlight = NoVersion /\ q.inFlightState = "none"
  BY DEF Unmark, Row, NoVersion
<1> HIDE DEF q
<1>2. Chain(q) /\ ~Marked(q)
  BY <1>1, RowFields DEF Marked, Chain
<1>3. Forward(r, q)
  BY <1>1, <1>2, RowFields DEF Forward
<1> QED BY <1>1, <1>2, <1>3 DEF q

LEMMA CancelRow ==
    ASSUME NEW r \in Row, Chain(r)
    PROVE  /\ Forward(r, CancelCollection(r))
           /\ ~Marked(CancelCollection(r))
           /\ CancelCollection(r).desired = "canceled"
<1>1. CASE r.desired = "canceled" /\ ~Marked(r)
  BY <1>1, ForwardReflexive DEF CancelCollection
<1>2. CASE ~(r.desired = "canceled" /\ ~Marked(r))
  <2> DEFINE q == CancelCollection(r)
  <2>1. /\ q \in Row /\ q.desired = "canceled" /\ q.canceled = r.canceled
        /\ q.desiredVersion = r.desiredVersion + 1
        /\ q.appliedVersion = r.desiredVersion + 1
        /\ q.inFlight = NoVersion /\ q.inFlightState = "none"
    <3> DEFINE u == Unmark(r)
    <3>1. u \in Row /\ u.canceled = r.canceled /\ u.inFlight = NoVersion /\ u.inFlightState = "none"
      BY UnmarkRow
    <3>2. q = [u EXCEPT !.desired = "canceled", !.desiredVersion = r.desiredVersion + 1,
                        !.appliedVersion = r.desiredVersion + 1]
      BY <1>2 DEF CancelCollection
    <3>3. r.desiredVersion + 1 \in Nat /\ "canceled" \in CollectionState
      BY RowFields DEF CollectionState
    <3> HIDE DEF q, u
    <3> QED BY <3>1, <3>2, <3>3 DEF Row
  <2> HIDE DEF q
  <2>2. ~Marked(q) /\ Chain(q)
    BY <2>1, RowFields DEF Marked, Chain
  <2>3. Forward(r, q)
    BY <2>1, <2>2, RowFields DEF Forward, Chain
  <2> QED BY <2>1, <2>2, <2>3 DEF q
<1> QED BY <1>1, <1>2

LEMMA ObserveCanceledRow ==
    ASSUME NEW r \in Row, Chain(r)
    PROVE  /\ Forward(r, ObserveCanceled(r))
           /\ ~Marked(ObserveCanceled(r))
           /\ ObserveCanceled(r).desired = "canceled"
BY CancelRow DEF ObserveCanceled, Marked, Chain, Forward, Row

LEMMA FoldType == \A states : Fold(states) \in CollectionState
BY DEF Fold, CollectionState

LEMMA RecomputeRow ==
    ASSUME NEW r \in Row, Chain(r), NEW states
    PROVE  /\ Forward(r, RecomputeDesired(r, states))
           /\ SameMarker(r, RecomputeDesired(r, states))
<1>1. CASE r.desired = "canceled" \/ r.desired = Fold(states)
  BY <1>1, ForwardReflexive DEF RecomputeDesired, SameMarker
<1>2. CASE ~(r.desired = "canceled" \/ r.desired = Fold(states))
  <2> DEFINE q == RecomputeDesired(r, states)
  <2>1. /\ q \in Row /\ q.desiredVersion = r.desiredVersion + 1
        /\ q.appliedVersion = r.appliedVersion /\ q.canceled = r.canceled
        /\ q.inFlight = r.inFlight /\ q.inFlightState = r.inFlightState
    <3> DEFINE f == Fold(states)
    <3>1. f \in CollectionState
      BY FoldType
    <3>2. q = [r EXCEPT !.desired = f, !.desiredVersion = r.desiredVersion + 1]
      BY <1>2 DEF RecomputeDesired
    <3>3. r.desiredVersion + 1 \in Nat
      BY RowFields
    <3> HIDE DEF q, f
    <3> QED BY <3>1, <3>2, <3>3 DEF Row
  <2> HIDE DEF q
  <2>2. Chain(q)
    BY <2>1, RowFields DEF Marked, Chain
  <2>3. Forward(r, q)
    BY <1>2, <2>1, <2>2, RowFields DEF Forward
  <2> QED BY <2>1, <2>3 DEF q, SameMarker
<1> QED BY <1>1, <1>2

LEMMA SettleSuccessRow ==
    ASSUME NEW r \in Row, Chain(r)
    PROVE  Forward(r, SettleSuccess(r)) /\ Keeps(r, SettleSuccess(r))
<1>1. CASE ~Marked(r)
  BY <1>1, ForwardReflexive DEF SettleSuccess, Keeps, SameMarker
<1>2. CASE Marked(r)
  <2> DEFINE q == [Unmark(r) EXCEPT !.appliedVersion = r.inFlight]
  <2>a. /\ q \in Row /\ q.desired = r.desired /\ q.desiredVersion = r.desiredVersion
        /\ q.appliedVersion = r.inFlight /\ q.canceled = r.canceled
        /\ q.inFlight = NoVersion /\ q.inFlightState = "none"
    BY DEF Unmark, Row, NoVersion
  <2> HIDE DEF q
  <2>b. r.appliedVersion <= r.inFlight /\ r.inFlight <= r.desiredVersion
    BY <1>2, RowFields DEF Chain
  <2>1. q \in Row /\ Chain(q) /\ Forward(r, q) /\ ~Marked(q)
    BY <2>a, <2>b, RowFields DEF Marked, Chain, Forward
  <2>2. SettleSuccess(r) = ClaimCollection(q)
    BY <1>2 DEF SettleSuccess, q
  <2>3. Forward(q, ClaimCollection(q)) /\ (ClaimCollection(q) = q \/ Fresh(ClaimCollection(q)))
    BY <2>1, ClaimRow
  <2>4. Forward(r, ClaimCollection(q))
    BY <2>1, <2>3, ForwardTransitive
  <2> QED BY <2>1, <2>2, <2>3, <2>4 DEF Keeps
<1> QED BY <1>1, <1>2

LEMMA RepairRow ==
    ASSUME NEW r \in Row, Chain(r)
    PROVE  /\ Forward(r, RepairVersion(r))
           /\ RepairVersion(r) = r \/ Fresh(RepairVersion(r))
           /\ Keeps(r, RepairVersion(r))
           /\ Marked(RepairVersion(r)) \/ r.desired = "canceled"
           /\ r.desired = "canceled" => RepairVersion(r) = r
<1>1. CASE r.desired = "canceled" \/ Marked(r)
  BY <1>1, ForwardReflexive DEF RepairVersion, Keeps, SameMarker
<1>2. CASE ~(r.desired = "canceled" \/ Marked(r))
  <2> DEFINE q == [r EXCEPT !.desiredVersion = @ + 1]
  <2>a. /\ q \in Row /\ q.desired = r.desired /\ q.desiredVersion = r.desiredVersion + 1
        /\ q.appliedVersion = r.appliedVersion /\ q.canceled = r.canceled
        /\ q.inFlight = r.inFlight /\ q.inFlightState = r.inFlightState
    BY DEF Row
  <2> HIDE DEF q
  <2>1. q \in Row /\ Chain(q) /\ Forward(r, q) /\ Claimable(q)
    BY <1>2, <2>a, RowFields DEF Claimable, Marked, Chain, Forward
  <2>2. RepairVersion(r) = ClaimCollection(q)
    BY <1>2 DEF RepairVersion, q
  <2>3. Forward(q, ClaimCollection(q)) /\ Fresh(ClaimCollection(q)) /\ Marked(ClaimCollection(q))
    BY <2>1, ClaimRow
  <2>4. Forward(r, ClaimCollection(q))
    BY <2>1, <2>3, ForwardTransitive
  <2> QED BY <1>2, <2>1, <2>2, <2>3, <2>4 DEF Keeps
<1> QED BY <1>1, <1>2

\* Marker of the later row: the earlier row's, or a fresh one.
LEMMA KeepsFresh ==
    ASSUME NEW r, NEW q, NEW p, Keeps(r, q), p = q \/ Fresh(p) \/ ~Marked(p)
    PROVE  Keeps(r, p)
BY DEF Keeps

LEMMA SettledRowMoves ==
    ASSUME NEW r \in Row, Chain(r), NEW c
    PROVE  Forward(r, SettledRow(r, c)) /\ Keeps(r, SettledRow(r, c))
<1>1. SettledRow(r, c) \in {r, RepairVersion(r), SettleFailure(r), SettleSuccess(r)}
  BY DEF SettledRow
<1>2. Forward(r, r) /\ Keeps(r, r)
  BY ForwardReflexive DEF Keeps, SameMarker
<1>3. Forward(r, RepairVersion(r)) /\ Keeps(r, RepairVersion(r))
  BY RepairRow
<1>4. Forward(r, SettleFailure(r)) /\ Keeps(r, SettleFailure(r))
  BY UnmarkRow DEF SettleFailure, Keeps
<1>5. Forward(r, SettleSuccess(r)) /\ Keeps(r, SettleSuccess(r))
  BY SettleSuccessRow
<1> QED BY <1>1, <1>2, <1>3, <1>4, <1>5

LEMMA ObservedRow ==
    ASSUME NEW r \in Row, Chain(r), NEW o
    PROVE  Forward(r, Observed(r, o)) /\ Keeps(r, Observed(r, o))
<1> DEFINE a == IF o = "canceled" /\ ~r.canceled THEN ObserveCanceled(r) ELSE r
<1>1. Forward(r, a) /\ Keeps(r, a) /\ a \in Row /\ Chain(a) /\ (a = r \/ ~Marked(a))
  BY ForwardReflexive, ObserveCanceledRow DEF Forward, Keeps, SameMarker
<1>2. Observed(r, o) \in {r, a, SettleSuccess(a), RepairVersion(a)}
  BY DEF Observed
<1> HIDE DEF a
<1>3. Forward(r, r) /\ Keeps(r, r)
  BY ForwardReflexive DEF Keeps, SameMarker
<1>4. Forward(r, SettleSuccess(a)) /\ Keeps(r, SettleSuccess(a))
  <2>1. Forward(a, SettleSuccess(a)) /\ Keeps(a, SettleSuccess(a))
    BY <1>1, SettleSuccessRow
  <2>2. Forward(r, SettleSuccess(a))
    BY <1>1, <2>1, ForwardTransitive
  <2>3. ~Marked(a) => SettleSuccess(a) = a
    BY DEF SettleSuccess
  <2> QED BY <1>1, <2>1, <2>2, <2>3
<1>5. Forward(r, RepairVersion(a)) /\ Keeps(r, RepairVersion(a))
  <2>1. Forward(a, RepairVersion(a)) /\ (RepairVersion(a) = a \/ Fresh(RepairVersion(a)))
    BY <1>1, RepairRow
  <2>2. Forward(r, RepairVersion(a))
    BY <1>1, <2>1, ForwardTransitive
  <2> QED BY <1>1, <2>1, <2>2, KeepsFresh
<1> QED BY <1>1, <1>2, <1>3, <1>4, <1>5

LEMMA TimedOutRow ==
    ASSUME NEW r \in Row, Chain(r)
    PROVE  /\ Forward(r, TimedOut(r))
           /\ TimedOut(r) = r \/ Fresh(TimedOut(r)) \/ ~Marked(TimedOut(r))
           /\ Marked(r) => Marked(TimedOut(r)) \/ Claimable(TimedOut(r))
<1>1. CASE ~(Marked(r) /\ r.aged)
  BY <1>1, ForwardReflexive DEF TimedOut
<1>2. CASE Marked(r) /\ r.aged
  <2> DEFINE u == SettleFailure(r)
             q == RepairVersion(u)
  <2>1. TimedOut(r) = q
    BY <1>2 DEF TimedOut
  <2>2. /\ Forward(r, u) /\ u \in Row /\ Chain(u) /\ ~Marked(u)
        /\ u.appliedVersion = r.appliedVersion /\ u.desiredVersion = r.desiredVersion
    BY UnmarkRow DEF SettleFailure, Forward
  <2>3. r.appliedVersion < r.desiredVersion
    BY <1>2, RowFields DEF Chain
  <2> HIDE DEF u
  <2>4. /\ Forward(u, q) /\ (q = u \/ Fresh(q)) /\ (Marked(q) \/ u.desired = "canceled")
        /\ (u.desired = "canceled" => q = u)
    BY <2>2, RepairRow
  <2> HIDE DEF q
  <2>5. Forward(r, q)
    BY <2>2, <2>4, ForwardTransitive
  <2>6. Marked(q) \/ Claimable(q)
    BY <2>2, <2>3, <2>4 DEF Claimable
  <2> QED BY <2>1, <2>2, <2>4, <2>5, <2>6
<1> QED BY <1>1, <1>2

\* One row through a whole reconcile; a row that is handed back is marked.
LEMMA ReconciledRow ==
    ASSUME NEW r \in Row, Chain(r), NEW o
    PROVE  /\ Forward(r, ReconcileRow(r, o)) /\ Keeps(r, ReconcileRow(r, o))
           /\ HandsBack(r, o) => Marked(ReconcileRow(r, o))
<1> DEFINE seen == Observed(r, o)
           due == TimedOut(seen)
           q == ClaimCollection(due)
<1>1. Forward(r, seen) /\ Keeps(r, seen) /\ seen \in Row /\ Chain(seen)
  BY ObservedRow DEF Forward
<1>2. HandsBack(r, o) => Claimable(due) \/ Marked(due) \/ Marked(seen)
  BY DEF HandsBack
<1>3. ReconcileRow(r, o) = q
  BY DEF ReconcileRow
<1> HIDE DEF seen
<1>4. /\ Forward(seen, due) /\ due \in Row /\ Chain(due)
      /\ due = seen \/ Fresh(due) \/ ~Marked(due)
      /\ Marked(seen) => Marked(due) \/ Claimable(due)
  BY <1>1, TimedOutRow DEF Forward
<1> HIDE DEF due
<1>5. /\ Forward(due, q) /\ q \in Row
      /\ q = due \/ Fresh(q)
      /\ Claimable(due) => Marked(q)
      /\ Marked(due) => q = due
  BY <1>4, ClaimRow DEF Forward
<1> HIDE DEF q
<1>6. Forward(r, q)
  <2>1. Forward(r, due)
    BY <1>1, <1>4, ForwardTransitive
  <2> QED BY <2>1, <1>4, <1>5, ForwardTransitive
<1>7. Keeps(r, q)
  <2>1. Keeps(r, due)
    BY <1>1, <1>4, KeepsFresh
  <2> QED BY <2>1, <1>5, KeepsFresh
<1>8. HandsBack(r, o) => Marked(q)
  BY <1>2, <1>4, <1>5
<1> QED BY <1>3, <1>6, <1>7, <1>8

-----------------------------------------------------------------------------
(* Every step, and every row. *)

RowsMove == \A s \in Subs : Forward(row[s], row'[s]) /\ Keeps(row[s], row'[s])

LEMMA RowsAreSound ==
    ASSUME TypeOK, VersionChain, NEW s \in Subs
    PROVE  row[s] \in Row /\ Chain(row[s])
BY DEF TypeOK, VersionChain, Chain

LEMMA RowsStay ==
    ASSUME TypeOK, VersionChain, row' = row
    PROVE  RowsMove
BY RowsAreSound, ForwardReflexive DEF RowsMove, Keeps, SameMarker

\* A transaction on one row.
LEMMA OneRowMoves ==
    ASSUME TypeOK, VersionChain, NEW s \in Subs, NEW q,
           Forward(row[s], q), Keeps(row[s], q), row' = [row EXCEPT ![s] = q]
    PROVE  RowsMove
<1> SUFFICES ASSUME NEW t \in Subs
             PROVE  Forward(row[t], row'[t]) /\ Keeps(row[t], row'[t])
  BY DEF RowsMove
<1>1. CASE t = s
  BY <1>1 DEF TypeOK
<1>2. CASE t # s
  <2>1. row'[t] = row[t]
    BY <1>2 DEF TypeOK
  <2> QED BY <2>1, RowsAreSound, ForwardReflexive DEF Keeps, SameMarker
<1> QED BY <1>1, <1>2

\* The rows after a dispute notice: only recomputed, so every marker stands.
LEMMA NoticedRows ==
    ASSUME TypeOK, VersionChain, NEW d \in Disputes, NEW st, NEW s \in Subs
    PROVE  /\ RowAfter(d, st)[s] \in Row /\ Chain(RowAfter(d, st)[s])
           /\ Forward(row[s], RowAfter(d, st)[s]) /\ SameMarker(row[s], RowAfter(d, st)[s])
<1> DEFINE e == entSub[PayerOf[d]]
           h == HoldsOf(HoldAfter(d, st), e)
<1>1. e \in Subs
  BY DisputesHavePayers DEF TypeOK
<1>2. row[s] \in Row /\ Chain(row[s]) /\ Forward(row[s], row[s]) /\ SameMarker(row[s], row[s])
  BY RowsAreSound, ForwardReflexive DEF SameMarker
<1>3. row \in [Subs -> Row]
  BY DEF TypeOK
<1>4. RowAfter(d, st) = row \/ RowAfter(d, st) = [row EXCEPT ![e] = RecomputeDesired(row[e], h)]
  BY DEF RowAfter
<1> HIDE DEF e, h
<1>5. RowAfter(d, st)[s] = row[s] \/ RowAfter(d, st)[s] = RecomputeDesired(row[s], h)
  BY <1>1, <1>3, <1>4
<1>6. Forward(row[s], RecomputeDesired(row[s], h)) /\ SameMarker(row[s], RecomputeDesired(row[s], h))
  BY <1>2, RecomputeRow
<1> QED BY <1>2, <1>5, <1>6 DEF Forward

LEMMA StepMovesRows ==
    ASSUME TypeOK, VersionChain, [Next]_vars
    PROVE  RowsMove
<1>1. ASSUME NEW d \in Disputes, DisputeNotice(d) PROVE RowsMove
  <2>1. PICK st \in Reports(d) : row' = RowAfter(d, st)
    BY <1>1 DEF DisputeNotice
  <2> QED BY <2>1, NoticedRows DEF RowsMove, Keeps
<1>2. ASSUME NEW d \in Disputes, ReviewDisputeHold(d) PROVE RowsMove
  <2>1. PICK s \in {hold[d].sub} : row' = [row EXCEPT ![s] = RecomputeDesired(row[s], HoldsOf(hold', s))]
    BY <1>2 DEF ReviewDisputeHold
  <2>2. s \in Subs
    BY <1>2, <2>1 DEF ReviewDisputeHold, TypeOK
  <2>3. Forward(row[s], RecomputeDesired(row[s], HoldsOf(hold', s)))
        /\ Keeps(row[s], RecomputeDesired(row[s], HoldsOf(hold', s)))
    BY <2>2, RowsAreSound, RecomputeRow DEF Keeps
  <2> QED BY <2>1, <2>2, <2>3, OneRowMoves
<1>3. ASSUME NEW s \in Subs, SubscriptionEvent(s) PROVE RowsMove
  <2>1. CASE row' = row
    BY <2>1, RowsStay
  <2>2. CASE row' = [row EXCEPT ![s] = ObserveCanceled(row[s])]
    <3>1. Forward(row[s], ObserveCanceled(row[s])) /\ Keeps(row[s], ObserveCanceled(row[s]))
      BY RowsAreSound, ObserveCanceledRow DEF Keeps
    <3> QED BY <2>2, <3>1, OneRowMoves
  <2> QED BY <1>3, <2>1, <2>2 DEF SubscriptionEvent
<1>4. ASSUME NEW x \in Subjects, DisableCompany(x) PROVE RowsMove
  <2> SUFFICES ASSUME NEW s \in Subs
               PROVE  Forward(row[s], row'[s]) /\ Keeps(row[s], row'[s])
    BY DEF RowsMove
  <2>1. row'[s] \in {CancelCollection(row[s]), row[s]}
    BY <1>4 DEF DisableCompany
  <2> QED BY <2>1, RowsAreSound, CancelRow, ForwardReflexive DEF Keeps, SameMarker
<1>5. ASSUME NEW x \in Subjects, ExecutorClaims(x) PROVE RowsMove
  <2> DEFINE s == latest[x]
  <2>1. s \in Subs /\ row' = [row EXCEPT ![s] = ClaimCollection(row[s])]
    BY <1>5 DEF ExecutorClaims, TypeOK
  <2> HIDE DEF s
  <2>2. Forward(row[s], ClaimCollection(row[s])) /\ Keeps(row[s], ClaimCollection(row[s]))
    BY <2>1, RowsAreSound, ClaimRow
  <2> QED BY <2>1, <2>2, OneRowMoves
<1>6. ASSUME NEW c \in calls, SettleCollection(c) PROVE RowsMove
  <2> DEFINE s == latest[SubjectOf[c.sub]]
  <2>1. s \in Subs /\ row' = [row EXCEPT ![s] = SettledRow(row[s], c)]
    <3>1. c.sub \in Subs
      BY DEF TypeOK, Call
    <3> QED BY <1>6, <3>1, SubjectsOwnRows DEF SettleCollection, TypeOK
  <2> HIDE DEF s
  <2>2. Forward(row[s], SettledRow(row[s], c)) /\ Keeps(row[s], SettledRow(row[s], c))
    BY <2>1, RowsAreSound, SettledRowMoves
  <2> QED BY <2>1, <2>2, OneRowMoves
<1>7. ASSUME CronStart PROVE RowsMove
  <2> SUFFICES ASSUME NEW s \in Subs
               PROVE  Forward(row[s], row'[s]) /\ Keeps(row[s], row'[s])
    BY DEF RowsMove
  <2>1. row'[s] = ReconcileRow(row[s], NothingRead[s])
    BY <1>7 DEF CronStart, ReconcileRows
  <2> QED BY <2>1, RowsAreSound, ReconciledRow
<1>8. ASSUME CronPosts PROVE RowsMove
  <2> SUFFICES ASSUME NEW s \in Subs
               PROVE  Forward(row[s], row'[s]) /\ Keeps(row[s], row'[s])
    BY DEF RowsMove
  <2>1. PICK n \in SweepAnswers :
           row' = ReconcileRows(IF n = <<>> THEN row ELSE RowAfter(n[1], n[2]), cron.obs)
    BY <1>8 DEF CronPosts
  <2> DEFINE r == (IF n = <<>> THEN row ELSE RowAfter(n[1], n[2]))[s]
  <2>2. r \in Row /\ Chain(r) /\ Forward(row[s], r) /\ SameMarker(row[s], r)
    <3>1. CASE n = <<>>
      BY <3>1, RowsAreSound, ForwardReflexive DEF SameMarker
    <3>2. CASE n # <<>>
      <4>1. n[1] \in Disputes
        BY <3>2 DEF SweepAnswers
      <4> QED BY <3>2, <4>1, NoticedRows
    <3> QED BY <3>1, <3>2
  <2>3. row'[s] = ReconcileRow(r, cron.obs[s])
    BY <2>1 DEF ReconcileRows
  <2> HIDE DEF r
  <2>4. Forward(r, row'[s]) /\ Keeps(r, row'[s])
    BY <2>2, <2>3, ReconciledRow
  <2>5. Forward(row[s], row'[s])
    BY <2>2, <2>4, RowsAreSound, ForwardTransitive
  <2> QED BY <2>2, <2>4, <2>5 DEF Keeps, SameMarker
<1>9. ASSUME NEW s \in Subs, MarkerAges(s) PROVE RowsMove
  <2> DEFINE q == [row[s] EXCEPT !.aged = TRUE]
  <2>1. row' = [row EXCEPT ![s] = q] /\ row[s] \in Row /\ Chain(row[s])
    BY <1>9, RowsAreSound DEF MarkerAges
  <2>2. /\ q \in Row /\ q.desired = row[s].desired /\ q.canceled = row[s].canceled
        /\ q.desiredVersion = row[s].desiredVersion
        /\ q.appliedVersion = row[s].appliedVersion
        /\ q.inFlight = row[s].inFlight /\ q.inFlightState = row[s].inFlightState
    BY <2>1 DEF Row
  <2> HIDE DEF q
  <2>3. Chain(q)
    BY <2>1, <2>2 DEF Chain, Marked
  <2>4. Forward(row[s], q) /\ Keeps(row[s], q)
    BY <2>1, <2>2, <2>3, RowFields DEF Forward, Keeps, SameMarker
  <2> QED BY <2>1, <2>4, OneRowMoves
<1>10. CASE UNCHANGED row
  BY <1>10, RowsStay
<1>11. \/ UNCHANGED row
       \/ \E d \in Disputes : DisputeNotice(d) \/ ReviewDisputeHold(d)
       \/ \E s \in Subs : SubscriptionEvent(s) \/ MarkerAges(s)
       \/ \E x \in Subjects : DisableCompany(x) \/ ExecutorClaims(x)
       \/ \E c \in calls : SettleCollection(c)
       \/ CronStart \/ CronPosts
  BY DEF Next, vars, CronReads, StripeCancels, DashboardEdit, StripeExecutes, StripeRejects,
         CallAbandoned, CronSent, CronHasNothing, CronDies
<1> QED BY <1>1, <1>2, <1>3, <1>4, <1>5, <1>6, <1>7, <1>8, <1>9, <1>10, <1>11

-----------------------------------------------------------------------------
(* Types. *)

LEMMA CallType ==
    ASSUME NEW c \in Call, NEW stage \in {"sending", "ok", "failed", "orphan"}
    PROVE  [c EXCEPT !.stage = stage] \in Call /\ KeyOf([c EXCEPT !.stage = stage]) = KeyOf(c)
BY DEF Call, KeyOf

LEMMA NewCallType ==
    ASSUME NEW s \in Subs, NEW r \in Row, Chain(r), Marked(r),
           NEW owner \in {"webhook", "cron"}
    PROVE  /\ CallFor(owner, s, r) \in Call
           /\ KeyOf(CallFor(owner, s, r)) = [sub |-> s, version |-> r.inFlight, state |-> r.inFlightState]
<1>1. r.inFlight \in Nat /\ r.inFlightState \in CollectionState
  BY RowFields DEF Chain
<1> QED BY <1>1 DEF CallFor, Call, KeyOf

\* The claims a reconcile hands back are calls for rows it left marked.
LEMMA CronCallType ==
    ASSUME NEW rs, NEW obs, \A s \in Subs : rs[s] \in Row /\ Chain(rs[s]),
           NEW c \in CronCalls(rs, obs)
    PROVE  /\ c \in Call
           /\ \E s \in Subs : LET q == ReconcileRows(rs, obs)[s]
                              IN Marked(q) /\ KeyOf(c) = [sub |-> s, version |-> q.inFlight,
                                                          state |-> q.inFlightState]
<1>1. PICK s \in Subs : HandsBack(rs[s], obs[s]) /\ c = CallFor("cron", s, ReconcileRow(rs[s], obs[s]))
  BY DEF CronCalls
<1> DEFINE q == ReconcileRow(rs[s], obs[s])
<1>2. q \in Row /\ Chain(q) /\ Marked(q)
  BY <1>1, ReconciledRow DEF Forward
<1>3. ReconcileRows(rs, obs)[s] = q
  BY DEF ReconcileRows
<1> HIDE DEF q
<1>4. c = CallFor("cron", s, q)
  BY <1>1 DEF q
<1> QED BY <1>2, <1>3, <1>4, NewCallType

\* What every step adds to the calls and to what Stripe has carried out.
MarkedKeys == {MarkerKey(s) : s \in {t \in Subs : Marked(row[t])}}

CallsMove ==
    /\ calls' \subseteq Call
    /\ \A c \in calls' : KeyOf(c) \in {KeyOf(k) : k \in calls} \/ KeyOf(c) \in MarkedKeys'
    /\ executed' \subseteq executed \cup {KeyOf(k) : k \in calls}

LEMMA CallsShrink ==
    ASSUME TypeOK, calls' \subseteq calls, executed' = executed
    PROVE  CallsMove
BY DEF CallsMove, TypeOK

LEMMA CallMoves ==
    ASSUME TypeOK, NEW c \in calls, NEW stage \in {"sending", "ok", "failed", "orphan"},
           calls' \subseteq (calls \cup {[c EXCEPT !.stage = stage]}),
           executed' \subseteq executed \cup {KeyOf(c)}
    PROVE  CallsMove
<1>1. c \in Call /\ calls \subseteq Call
  BY DEF TypeOK
<1>2. [c EXCEPT !.stage = stage] \in Call /\ KeyOf([c EXCEPT !.stage = stage]) = KeyOf(c)
  BY <1>1, CallType
<1> QED BY <1>1, <1>2 DEF CallsMove

\* A call leaves or moves to another stage.
LEMMA MovedCall ==
    ASSUME TypeOK, NEW c \in calls, executed' \subseteq executed \cup {KeyOf(c)},
           \/ calls' = calls \ {c}
           \/ calls' = Moved(c, "ok") \/ calls' = Moved(c, "failed") \/ calls' = Moved(c, "orphan")
    PROVE  CallsMove
<1>1. CASE calls' = calls \ {c}
  BY <1>1 DEF CallsMove, TypeOK
<1>2. ASSUME NEW stage \in {"ok", "failed", "orphan"}, calls' = Moved(c, stage) PROVE CallsMove
  <2>1. calls' \subseteq (calls \cup {[c EXCEPT !.stage = stage]})
    BY <1>2 DEF Moved
  <2> QED BY <2>1, CallMoves
<1> QED BY <1>1, <1>2

\* A reconcile adds the calls for the rows it hands back.
LEMMA CronCallsMove ==
    ASSUME TypeOK, NEW rs, NEW obs, \A s \in Subs : rs[s] \in Row /\ Chain(rs[s]),
           row' = ReconcileRows(rs, obs), calls' = calls \cup CronCalls(rs, obs),
           executed' = executed
    PROVE  CallsMove
<1>1. \A c \in CronCalls(rs, obs) : c \in Call /\ KeyOf(c) \in MarkedKeys'
  BY CronCallType DEF MarkedKeys, MarkerKey
<1> QED BY <1>1 DEF CallsMove, TypeOK

LEMMA StepMovesCalls ==
    ASSUME TypeOK, VersionChain, [Next]_vars
    PROVE  CallsMove
<1>1. ASSUME NEW x \in Subjects, ExecutorClaims(x) PROVE CallsMove
  <2> DEFINE s == latest[x]
             r == ClaimCollection(row[s])
  <2>1. s \in Subs /\ row' = [row EXCEPT ![s] = r] /\ row \in [Subs -> Row] /\ executed' = executed
    BY <1>1 DEF ExecutorClaims, TypeOK
  <2>2. calls' = calls \/ (Claimable(row[s]) /\ calls' = calls \cup {CallFor("webhook", s, r)})
    BY <1>1 DEF ExecutorClaims
  <2>3. r \in Row /\ Chain(r) /\ (Claimable(row[s]) => Marked(r))
    BY <2>1, RowsAreSound, ClaimRow DEF Forward
  <2> HIDE DEF r, s
  <2>4. row'[s] = r
    BY <2>1
  <2>5. ASSUME Claimable(row[s])
        PROVE  CallFor("webhook", s, r) \in Call /\ KeyOf(CallFor("webhook", s, r)) \in MarkedKeys'
    BY <2>1, <2>3, <2>4, <2>5, NewCallType DEF MarkedKeys, MarkerKey
  <2> QED BY <2>1, <2>2, <2>5, CallsShrink DEF CallsMove, TypeOK
<1>2. ASSUME NEW c \in calls, StripeExecutes(c) PROVE CallsMove
  <2>1. executed' \subseteq executed \cup {KeyOf(c)}
    BY <1>2 DEF StripeExecutes
  <2>2. calls' = calls \ {c} \/ calls' = Moved(c, "ok") \/ calls' = Moved(c, "failed")
    BY <1>2 DEF StripeExecutes
  <2> QED BY <2>1, <2>2, MovedCall
<1>3. ASSUME NEW c \in calls, StripeRejects(c) \/ CallAbandoned(c) PROVE CallsMove
  <2>1. calls' = calls \ {c} \/ calls' = Moved(c, "failed") \/ calls' = Moved(c, "orphan")
    BY <1>3 DEF StripeRejects, CallAbandoned
  <2>2. executed' = executed
    BY <1>3 DEF StripeRejects, CallAbandoned
  <2> QED BY <2>1, <2>2, MovedCall
<1>4. ASSUME NEW c \in calls, SettleCollection(c) PROVE CallsMove
  BY <1>4, CallsShrink DEF SettleCollection
<1>5. ASSUME CronStart PROVE CallsMove
  BY <1>5, RowsAreSound, CronCallsMove DEF CronStart
<1>6. ASSUME CronPosts PROVE CallsMove
  <2>1. PICK n \in SweepAnswers :
           LET swept == IF n = <<>> THEN row ELSE RowAfter(n[1], n[2])
           IN row' = ReconcileRows(swept, cron.obs) /\ calls' = calls \cup CronCalls(swept, cron.obs)
    BY <1>6 DEF CronPosts
  <2> DEFINE rs == IF n = <<>> THEN row ELSE RowAfter(n[1], n[2])
  <2>2. \A s \in Subs : rs[s] \in Row /\ Chain(rs[s])
    <3>1. n # <<>> => n[1] \in Disputes
      BY DEF SweepAnswers
    <3> QED BY <3>1, RowsAreSound, NoticedRows
  <2>3. executed' = executed
    BY <1>6 DEF CronPosts
  <2> HIDE DEF rs
  <2>4. row' = ReconcileRows(rs, cron.obs) /\ calls' = calls \cup CronCalls(rs, cron.obs)
    BY <2>1 DEF rs
  <2> QED BY <2>2, <2>3, <2>4, CronCallsMove
<1>7. ASSUME CronDies PROVE CallsMove
  <2>1. executed' = executed /\ calls \subseteq Call
    BY <1>7 DEF CronDies, TypeOK
  <2>2. ASSUME NEW c \in calls', c \notin calls
        PROVE  \E k \in calls : c = [k EXCEPT !.stage = "orphan"]
    BY <1>7, <2>2 DEF CronDies
  <2>3. ASSUME NEW c \in calls'
        PROVE  c \in Call /\ \E k \in calls : KeyOf(c) = KeyOf(k)
    <3>1. CASE c \in calls
      BY <2>1, <3>1
    <3>2. CASE c \notin calls
      <4>1. PICK k \in calls : c = [k EXCEPT !.stage = "orphan"]
        BY <2>2, <3>2
      <4> QED BY <2>1, <4>1, CallType
    <3> QED BY <3>1, <3>2
  <2> QED BY <2>1, <2>3 DEF CallsMove
<1>8. CASE UNCHANGED <<calls, executed>>
  BY <1>8, CallsShrink
<1>9. \/ UNCHANGED <<calls, executed>>
      \/ \E x \in Subjects : ExecutorClaims(x)
      \/ \E c \in calls : StripeExecutes(c) \/ StripeRejects(c) \/ CallAbandoned(c) \/ SettleCollection(c)
      \/ CronStart \/ CronPosts \/ CronDies
  BY DEF Next, vars, DisputeNotice, ReviewDisputeHold, SubscriptionEvent, CronReads, MarkerAges,
         StripeCancels, DashboardEdit, DisableCompany, CronSent, CronHasNothing
<1> QED BY <1>1, <1>2, <1>3, <1>4, <1>5, <1>6, <1>7, <1>8, <1>9

\* The table of rows keeps its subscriptions.
LEMMA StepKeepsTable ==
    ASSUME TypeOK, [Next]_vars
    PROVE  row' = [s \in Subs |-> row'[s]]
<1>1. row \in [Subs -> Row]
  BY DEF TypeOK
<1>2. ASSUME NEW d \in Disputes, NEW st
      PROVE  RowAfter(d, st) = [s \in Subs |-> RowAfter(d, st)[s]]
  BY <1>1 DEF RowAfter
<1>3. ASSUME NEW d \in Disputes, DisputeNotice(d) \/ ReviewDisputeHold(d)
      PROVE  row' = [s \in Subs |-> row'[s]]
  BY <1>1, <1>2, <1>3 DEF DisputeNotice, ReviewDisputeHold
<1>4. ASSUME NEW s \in Subs, SubscriptionEvent(s) \/ MarkerAges(s)
      PROVE  row' = [t \in Subs |-> row'[t]]
  BY <1>1, <1>4 DEF SubscriptionEvent, MarkerAges
<1>5. ASSUME NEW x \in Subjects, DisableCompany(x) \/ ExecutorClaims(x)
      PROVE  row' = [s \in Subs |-> row'[s]]
  BY <1>1, <1>5 DEF DisableCompany, ExecutorClaims
<1>6. ASSUME NEW c \in calls, SettleCollection(c)
      PROVE  row' = [s \in Subs |-> row'[s]]
  BY <1>1, <1>6 DEF SettleCollection
<1>7. ASSUME CronStart \/ CronPosts
      PROVE  row' = [s \in Subs |-> row'[s]]
  BY <1>7 DEF CronStart, CronPosts, ReconcileRows
<1>8. CASE UNCHANGED row
  BY <1>1, <1>8
<1>9. \/ UNCHANGED row
      \/ \E d \in Disputes : DisputeNotice(d) \/ ReviewDisputeHold(d)
      \/ \E s \in Subs : SubscriptionEvent(s) \/ MarkerAges(s)
      \/ \E x \in Subjects : DisableCompany(x) \/ ExecutorClaims(x)
      \/ \E c \in calls : SettleCollection(c)
      \/ CronStart \/ CronPosts
  BY DEF Next, vars, CronReads, StripeCancels, DashboardEdit, StripeExecutes, StripeRejects,
         CallAbandoned, CronSent, CronHasNothing, CronDies
<1> QED BY <1>3, <1>4, <1>5, <1>6, <1>7, <1>8, <1>9

HoldType == [sub : Subs \cup {NoSub}, state : HoldState]

LEMMA HoldAfterType ==
    ASSUME TypeOK, NEW d \in Disputes, NEW st \in Reports(d)
    PROVE  HoldAfter(d, st) \in [Disputes -> HoldType]
<1> DEFINE e == entSub[PayerOf[d]]
<1>1. st \in HoldState
  BY DEF Reports, HoldState, TypeOK
<1>2. e \in Subs
  BY DisputesHavePayers DEF TypeOK
<1> HIDE DEF e
<1>3. hold \in [Disputes -> HoldType] /\ hold[d] \in HoldType
  BY DEF TypeOK, HoldType
<1>4. UpsertHold(hold[d], st, e) \in HoldType
  BY <1>1, <1>2, <1>3 DEF UpsertHold, HoldType
<1> QED BY <1>3, <1>4 DEF HoldAfter, e

\* What every step leaves alone, or moves within its type.
OthersMove ==
    /\ hold' \in [Disputes -> HoldType]
    /\ entSub' \in [Subjects -> Subs] /\ latest' \in [Subjects -> Subs]
    /\ disabled' \subseteq Companies /\ handoffs' \subseteq Subjects
    /\ cron' \in Cron /\ stripe' \in [Subs -> CollectionState]
    /\ verdict' \in [Disputes -> HoldState] /\ faults' \in Nat

LEMMA OthersStay ==
    ASSUME TypeOK
    PROVE  /\ hold \in [Disputes -> HoldType]
           /\ entSub \in [Subjects -> Subs] /\ latest \in [Subjects -> Subs]
           /\ disabled \subseteq Companies /\ handoffs \subseteq Subjects
           /\ cron \in Cron /\ stripe \in [Subs -> CollectionState]
           /\ verdict \in [Disputes -> HoldState] /\ faults \in Nat
BY DEF TypeOK, HoldType

LEMMA LatestTypes ==
    /\ \A written : LatestAfter(written) \subseteq [Subjects -> Subs]
    /\ \A reads : EntitlementAfter(reads) \subseteq [Subjects -> Subs]
BY DEF LatestAfter, EntitlementAfter

LEMMA FaultType ==
    ASSUME TypeOK, Fault \/ UNCHANGED faults PROVE faults' \in Nat
BY DEF Fault, TypeOK

LEMMA CronFields ==
    ASSUME TypeOK
    PROVE  /\ cron.pc \in {"idle", "sending", "reading", "repairing"}
           /\ cron.todo \subseteq Subs /\ cron.obs \in [Subs -> CollectionState \cup {Unread}]
BY DEF TypeOK, Cron

LEMMA CronToType ==
    ASSUME NEW pc \in {"idle", "sending", "reading", "repairing"}, NEW todo \in SUBSET Subs,
           NEW obs \in [Subs -> CollectionState \cup {Unread}], CronTo(pc, todo, obs)
    PROVE  cron' \in Cron
BY DEF CronTo, Cron

LEMMA StepMovesOthers ==
    ASSUME TypeOK, [Next]_vars
    PROVE  OthersMove
<1> USE OthersStay
<1>0. NothingRead \in [Subs -> CollectionState \cup {Unread}] /\ {} \in SUBSET Subs
  BY DEF NothingRead
<1>1. ASSUME NEW d \in Disputes, DisputeNotice(d) PROVE OthersMove
  <2>1. PICK st \in Reports(d) : hold' = HoldAfter(d, st)
                                 /\ latest' \in LatestAfter(Changed(RowAfter(d, st)))
                                 /\ Handoff(PayerOf[d], RowAfter(d, st)[entSub[PayerOf[d]]])
    BY <1>1 DEF DisputeNotice
  <2>2. hold' \in [Disputes -> HoldType]
    BY <2>1, HoldAfterType
  <2>3. handoffs' \subseteq Subjects
    BY <2>1, DisputesHavePayers DEF Handoff
  <2>4. latest' \in [Subjects -> Subs]
    BY <2>1, LatestTypes
  <2> QED BY <1>1, <2>2, <2>3, <2>4 DEF DisputeNotice, OthersMove
<1>2. ASSUME NEW d \in Disputes, ReviewDisputeHold(d) PROVE OthersMove
  <2>1. PICK st \in {"won", "lost"} : hold' = [hold EXCEPT ![d].state = st]
    BY <1>2 DEF ReviewDisputeHold
  <2>2. hold' \in [Disputes -> HoldType]
    BY <2>1 DEF HoldType, HoldState
  <2>3. latest' \in [Subjects -> Subs]
    BY <1>2, LatestTypes DEF ReviewDisputeHold
  <2> QED BY <1>2, <2>2, <2>3 DEF ReviewDisputeHold, OthersMove
<1>3. ASSUME NEW s \in Subs, SubscriptionEvent(s) PROVE OthersMove
  <2>1. latest' \in [Subjects -> Subs] /\ entSub' \in [Subjects -> Subs]
    BY <1>3, LatestTypes DEF SubscriptionEvent
  <2>2. handoffs' \subseteq Subjects
    BY <1>3, SubjectsOwnRows DEF SubscriptionEvent, Handoff
  <2> QED BY <1>3, <2>1, <2>2 DEF SubscriptionEvent, OthersMove
<1>4. ASSUME NEW x \in Subjects, DisableCompany(x) PROVE OthersMove
  <2>1. latest' \in [Subjects -> Subs] /\ disabled' \subseteq Companies
    BY <1>4, LatestTypes DEF DisableCompany
  <2> QED BY <1>4, <2>1 DEF DisableCompany, OthersMove
<1>5. ASSUME NEW x \in Subjects, ExecutorClaims(x) PROVE OthersMove
  <2>1. faults' \in Nat /\ handoffs' \subseteq Subjects
    BY <1>5, FaultType DEF ExecutorClaims
  <2> QED BY <1>5, <2>1 DEF ExecutorClaims, OthersMove
<1>6. ASSUME NEW c \in calls, StripeExecutes(c) PROVE OthersMove
  <2>1. c.sub \in Subs /\ c.state \in CollectionState
    BY DEF TypeOK, Call
  <2>2. stripe' \in [Subs -> CollectionState]
    BY <1>6, <2>1 DEF StripeExecutes
  <2>3. faults' \in Nat
    BY <1>6, FaultType DEF StripeExecutes
  <2> QED BY <1>6, <2>2, <2>3 DEF StripeExecutes, OthersMove
<1>7. ASSUME NEW c \in calls, StripeRejects(c) \/ CallAbandoned(c) \/ SettleCollection(c)
      PROVE  OthersMove
  <2>1. faults' \in Nat
    BY <1>7, FaultType DEF StripeRejects, CallAbandoned, SettleCollection
  <2> QED BY <1>7, <2>1 DEF StripeRejects, CallAbandoned, SettleCollection, OthersMove
<1>8. ASSUME CronStart PROVE OthersMove
  <2>1. cron' \in Cron
    BY <1>0, <1>8, CronToType DEF CronStart
  <2>2. latest' \in [Subjects -> Subs]
    BY <1>8, LatestTypes DEF CronStart
  <2> QED BY <1>8, <2>1, <2>2 DEF CronStart, OthersMove
<1>9. ASSUME CronSent \/ CronHasNothing \/ CronDies PROVE OthersMove
  <2>1. cron' \in Cron
    BY <1>0, <1>9, CronFields, CronToType DEF CronSent, CronHasNothing, CronDies
  <2>2. faults' \in Nat
    BY <1>9, FaultType DEF CronSent, CronHasNothing, CronDies
  <2> QED BY <1>9, <2>1, <2>2 DEF CronSent, CronHasNothing, CronDies, OthersMove
<1>10. ASSUME NEW s \in Subs, CronReads(s) PROVE OthersMove
  <2>1. cron.todo \ {s} \in SUBSET Subs /\ cron.obs \in [Subs -> CollectionState \cup {Unread}]
        /\ [cron.obs EXCEPT ![s] = stripe[s]] \in [Subs -> CollectionState \cup {Unread}]
    BY CronFields
  <2>2. cron' \in Cron
    BY <1>10, <2>1, CronToType DEF CronReads
  <2>3. faults' \in Nat
    BY <1>10, FaultType DEF CronReads
  <2> QED BY <1>10, <2>2, <2>3 DEF CronReads, OthersMove
<1>11. ASSUME CronPosts PROVE OthersMove
  <2>1. cron' \in Cron
    BY <1>0, <1>11, CronToType DEF CronPosts
  <2>2. latest' \in [Subjects -> Subs] /\ entSub' \in [Subjects -> Subs]
    BY <1>11, LatestTypes DEF CronPosts
  <2>3. PICK n \in SweepAnswers : hold' = IF n = <<>> THEN hold ELSE HoldAfter(n[1], n[2])
    BY <1>11 DEF CronPosts
  <2>4. n # <<>> => n[1] \in Disputes /\ n[2] \in Reports(n[1])
    BY DEF SweepAnswers
  <2>5. hold' \in [Disputes -> HoldType]
    BY <2>3, <2>4, HoldAfterType
  <2> QED BY <1>11, <2>1, <2>2, <2>5 DEF CronPosts, OthersMove
<1>12. ASSUME NEW s \in Subs, MarkerAges(s) \/ StripeCancels(s) \/ DashboardEdit(s)
       PROVE  OthersMove
  <2>1. stripe' \in [Subs -> CollectionState]
    BY <1>12 DEF MarkerAges, StripeCancels, DashboardEdit, CollectionState
  <2>2. faults' \in Nat
    BY <1>12, FaultType DEF MarkerAges, StripeCancels, DashboardEdit
  <2> QED BY <1>12, <2>1, <2>2 DEF MarkerAges, StripeCancels, DashboardEdit, OthersMove
<1>13. CASE UNCHANGED vars
  BY <1>13 DEF vars, OthersMove
<1> QED
  BY <1>1, <1>2, <1>3, <1>4, <1>5, <1>6, <1>7, <1>8, <1>9, <1>10, <1>11, <1>12, <1>13 DEF Next

-----------------------------------------------------------------------------
(* The theorems. *)

Sound == TypeOK /\ VersionChain

LEMMA InitSound == ASSUME Init PROVE Sound
<1> USE DEF Init
<1>1. row \in [Subs -> Row]
  BY DEF Row, CollectionState, NoVersion
<1>2. VersionChain
  BY DEF VersionChain, Marked, NoVersion
<1>3. cron \in Cron
  BY DEF Cron, NothingRead
<1>4. hold \in [Disputes -> [sub : Subs \cup {NoSub}, state : HoldState]]
  BY DEF HoldState
<1>5. stripe \in [Subs -> CollectionState] /\ verdict \in [Disputes -> HoldState]
  BY DEF CollectionState, HoldState
<1> QED BY <1>1, <1>2, <1>3, <1>4, <1>5 DEF Sound, TypeOK

LEMMA StepSound == ASSUME Sound, [Next]_vars PROVE Sound'
<1>1. RowsMove
  BY StepMovesRows DEF Sound
<1>2. row' \in [Subs -> Row]
  BY <1>1, StepKeepsTable DEF RowsMove, Forward, Sound
<1>3. VersionChain'
  BY <1>1 DEF RowsMove, Forward, Chain, VersionChain, Marked
<1>4. OthersMove
  BY StepMovesOthers DEF Sound
<1>5. CallsMove
  BY StepMovesCalls DEF Sound
<1>6. executed' \subseteq Key
  <2>1. \A k \in calls : KeyOf(k) \in Key
    BY DEF Sound, TypeOK, Call, KeyOf, Key
  <2> QED BY <1>5, <2>1 DEF CallsMove, Sound, TypeOK
<1> QED BY <1>2, <1>3, <1>4, <1>5, <1>6 DEF Sound, TypeOK, OthersMove, CallsMove, HoldType

\* Every variable keeps its type, for every number of subscriptions, disputes
\* and faults: the schema, the request and the answer of every handler fit.
THEOREM TypeCorrect == Spec => []TypeOK
<1>1. Init => Sound
  BY InitSound
<1>2. Sound /\ [Next]_vars => Sound'
  BY StepSound
<1>3. Sound => TypeOK
  BY DEF Sound
<1> QED BY <1>1, <1>2, <1>3, PTL DEF Spec

\* No transaction of any race breaks a CHECK of billing_subscriptions: applied
\* never passes desired, and a marker lies between them and carries a state.
THEOREM VersionChainHolds == Spec => []VersionChain
<1>1. Init => Sound
  BY InitSound
<1>2. Sound /\ [Next]_vars => Sound'
  BY StepSound
<1>3. Sound => VersionChain
  BY DEF Sound
<1> QED BY <1>1, <1>2, <1>3, PTL DEF Spec

\* A cancel is for ever, a new state has a new version and no version goes
\* back, whatever transactions of webhooks, executors, operators and the
\* reconcile interleave.
THEOREM NeverBackwards == Spec => ForwardOnly
<1>1. Init => Sound
  BY InitSound
<1>2. Sound /\ [Next]_vars => Sound'
  BY StepSound
<1> DEFINE Move == \A s \in Subs :
      /\ row[s].desired = "canceled" => row'[s].desired = "canceled"
      /\ row'[s].desired # row[s].desired => row'[s].desiredVersion > row[s].desiredVersion
      /\ row'[s].desiredVersion >= row[s].desiredVersion
      /\ row'[s].appliedVersion >= row[s].appliedVersion
      /\ row[s].canceled => row'[s].canceled
<1>3. Sound /\ [Next]_vars => [Move]_vars
  <2> SUFFICES ASSUME Sound, [Next]_vars, NEW s \in Subs PROVE Move
    OBVIOUS
  <2>1. RowsMove
    BY StepMovesRows DEF Sound
  <2>2. \A t \in Subs : row[t] \in Row
    BY DEF Sound, TypeOK
  <2> QED BY <2>1, <2>2, RowFields DEF RowsMove, Forward
<1>4. ForwardOnly <=> [][Move]_vars
  BY DEF ForwardOnly
<1> HIDE DEF Move
<1> QED BY <1>1, <1>2, <1>3, <1>4, PTL DEF Spec

\* What a key may be: no newer than its row's newest version, and at that
\* version the row's own state.
KeysBounded ==
    \A k \in Keys : /\ k.sub \in Subs /\ k.version \in Nat
                    /\ k.version <= row[k.sub].desiredVersion
                    /\ k.version = row[k.sub].desiredVersion => k.state = row[k.sub].desired

KeysSound == Sound /\ KeysBounded /\ KeyDeterminesState

\* A step adds no key but a row's newest version with its newest state.
LEMMA NewKeys ==
    ASSUME Sound, [Next]_vars, NEW k \in Keys', k \notin Keys
    PROVE  /\ k.sub \in Subs /\ k.version = row'[k.sub].desiredVersion
           /\ k.state = row'[k.sub].desired
<1>1. RowsMove /\ CallsMove
  BY StepMovesRows, StepMovesCalls DEF Sound
<1>2. k \in MarkedKeys'
  BY <1>1 DEF CallsMove, Keys, MarkedKeys
<1>3. PICK s \in Subs : Marked(row'[s]) /\ k = MarkerKey(s)'
  BY <1>2 DEF MarkedKeys, Marked
<1>4. k.sub = s /\ k.version = row'[s].inFlight /\ k.state = row'[s].inFlightState
  BY <1>3 DEF MarkerKey
<1>5. Fresh(row'[s])
  <2> SUFFICES ASSUME SameMarker(row[s], row'[s]) PROVE FALSE
    BY <1>1, <1>3 DEF RowsMove, Keeps
  <2>1. Marked(row[s]) /\ MarkerKey(s) = k
    BY <1>3 DEF SameMarker, Marked, MarkerKey
  <2> QED BY <2>1 DEF Keys
<1> QED BY <1>4, <1>5 DEF Fresh

LEMMA StepKeys == ASSUME KeysSound, [Next]_vars PROVE KeysSound'
<1>1. Sound' /\ RowsMove
  BY StepSound, StepMovesRows DEF KeysSound, Sound
<1>2. \A s \in Subs : row[s] \in Row /\ row'[s] \in Row
  BY <1>1 DEF KeysSound, Sound, TypeOK
<1>3. ASSUME NEW k \in Keys'
      PROVE  /\ k.sub \in Subs /\ k.version \in Nat
             /\ k.version <= row'[k.sub].desiredVersion
             /\ k.version = row'[k.sub].desiredVersion => k.state = row'[k.sub].desired
             /\ k \in Keys \/ (k.version = row'[k.sub].desiredVersion)
  <2>1. CASE k \in Keys
    <3>1. /\ k.sub \in Subs /\ k.version \in Nat
          /\ k.version <= row[k.sub].desiredVersion
          /\ k.version = row[k.sub].desiredVersion => k.state = row[k.sub].desired
      BY <2>1 DEF KeysSound, KeysBounded
    <3>2. /\ row[k.sub].desiredVersion <= row'[k.sub].desiredVersion
          /\ row[k.sub].desired # row'[k.sub].desired
                => row[k.sub].desiredVersion < row'[k.sub].desiredVersion
      BY <1>1, <3>1 DEF RowsMove, Forward
    <3> QED BY <1>2, <2>1, <3>1, <3>2, RowFields
  <2>2. CASE k \notin Keys
    BY <1>2, <2>2, NewKeys, RowFields DEF KeysSound
  <2> QED BY <2>1, <2>2
<1>4. KeysBounded'
  BY <1>3 DEF KeysBounded
<1>5. KeyDeterminesState'
  <2> SUFFICES ASSUME NEW k \in Keys', NEW l \in Keys', k.sub = l.sub, k.version = l.version
               PROVE  k.state = l.state
    BY DEF KeyDeterminesState
  <2>1. CASE k \in Keys /\ l \in Keys
    BY <2>1 DEF KeysSound, KeyDeterminesState
  <2>2. CASE k.version = row'[k.sub].desiredVersion
    BY <1>3, <2>2
  <2> QED BY <1>3, <2>1, <2>2
<1> QED BY <1>1, <1>4, <1>5 DEF KeysSound

\* An idempotency key never stands for two states: whichever executor sends,
\* re-sends or abandons a version, Stripe's answer to its key is about the
\* state the version was claimed with.
THEOREM KeysAreStable == Spec => []KeyDeterminesState
<1>1. Init => KeysSound
  <2> SUFFICES ASSUME Init PROVE KeysSound
    OBVIOUS
  <2>1. Keys = {}
    BY DEF Init, Keys, Marked
  <2> QED BY <2>1, InitSound DEF KeysSound, KeysBounded, KeyDeterminesState
<1>2. KeysSound /\ [Next]_vars => KeysSound'
  BY StepKeys
<1>3. KeysSound => KeyDeterminesState
  BY DEF KeysSound
<1> QED BY <1>1, <1>2, <1>3, PTL DEF Spec

-----------------------------------------------------------------------------
(* What follows holds and evidence. *)

\* A subject's pointers stay among its own rows, and a hold lies on a row of
\* the subject its dispute's charge names.
Placed ==
    /\ \A x \in Subjects : SubsOf(x) # {} => entSub[x] \in SubsOf(x) /\ latest[x] \in SubsOf(x)
    /\ \A d \in Disputes : hold[d].sub # NoSub => SubjectOf[hold[d].sub] = PayerOf[d]

\* A transaction other than a recomputation leaves the wanted state, or cancels.
SameWish(r, q) == q.desired = r.desired \/ q.desired = "canceled"

LEMMA WishesOfOneRow ==
    ASSUME NEW r \in Row, NEW o
    PROVE  /\ SameWish(r, ClaimCollection(r)) /\ ClaimCollection(r).desired = r.desired
           /\ SameWish(r, CancelCollection(r))
           /\ SameWish(r, ObserveCanceled(r))
           /\ SettleSuccess(r).desired = r.desired
           /\ SettleFailure(r).desired = r.desired
           /\ RepairVersion(r).desired = r.desired
           /\ TimedOut(r).desired = r.desired
BY DEF SameWish, ClaimCollection, CancelCollection, ObserveCanceled, SettleSuccess,
       SettleFailure, Unmark, RepairVersion, TimedOut, Row

LEMMA SettledWish ==
    ASSUME NEW r \in Row, NEW c
    PROVE  SettledRow(r, c).desired = r.desired
BY WishesOfOneRow DEF SettledRow

LEMMA ReconciledWish ==
    ASSUME NEW r \in Row, Chain(r), NEW o
    PROVE  SameWish(r, ReconcileRow(r, o))
<1> DEFINE a == IF o = "canceled" /\ ~r.canceled THEN ObserveCanceled(r) ELSE r
           seen == Observed(r, o)
           due == TimedOut(seen)
<1>1. a \in Row /\ SameWish(r, a)
  BY ObserveCanceledRow, WishesOfOneRow DEF Forward, SameWish
<1>2. seen \in {r, a, SettleSuccess(a), RepairVersion(a)}
  BY DEF Observed
<1>3. seen \in Row /\ Chain(seen)
  BY ObservedRow DEF Forward
<1> HIDE DEF a
<1>4. SameWish(r, seen)
  BY <1>1, <1>2, WishesOfOneRow DEF SameWish
<1> HIDE DEF seen
<1>5. due \in Row /\ due.desired = seen.desired
  BY <1>3, TimedOutRow, WishesOfOneRow DEF Forward
<1>6. ReconcileRow(r, o) = ClaimCollection(due)
  BY DEF ReconcileRow, seen
<1> HIDE DEF due
<1> QED BY <1>4, <1>5, <1>6, WishesOfOneRow DEF SameWish

\* The holds on a row are told by their disputes one by one.
LEMMA HoldsAreLocal ==
    ASSUME NEW g, NEW h, NEW s,
           \A d \in Disputes : /\ g[d].sub = s <=> h[d].sub = s
                               /\ g[d].sub = s => g[d].state = h[d].state
    PROVE  HoldsOf(g, s) = HoldsOf(h, s)
BY DEF HoldsOf

Wanted(rs, hs, s) == rs[s].desired # "canceled" => rs[s].desired = Fold(HoldsOf(hs, s))

LEMMA RecomputedIsWanted ==
    ASSUME NEW r \in Row, NEW states, RecomputeDesired(r, states).desired # "canceled"
    PROVE  RecomputeDesired(r, states).desired = Fold(states)
BY DEF RecomputeDesired, Row

\* A notice recomputes the only row its payer has, or touches no hold on it.
LEMMA NoticeKeepsWanted ==
    ASSUME Sound, Placed, NEW d \in Disputes, NEW st, NEW s \in Subs, Sole(s), Wanted(row, hold, s)
    PROVE  Wanted(RowAfter(d, st), HoldAfter(d, st), s)
<1> DEFINE e == entSub[PayerOf[d]]
           h == UpsertHold(hold[d], st, e)
<1>1. /\ e \in Subs /\ SubjectOf[e] = PayerOf[d] /\ SubjectOf[s] \in Subjects
      /\ s # NoSub /\ e # NoSub
  <2>1. PayerOf[d] \in Subjects /\ SubsOf(PayerOf[d]) # {}
    BY DisputesHavePayers, PayersSubscribe DEF SubsOf
  <2>2. e \in SubsOf(PayerOf[d])
    BY <2>1 DEF Placed
  <2> QED BY <2>2, SubsAreIds, SubjectsOwnRows DEF SubsOf, NoSub
<1>2. hold \in [Disputes -> HoldType] /\ row \in [Subs -> Row] /\ hold[d] \in HoldType
  BY DEF Sound, TypeOK, HoldType
<1>3. HoldAfter(d, st) = [hold EXCEPT ![d] = h]
  BY DEF HoldAfter
<1>4. ~Advances(hold[d], st) => h = hold[d]
  BY DEF UpsertHold, Advances
<1>5. hold[d].sub # NoSub => h.sub = hold[d].sub
  BY <1>2 DEF UpsertHold, HoldType
<1>6. hold[d].sub = NoSub => h.sub = e
  BY DEF UpsertHold
<1>7. CASE ~Advances(hold[d], st)
  <2>1. HoldAfter(d, st) = hold /\ RowAfter(d, st) = row
    BY <1>2, <1>3, <1>4, <1>7 DEF RowAfter
  <2> QED BY <2>1
<1>8. CASE Advances(hold[d], st) /\ e = s
  <2>1. RowAfter(d, st)[s] = RecomputeDesired(row[s], HoldsOf(HoldAfter(d, st), s))
    BY <1>2, <1>8 DEF RowAfter
  <2>2. row[s] \in Row
    BY <1>2
  <2> QED BY <2>1, <2>2, RecomputedIsWanted DEF Wanted
<1>9. CASE e # s
  <2>1. RowAfter(d, st)[s] = row[s]
    BY <1>2, <1>9 DEF RowAfter
  <2>2. SubjectOf[s] # PayerOf[d]
    BY <1>1, <1>9 DEF Sole, SubsOf
  <2>3. hold[d].sub # s
    BY <1>1, <2>2 DEF Placed
  <2>4. h.sub # s
    BY <1>5, <1>6, <1>9, <2>3
  <2> HIDE DEF e, h
  <2>5. \A c \in Disputes : /\ hold[c].sub = s <=> HoldAfter(d, st)[c].sub = s
                            /\ hold[c].sub = s => hold[c].state = HoldAfter(d, st)[c].state
    BY <1>2, <1>3, <2>3, <2>4
  <2>6. HoldsOf(hold, s) = HoldsOf(HoldAfter(d, st), s)
    BY <2>5, HoldsAreLocal
  <2> QED BY <2>1, <2>6 DEF Wanted
<1> QED BY <1>7, <1>8, <1>9

Followed == Sound /\ Placed /\ DesiredFollowsHolds

LEMMA NoticePlaces ==
    ASSUME TypeOK, Placed, NEW d \in Disputes, NEW st
    PROVE  \A c \in Disputes : HoldAfter(d, st)[c].sub # NoSub
                                 => SubjectOf[HoldAfter(d, st)[c].sub] = PayerOf[c]
<1> DEFINE e == entSub[PayerOf[d]]
           h == UpsertHold(hold[d], st, e)
<1>1. SubjectOf[e] = PayerOf[d]
  BY DisputesHavePayers, PayersSubscribe DEF SubsOf, Placed
<1>2. hold \in [Disputes -> HoldType] /\ hold[d] \in HoldType
  BY DEF TypeOK, HoldType
<1>3. HoldAfter(d, st) = [hold EXCEPT ![d] = h]
  BY DEF HoldAfter
<1>4. h.sub = e \/ h.sub = hold[d].sub
  BY <1>2 DEF UpsertHold, HoldType
<1> HIDE DEF e, h
<1> QED BY <1>1, <1>2, <1>3, <1>4 DEF Placed

LEMMA PointersStayHome ==
    ASSUME Placed, NEW written,
           latest' = latest \/ latest' \in LatestAfter(written),
           NEW reads, entSub' = entSub \/ entSub' \in EntitlementAfter(reads)
    PROVE  \A x \in Subjects : SubsOf(x) # {} => entSub'[x] \in SubsOf(x) /\ latest'[x] \in SubsOf(x)
BY DEF Placed, LatestAfter, EntitlementAfter

LEMMA StepPlaces == ASSUME Sound, Placed, [Next]_vars PROVE Placed'
<1> DEFINE Home == \A x \in Subjects : SubsOf(x) # {} => entSub'[x] \in SubsOf(x) /\ latest'[x] \in SubsOf(x)
           Own == \A d \in Disputes : hold'[d].sub # NoSub => SubjectOf[hold'[d].sub] = PayerOf[d]
<1>0. Home /\ Own => Placed'
  BY DEF Placed, SubsOf
<1>1. Home
  <2>1. latest' = latest \/ \E written : latest' \in LatestAfter(written)
    BY DEF Next, vars, DisputeNotice, ReviewDisputeHold, SubscriptionEvent, CronReads, MarkerAges,
           StripeCancels, DashboardEdit, DisableCompany, ExecutorClaims, StripeExecutes,
           StripeRejects, CallAbandoned, SettleCollection, CronStart, CronSent, CronPosts,
           CronHasNothing, CronDies
  <2>2. entSub' = entSub \/ \E reads : entSub' \in EntitlementAfter(reads)
    BY DEF Next, vars, DisputeNotice, ReviewDisputeHold, SubscriptionEvent, CronReads, MarkerAges,
           StripeCancels, DashboardEdit, DisableCompany, ExecutorClaims, StripeExecutes,
           StripeRejects, CallAbandoned, SettleCollection, CronStart, CronSent, CronPosts,
           CronHasNothing, CronDies
  <2> HIDE DEF Home
  <2>3. ASSUME NEW written, latest' \in LatestAfter(written), NEW reads, entSub' = entSub \/ entSub' \in EntitlementAfter(reads)
        PROVE  Home
    BY <2>3, PointersStayHome DEF Home
  <2>4. ASSUME latest' = latest, NEW reads, entSub' = entSub \/ entSub' \in EntitlementAfter(reads)
        PROVE  Home
    BY <2>4, PointersStayHome DEF Home
  <2> QED BY <2>1, <2>2, <2>3, <2>4
<1>2. Own
  <2>1. CASE hold' = hold
    BY <2>1 DEF Placed
  <2>2. ASSUME NEW d \in Disputes, NEW st, hold' = HoldAfter(d, st) PROVE Own
    BY <2>2, NoticePlaces DEF Sound
  <2>3. ASSUME NEW d \in Disputes, ReviewDisputeHold(d) PROVE Own
    <3>1. PICK st \in {"won", "lost"} : hold' = [hold EXCEPT ![d].state = st]
      BY <2>3 DEF ReviewDisputeHold
    <3>2. \A c \in Disputes : hold'[c].sub = hold[c].sub
      BY <3>1 DEF Sound, TypeOK
    <3> QED BY <3>2 DEF Placed
  <2>4. \/ hold' = hold
        \/ \E d \in Disputes : ReviewDisputeHold(d) \/ \E st : hold' = HoldAfter(d, st)
    <3>1. CASE CronPosts
      <4>1. PICK n \in SweepAnswers : hold' = IF n = <<>> THEN hold ELSE HoldAfter(n[1], n[2])
        BY <3>1 DEF CronPosts
      <4>2. n # <<>> => n[1] \in Disputes
        BY DEF SweepAnswers
      <4> QED BY <4>1, <4>2
    <3>2. CASE ~CronPosts
      BY <3>2 DEF Next, vars, DisputeNotice, SubscriptionEvent, CronReads, MarkerAges,
           StripeCancels, DashboardEdit, DisableCompany, ExecutorClaims, StripeExecutes,
           StripeRejects, CallAbandoned, SettleCollection, CronStart, CronSent,
           CronHasNothing, CronDies
    <3> QED BY <3>1, <3>2
  <2> HIDE DEF Own
  <2> QED BY <2>1, <2>2, <2>3, <2>4
<1> QED BY <1>0, <1>1, <1>2

\* A step that only claims, settles, repairs or cancels, and no hold moves.
LEMMA WishStays ==
    ASSUME NEW s, Wanted(row, hold, s), SameWish(row[s], row'[s]), hold' = hold
    PROVE  Wanted(row', hold', s)
BY DEF Wanted, SameWish

LEMMA StepFollows == ASSUME Followed, [Next]_vars PROVE DesiredFollowsHolds'
<1> SUFFICES ASSUME NEW s \in Subs, Sole(s) PROVE Wanted(row', hold', s)
  BY DEF DesiredFollowsHolds, Wanted, Sole, SubsOf
<1>0. Sound /\ Placed /\ TypeOK /\ VersionChain /\ Wanted(row, hold, s)
  BY DEF Followed, Sound, DesiredFollowsHolds, Wanted
<1>a. row \in [Subs -> Row] /\ row[s] \in Row /\ Chain(row[s])
  BY <1>0, RowsAreSound DEF TypeOK
<1>1. ASSUME NEW d \in Disputes, DisputeNotice(d) PROVE Wanted(row', hold', s)
  <2>1. PICK st \in Reports(d) : hold' = HoldAfter(d, st) /\ row' = RowAfter(d, st)
    BY <1>1 DEF DisputeNotice
  <2> QED BY <1>0, <2>1, NoticeKeepsWanted
<1>2. ASSUME NEW d \in Disputes, ReviewDisputeHold(d) PROVE Wanted(row', hold', s)
  <2>1. PICK st \in {"won", "lost"}, e \in {hold[d].sub} :
          /\ hold' = [hold EXCEPT ![d].state = st]
          /\ row' = [row EXCEPT ![e] = RecomputeDesired(row[e], HoldsOf(hold', e))]
    BY <1>2 DEF ReviewDisputeHold
  <2>2. CASE e = s
    <3>1. row'[s] = RecomputeDesired(row[s], HoldsOf(hold', s))
      BY <1>a, <2>1, <2>2
    <3> QED BY <1>a, <3>1, RecomputedIsWanted DEF Wanted
  <2>3. CASE e # s
    <3>1. row'[s] = row[s]
      BY <1>a, <2>1, <2>3
    <3>2. \A c \in Disputes : /\ hold[c].sub = s <=> hold'[c].sub = s
                              /\ hold[c].sub = s => hold[c].state = hold'[c].state
      BY <1>0, <2>1, <2>3 DEF TypeOK
    <3>3. HoldsOf(hold, s) = HoldsOf(hold', s)
      BY <3>2, HoldsAreLocal
    <3> QED BY <1>0, <3>1, <3>3 DEF Wanted
  <2> QED BY <2>2, <2>3
<1>3. ASSUME NEW t \in Subs, SubscriptionEvent(t) PROVE Wanted(row', hold', s)
  <2>1. hold' = hold
    BY <1>3 DEF SubscriptionEvent
  <2>2. row'[s] = row[s] \/ row'[s] = ObserveCanceled(row[s])
    BY <1>3, <1>a DEF SubscriptionEvent
  <2> QED BY <1>0, <1>a, <2>1, <2>2, WishesOfOneRow, WishStays DEF SameWish
<1>4. ASSUME NEW x \in Subjects, DisableCompany(x) PROVE Wanted(row', hold', s)
  <2>1. hold' = hold /\ row'[s] \in {CancelCollection(row[s]), row[s]}
    BY <1>4 DEF DisableCompany
  <2> QED BY <1>0, <1>a, <2>1, WishesOfOneRow, WishStays DEF SameWish
<1>5. ASSUME NEW x \in Subjects, ExecutorClaims(x) PROVE Wanted(row', hold', s)
  <2>1. hold' = hold /\ row'[s] \in {ClaimCollection(row[s]), row[s]}
    BY <1>5, <1>a DEF ExecutorClaims
  <2> QED BY <1>0, <1>a, <2>1, WishesOfOneRow, WishStays DEF SameWish
<1>6. ASSUME NEW c \in calls, SettleCollection(c) PROVE Wanted(row', hold', s)
  <2>1. hold' = hold /\ row'[s] \in {SettledRow(row[s], c), row[s]}
    BY <1>6, <1>a DEF SettleCollection
  <2> QED BY <1>0, <1>a, <2>1, SettledWish, WishStays DEF SameWish
<1>7. ASSUME CronStart PROVE Wanted(row', hold', s)
  <2>1. hold' = hold /\ row'[s] = ReconcileRow(row[s], NothingRead[s])
    BY <1>7 DEF CronStart, ReconcileRows
  <2>2. SameWish(row[s], row'[s])
    BY <1>a, <2>1, ReconciledWish
  <2> QED BY <1>0, <2>1, <2>2, WishStays
<1>8. ASSUME CronPosts PROVE Wanted(row', hold', s)
  <2>1. PICK n \in SweepAnswers :
          /\ hold' = IF n = <<>> THEN hold ELSE HoldAfter(n[1], n[2])
          /\ row' = ReconcileRows(IF n = <<>> THEN row ELSE RowAfter(n[1], n[2]), cron.obs)
    BY <1>8 DEF CronPosts
  <2> DEFINE rs == IF n = <<>> THEN row ELSE RowAfter(n[1], n[2])
  <2>2. n # <<>> => n[1] \in Disputes
    BY DEF SweepAnswers
  <2>3. Wanted(rs, hold', s)
    BY <1>0, <2>1, <2>2, NoticeKeepsWanted
  <2>4. rs[s] \in Row /\ Chain(rs[s])
    BY <1>0, <1>a, <2>2, NoticedRows
  <2> HIDE DEF rs
  <2>5. row'[s] = ReconcileRow(rs[s], cron.obs[s])
    BY <2>1 DEF ReconcileRows, rs
  <2>6. SameWish(rs[s], row'[s])
    BY <2>4, <2>5, ReconciledWish
  <2> QED BY <2>3, <2>6 DEF Wanted, SameWish
<1>9. ASSUME NEW t \in Subs, MarkerAges(t) PROVE Wanted(row', hold', s)
  <2>1. hold' = hold /\ row'[s].desired = row[s].desired
    BY <1>9, <1>a DEF MarkerAges, Row
  <2> QED BY <1>0, <2>1, WishStays DEF SameWish
<1>10. CASE UNCHANGED <<row, hold>>
  BY <1>0, <1>10 DEF Wanted
<1>11. \/ UNCHANGED <<row, hold>>
       \/ \E d \in Disputes : DisputeNotice(d) \/ ReviewDisputeHold(d)
       \/ \E t \in Subs : SubscriptionEvent(t) \/ MarkerAges(t)
       \/ \E x \in Subjects : DisableCompany(x) \/ ExecutorClaims(x)
       \/ \E c \in calls : SettleCollection(c)
       \/ CronStart \/ CronPosts
  BY DEF Next, vars, CronReads, StripeCancels, DashboardEdit, StripeExecutes, StripeRejects,
         CallAbandoned, CronSent, CronHasNothing, CronDies
<1> QED BY <1>1, <1>2, <1>3, <1>4, <1>5, <1>6, <1>7, <1>8, <1>9, <1>10, <1>11

\* The wanted state of a subject's only subscription is what the holds on it
\* call for, for any number of disputes and any order of notices, operators'
\* reviews, sweeps and settles.
THEOREM WantedFollowsHolds == Spec => []DesiredFollowsHolds
<1>1. Init => Followed
  <2> SUFFICES ASSUME Init PROVE Followed
    OBVIOUS
  <2>1. Placed
    BY DEF Init, Placed
  <2>2. \A s \in Subs : row[s].desired = "active"
    BY DEF Init
  <2>3. \A s \in Subs : HoldsOf(hold, s) = {}
    BY SubsAreIds DEF Init, HoldsOf, NoSub
  <2>4. Fold({}) = "active"
    BY DEF Fold
  <2> QED BY <2>1, <2>2, <2>3, <2>4, InitSound DEF Followed, DesiredFollowsHolds
<1>2. Followed /\ [Next]_vars => Followed'
  BY StepSound, StepPlaces, StepFollows DEF Followed
<1>3. Followed => DesiredFollowsHolds
  BY DEF Followed
<1> QED BY <1>1, <1>2, <1>3, PTL DEF Spec

-----------------------------------------------------------------------------
(* Evidence. *)

\* Stripe has carried out what a call reports as done.
OkIsExecuted == \A c \in calls : c.stage = "ok" => KeyOf(c) \in executed

Witnessed == KeysSound /\ Placed /\ OkIsExecuted

LEMMA StepKeepsExecuted == ASSUME [Next]_vars PROVE executed \subseteq executed'
BY DEF Next, vars, DisputeNotice, ReviewDisputeHold, SubscriptionEvent, CronReads, MarkerAges,
       StripeCancels, DashboardEdit, DisableCompany, ExecutorClaims, StripeExecutes,
       StripeRejects, CallAbandoned, SettleCollection, CronStart, CronSent, CronPosts,
       CronHasNothing, CronDies

\* Only the step in which Stripe executes a call makes it "ok".
LEMMA StepMakesOk ==
    ASSUME TypeOK, [Next]_vars, NEW c \in calls', c.stage = "ok", c \notin calls
    PROVE  KeyOf(c) \in executed'
<1> DEFINE Goal == KeyOf(c) \in executed'
<1>0. calls \subseteq Call
  BY DEF TypeOK
<1>a. ASSUME NEW k \in calls, NEW stage \in {"failed", "orphan"}, c \in Moved(k, stage)
      PROVE  FALSE
  BY <1>0, <1>a DEF Moved, Call
<1>1. ASSUME NEW k \in calls, StripeExecutes(k) PROVE Goal
  <2>1. KeyOf(k) \in executed'
    BY <1>1 DEF StripeExecutes
  <2>2. c \in Moved(k, "ok")
    BY <1>1, <1>a DEF StripeExecutes
  <2>3. c = [k EXCEPT !.stage = "ok"]
    BY <2>2 DEF Moved
  <2> QED BY <1>0, <2>1, <2>3, CallType
<1>2. ASSUME NEW k \in calls, StripeRejects(k) \/ CallAbandoned(k) \/ SettleCollection(k) PROVE Goal
  BY <1>2, <1>a DEF StripeRejects, CallAbandoned, SettleCollection
<1>3. ASSUME NEW x \in Subjects, ExecutorClaims(x) PROVE Goal
  BY <1>3 DEF ExecutorClaims, CallFor
<1>4. ASSUME CronStart \/ CronPosts PROVE Goal
  <2>1. \E rs, obs : c \in CronCalls(rs, obs)
    BY <1>4 DEF CronStart, CronPosts
  <2> QED BY <2>1 DEF CronCalls, CallFor
<1>5. ASSUME CronDies PROVE Goal
  <2>1. PICK k \in calls : c = [k EXCEPT !.stage = "orphan"]
    BY <1>5 DEF CronDies
  <2> QED BY <1>0, <2>1 DEF Call
<1>6. \/ UNCHANGED calls
      \/ \E k \in calls : StripeExecutes(k) \/ StripeRejects(k) \/ CallAbandoned(k) \/ SettleCollection(k)
      \/ \E x \in Subjects : ExecutorClaims(x)
      \/ CronStart \/ CronPosts \/ CronDies
  BY DEF Next, vars, DisputeNotice, ReviewDisputeHold, SubscriptionEvent, CronReads, MarkerAges,
         StripeCancels, DashboardEdit, DisableCompany, CronSent, CronHasNothing
<1> QED BY <1>1, <1>2, <1>3, <1>4, <1>5, <1>6

LEMMA StepWitnessed == ASSUME Witnessed, [Next]_vars PROVE Witnessed'
<1>1. KeysSound' /\ Placed'
  BY StepKeys, StepPlaces DEF Witnessed, KeysSound
<1>2. OkIsExecuted'
  <2> SUFFICES ASSUME NEW c \in calls', c.stage = "ok" PROVE KeyOf(c) \in executed'
    BY DEF OkIsExecuted, KeyOf
  <2>1. CASE c \in calls
    BY <2>1, StepKeepsExecuted DEF Witnessed, OkIsExecuted
  <2>2. CASE c \notin calls
    BY <2>2, StepMakesOk DEF Witnessed, KeysSound, Sound
  <2> QED BY <2>1, <2>2
<1> QED BY <1>1, <1>2 DEF Witnessed

\* Which functions of a row may move its applied version, and on what.
LEMMA AppliedOfOneRow ==
    ASSUME NEW r \in Row, NEW states
    PROVE  /\ ClaimCollection(r).appliedVersion = r.appliedVersion
           /\ RecomputeDesired(r, states).appliedVersion = r.appliedVersion
           /\ SettleFailure(r).appliedVersion = r.appliedVersion
           /\ RepairVersion(r).appliedVersion = r.appliedVersion
           /\ TimedOut(r).appliedVersion = r.appliedVersion
           /\ ~Marked(r) => SettleSuccess(r) = r
BY DEF ClaimCollection, RecomputeDesired, SettleFailure, Unmark, RepairVersion, TimedOut,
       SettleSuccess, Row

LEMMA SettledApplied ==
    ASSUME NEW r \in Row, NEW c, c.stage \in {"ok", "failed"},
           SettledRow(r, c).appliedVersion # r.appliedVersion
    PROVE  Marked(r) /\ c.version = r.inFlight /\ c.stage = "ok"
BY AppliedOfOneRow DEF SettledRow

\* A reconcile applies a version because the read shows its state, or cancels.
LEMMA ReconciledApplied ==
    ASSUME NEW r \in Row, Chain(r), NEW o,
           ReconcileRow(r, o).appliedVersion # r.appliedVersion
    PROVE  ReconcileRow(r, o).desired = "canceled" \/ (Marked(r) /\ o = r.inFlightState)
<1> DEFINE a == IF o = "canceled" /\ ~r.canceled THEN ObserveCanceled(r) ELSE r
           seen == Observed(r, o)
           due == TimedOut(seen)
<1>1. a \in Row /\ (a = r \/ a.desired = "canceled")
  BY ObserveCanceledRow DEF Forward
<1>2. seen \in {r, a, RepairVersion(a)} \/ (seen = SettleSuccess(a) /\ Marked(r) /\ o = r.inFlightState)
  BY DEF Observed
<1>3. seen \in Row /\ Chain(seen)
  BY ObservedRow DEF Forward
<1> HIDE DEF a
<1>4. seen.appliedVersion # r.appliedVersion
        => seen.desired = "canceled" \/ (Marked(r) /\ o = r.inFlightState)
  BY <1>1, <1>2, AppliedOfOneRow, WishesOfOneRow
<1> HIDE DEF seen
<1>5. due \in Row /\ due.desired = seen.desired /\ due.appliedVersion = seen.appliedVersion
  BY <1>3, TimedOutRow, WishesOfOneRow, AppliedOfOneRow DEF Forward
<1>6. ReconcileRow(r, o) = ClaimCollection(due)
  BY DEF ReconcileRow, seen
<1> HIDE DEF due
<1> QED BY <1>4, <1>5, <1>6, WishesOfOneRow, AppliedOfOneRow

LEMMA NoticedApplied ==
    ASSUME TypeOK, NEW d \in Disputes, NEW st, NEW s \in Subs
    PROVE  RowAfter(d, st)[s].appliedVersion = row[s].appliedVersion
<1> DEFINE e == entSub[PayerOf[d]]
           h == HoldsOf(HoldAfter(d, st), e)
<1>1. row \in [Subs -> Row]
  BY DEF TypeOK
<1>2. RowAfter(d, st) = row \/ RowAfter(d, st) = [row EXCEPT ![e] = RecomputeDesired(row[e], h)]
  BY DEF RowAfter
<1> HIDE DEF e, h
<1>3. RowAfter(d, st)[s] = row[s] \/ RowAfter(d, st)[s] = RecomputeDesired(row[s], h)
  BY <1>1, <1>2
<1> QED BY <1>1, <1>3, AppliedOfOneRow

\* What AppliedOnEvidence says of one row in one step.
Evidence(s) ==
    row'[s].appliedVersion # row[s].appliedVersion =>
       \/ row'[s].desired = "canceled"
       \/ MarkerKey(s) \in executed
       \/ cron.obs[s] = row[s].inFlightState

\* The key a settle speaks of is the marker's own: of two with one version,
\* both have its state.
LEMMA SettleIsEvidence ==
    ASSUME Witnessed, NEW c \in calls, SettleCollection(c), NEW s \in Subs, Sole(s)
    PROVE  Evidence(s)
<1> DEFINE t == latest[SubjectOf[c.sub]]
<1>0. TypeOK /\ VersionChain /\ row \in [Subs -> Row] /\ c \in Call /\ c.sub \in Subs
  BY DEF Witnessed, KeysSound, Sound, TypeOK, Call
<1>1. row' = [row EXCEPT ![t] = SettledRow(row[t], c)] /\ c.stage \in {"ok", "failed"}
  BY <1>1 DEF SettleCollection
<1>2. t \in SubsOf(SubjectOf[c.sub])
  BY <1>0, SubjectsOwnRows DEF Witnessed, Placed, SubsOf
<1> HIDE DEF t
<1>3. CASE t # s
  BY <1>0, <1>1, <1>3 DEF Evidence
<1>4. CASE t = s
  <2> SUFFICES ASSUME row'[s].appliedVersion # row[s].appliedVersion PROVE MarkerKey(s) \in executed
    BY DEF Evidence
  <2>1. row'[s] = SettledRow(row[s], c)
    BY <1>0, <1>1, <1>4
  <2>2. Marked(row[s]) /\ c.version = row[s].inFlight /\ c.stage = "ok"
    BY <1>0, <1>1, <2>1, SettledApplied
  <2>3. c.sub = s
    BY <1>0, <1>2, <1>4 DEF Sole, SubsOf
  <2>4. KeyOf(c) \in executed
    BY <2>2 DEF Witnessed, OkIsExecuted
  <2>5. KeyOf(c) \in Keys /\ MarkerKey(s) \in Keys
    BY <2>2 DEF Keys
  <2>6. /\ KeyOf(c).sub = s /\ KeyOf(c).version = row[s].inFlight /\ KeyOf(c).state = c.state
        /\ MarkerKey(s).sub = s /\ MarkerKey(s).version = row[s].inFlight
        /\ MarkerKey(s).state = row[s].inFlightState
    BY <2>2, <2>3 DEF KeyOf, MarkerKey
  <2>7. c.state = row[s].inFlightState
    BY <2>5, <2>6 DEF Witnessed, KeysSound, KeyDeterminesState
  <2> QED BY <2>2, <2>3, <2>4, <2>7 DEF KeyOf, MarkerKey
<1> QED BY <1>3, <1>4

LEMMA StepHasEvidence ==
    ASSUME Witnessed, [Next]_vars, NEW s \in Subs, Sole(s) PROVE Evidence(s)
<1>0. Sound /\ TypeOK /\ VersionChain /\ row \in [Subs -> Row] /\ row[s] \in Row /\ Chain(row[s])
  BY RowsAreSound DEF Witnessed, KeysSound, Sound, TypeOK
<1> DEFINE Same == row'[s].appliedVersion = row[s].appliedVersion
           Gone == row'[s].desired = "canceled"
<1>a. (Same \/ Gone) => Evidence(s)
  BY DEF Evidence
<1>1. ASSUME NEW d \in Disputes, DisputeNotice(d) PROVE Same
  <2>1. PICK st \in Reports(d) : row' = RowAfter(d, st)
    BY <1>1 DEF DisputeNotice
  <2> QED BY <1>0, <2>1, NoticedApplied
<1>2. ASSUME NEW d \in Disputes, ReviewDisputeHold(d) PROVE Same
  <2>1. PICK e \in {hold[d].sub} : row' = [row EXCEPT ![e] = RecomputeDesired(row[e], HoldsOf(hold', e))]
    BY <1>2 DEF ReviewDisputeHold
  <2> QED BY <1>0, <2>1, AppliedOfOneRow
<1>3. ASSUME NEW t \in Subs, SubscriptionEvent(t) PROVE Same \/ Gone
  <2>1. row'[s] = row[s] \/ row'[s] = ObserveCanceled(row[s])
    BY <1>0, <1>3 DEF SubscriptionEvent
  <2> QED BY <1>0, <2>1, ObserveCanceledRow
<1>4. ASSUME NEW x \in Subjects, DisableCompany(x) PROVE Same \/ Gone
  <2>1. row'[s] \in {CancelCollection(row[s]), row[s]}
    BY <1>4 DEF DisableCompany
  <2> QED BY <1>0, <2>1, CancelRow
<1>5. ASSUME NEW x \in Subjects, ExecutorClaims(x) PROVE Same
  <2>1. row'[s] \in {ClaimCollection(row[s]), row[s]}
    BY <1>5, <1>0 DEF ExecutorClaims
  <2> QED BY <1>0, <2>1, AppliedOfOneRow
<1>6. ASSUME NEW c \in calls, SettleCollection(c) PROVE Evidence(s)
  BY <1>6, SettleIsEvidence
<1>7. ASSUME CronStart PROVE Same \/ Gone
  <2>1. row'[s] = ReconcileRow(row[s], Unread)
    BY <1>7 DEF CronStart, ReconcileRows, NothingRead
  <2>2. row[s].inFlightState # Unread
    BY <1>0, RowFields DEF Unread, CollectionState
  <2> QED BY <1>0, <2>1, <2>2, ReconciledApplied
<1>8. ASSUME CronPosts PROVE Evidence(s)
  <2>1. PICK n \in SweepAnswers :
          row' = ReconcileRows(IF n = <<>> THEN row ELSE RowAfter(n[1], n[2]), cron.obs)
    BY <1>8 DEF CronPosts
  <2> DEFINE r == (IF n = <<>> THEN row ELSE RowAfter(n[1], n[2]))[s]
  <2>2. r \in Row /\ Chain(r) /\ SameMarker(row[s], r) /\ r.appliedVersion = row[s].appliedVersion
    <3>1. CASE n = <<>>
      BY <1>0, <3>1 DEF SameMarker
    <3>2. CASE n # <<>>
      <4>1. n[1] \in Disputes
        BY <3>2 DEF SweepAnswers
      <4>2. r = RowAfter(n[1], n[2])[s]
        BY <3>2
      <4> HIDE DEF r
      <4>3. r.appliedVersion = row[s].appliedVersion
        BY <1>0, <4>1, <4>2, NoticedApplied
      <4>4. r \in Row /\ Chain(r) /\ SameMarker(row[s], r)
        BY <1>0, <4>1, <4>2, NoticedRows
      <4> QED BY <4>3, <4>4
    <3> QED BY <3>1, <3>2
  <2>3. row'[s] = ReconcileRow(r, cron.obs[s])
    BY <2>1 DEF ReconcileRows
  <2> HIDE DEF r
  <2> QED BY <2>2, <2>3, ReconciledApplied DEF Evidence, SameMarker
<1>9. ASSUME NEW t \in Subs, MarkerAges(t) PROVE Same
  BY <1>9, <1>0 DEF MarkerAges, Row
<1>10. CASE UNCHANGED row
  BY <1>10, <1>a
<1>11. \/ UNCHANGED row
       \/ \E d \in Disputes : DisputeNotice(d) \/ ReviewDisputeHold(d)
       \/ \E t \in Subs : SubscriptionEvent(t) \/ MarkerAges(t)
       \/ \E x \in Subjects : DisableCompany(x) \/ ExecutorClaims(x)
       \/ \E c \in calls : SettleCollection(c)
       \/ CronStart \/ CronPosts
  BY DEF Next, vars, CronReads, StripeCancels, DashboardEdit, StripeExecutes, StripeRejects,
         CallAbandoned, CronSent, CronHasNothing, CronDies
<1> HIDE DEF Same, Gone
<1> QED BY <1>a, <1>1, <1>2, <1>3, <1>4, <1>5, <1>6, <1>7, <1>8, <1>9, <1>10, <1>11

\* A version of a subject's only subscription counts as applied on evidence
\* only, whatever answers are lost, late or about another version.
THEOREM AppliedHasEvidence == Spec => AppliedOnEvidence
<1>1. Init => Witnessed
  <2> SUFFICES ASSUME Init PROVE Witnessed
    OBVIOUS
  <2>1. Keys = {} /\ OkIsExecuted
    BY DEF Init, Keys, Marked, OkIsExecuted
  <2>2. Placed
    BY DEF Init, Placed
  <2> QED BY <2>1, <2>2, InitSound DEF Witnessed, KeysSound, KeysBounded, KeyDeterminesState
<1>2. Witnessed /\ [Next]_vars => Witnessed'
  BY StepWitnessed
<1> DEFINE Move == \A s \in Subs :
      Sole(s) /\ row'[s].appliedVersion # row[s].appliedVersion =>
         \/ row'[s].desired = "canceled"
         \/ [sub |-> s, version |-> row[s].inFlight, state |-> row[s].inFlightState] \in executed
         \/ cron.obs[s] = row[s].inFlightState
<1>3. Witnessed /\ [Next]_vars => [Move]_vars
  BY StepHasEvidence DEF Evidence, MarkerKey
<1>4. AppliedOnEvidence <=> [][Move]_vars
  BY DEF AppliedOnEvidence
<1> HIDE DEF Move
<1> QED BY <1>1, <1>2, <1>3, <1>4, PTL DEF Spec

=============================================================================
