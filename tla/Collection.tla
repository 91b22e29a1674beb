------------------------------ MODULE Collection ------------------------------
(***************************************************************************)
(* How the billing side keeps a subscription's payment collection at Stripe *)
(* in step with what the disputes, the company and Stripe itself call for. *)
(*                                                                         *)
(* The wanted state lives in billing_subscriptions, one row per            *)
(* subscription, inside the IdentityDO: every action below that changes    *)
(* `row` is one of its transactions.  Everything else is outside and       *)
(* asynchronous: executors that call Stripe between a claim and a settle,  *)
(* webhooks that report a fetched object late, twice or out of order, and  *)
(* the daily reconcile, which reads Stripe first and writes afterwards.    *)
(***************************************************************************)
EXTENDS Naturals, FiniteSets

CONSTANTS
    Subs,        \* processor subscription ids; numbers, since rows are ordered by id
    Subjects,    \* billing subjects: accounts and companies
    SubjectOf,   \* the subject a subscription row belongs to
    Companies,   \* the subjects that are companies
    Disputes,    \* dispute ids at Stripe
    PayerOf,     \* the subject whose customer a dispute's charge names
    MaxFaults    \* bound: how often the network, a worker or a dashboard edit interferes

ASSUME SubsAreIds == Subs \subseteq Nat \ {0} /\ IsFiniteSet(Subs)
ASSUME SubjectsOwnRows == SubjectOf \in [Subs -> Subjects]
ASSUME CompaniesAreSubjects == Companies \subseteq Subjects
ASSUME CompaniesSubscribeOnce ==  \* the primary key of company_subscriptions
    \A s, t \in Subs : SubjectOf[s] = SubjectOf[t] /\ SubjectOf[s] \in Companies => s = t
ASSUME DisputesHavePayers == PayerOf \in [Disputes -> Subjects]
ASSUME PayersSubscribe == \A d \in Disputes : \E s \in Subs : SubjectOf[s] = PayerOf[d]
ASSUME FaultsAreCounted == MaxFaults \in Nat

VARIABLES
    row,       \* billing_subscriptions, by subscription
    hold,      \* billing_dispute_holds, by dispute
    entSub,    \* the subscription id on the subject's entitlement row
    latest,    \* the subject's most recently updated row
    disabled,  \* companies whose state is disabled
    handoffs,  \* subjects a webhook answer named for runCollectionExecutor
    calls,     \* executor calls, and requests their executor no longer waits for
    cron,      \* the reconcile run under way
    stripe,    \* Stripe's collection state, by subscription
    executed,  \* idempotency keys Stripe has carried out, with what they set
    verdict,   \* how Stripe will close a dispute, if it does
    faults     \* interferences so far

vars == <<row, hold, entSub, latest, disabled, handoffs, calls, cron,
          stripe, executed, verdict, faults>>

CollectionState == {"active", "paused", "canceled"}
HoldState == {"open", "review", "won", "lost"}
NoVersion == 0      \* in_flight_version IS NULL
NoSub == 0          \* the dispute has no hold row yet
Unread == "unread"  \* the reconcile run has not read this subscription

Row == [desired : CollectionState, desiredVersion : Nat, appliedVersion : Nat,
        inFlight : Nat, inFlightState : CollectionState \cup {"none"},
        aged : BOOLEAN,         \* in_flight_since is 15 minutes or more ago
        canceled : BOOLEAN]     \* processor_canceled_at is set

Key == [sub : Subs, version : Nat, state : CollectionState]

Call == [owner : {"webhook", "cron"}, sub : Subs, version : Nat,
         state : CollectionState, stage : {"sending", "ok", "failed", "orphan"}]

Cron == [pc : {"idle", "sending", "reading", "repairing"}, todo : SUBSET Subs,
         obs : [Subs -> CollectionState \cup {Unread}]]

SubsOf(subject) == {s \in Subs : SubjectOf[s] = subject}

-----------------------------------------------------------------------------
(* The statements entitlementWriter.ts runs on one row, as functions of it. *)

Marked(r) == r.inFlight # NoVersion

Unmark(r) == [r EXCEPT !.inFlight = NoVersion, !.inFlightState = "none", !.aged = FALSE]

Claimable(r) == ~Marked(r) /\ r.appliedVersion < r.desiredVersion

ClaimCollection(r) ==
    IF Claimable(r)
    THEN [r EXCEPT !.inFlight = r.desiredVersion, !.inFlightState = r.desired,
                   !.aged = FALSE]
    ELSE r

CancelCollection(r) ==
    IF r.desired = "canceled" /\ ~Marked(r)
    THEN r
    ELSE [Unmark(r) EXCEPT !.desired = "canceled",
                           !.desiredVersion = r.desiredVersion + 1,
                           !.appliedVersion = r.desiredVersion + 1]

\* What a set of hold states calls for.
Fold(states) ==
    CASE "lost" \in states -> "canceled"
      [] "lost" \notin states /\ states \cap {"open", "review"} # {} -> "paused"
      [] OTHER -> "active"

\* Mutant: the new state reuses the version.
RecomputeDesired_SameVersion(r, states) ==
    IF r.desired = "canceled" THEN r ELSE [r EXCEPT !.desired = Fold(states)]

RecomputeDesired(r, states) ==
    IF r.desired = "canceled" \/ r.desired = Fold(states)
    THEN r
    ELSE [r EXCEPT !.desired = Fold(states), !.desiredVersion = @ + 1]

SettleSuccess(r) ==
    IF Marked(r)
    THEN ClaimCollection([Unmark(r) EXCEPT !.appliedVersion = r.inFlight])
    ELSE r

SettleFailure(r) == Unmark(r)

\* Mutant: the repair claims without invalidating the version.
RepairVersion_SameVersion(r) ==
    IF r.desired = "canceled" \/ Marked(r) THEN r ELSE ClaimCollection(r)

RepairVersion(r) ==
    IF r.desired = "canceled" \/ Marked(r)
    THEN r
    ELSE ClaimCollection([r EXCEPT !.desiredVersion = @ + 1])

\* The class-1 write of a fetched subscription: a canceled one is terminal.
ObserveCanceled(r) == [CancelCollection(r) EXCEPT !.canceled = TRUE]

-----------------------------------------------------------------------------
(* Dispute holds. *)

Rank == [open |-> 0, review |-> 1, won |-> 2, lost |-> 3]

Advances(h, st) == h.sub = NoSub \/ Rank[st] > Rank[h.state]

\* A hold keeps the subscription of its first sight.
UpsertHold(h, st, s) ==
    IF h.sub = NoSub THEN [sub |-> s, state |-> st]
    ELSE IF Advances(h, st) THEN [h EXCEPT !.state = st]
    ELSE h

HoldsOf(hs, s) == {hs[d].state : d \in {e \in Disputes : hs[e].sub = s}}

\* The IdentityDO maps a dispute through the payer's entitlement row, which
\* disabling a company deletes.
Mapped(d) == PayerOf[d] \notin disabled

\* applyDispute: the hold moves, and if it did, the row the payer's entitlement
\* names (not the hold's own) is recomputed from that row's holds.
HoldAfter(d, st) == [hold EXCEPT ![d] = UpsertHold(@, st, entSub[PayerOf[d]])]

\* Mutant: the row follows the dispute just heard of, not all of them.
RowAfter_ThisDisputeOnly(d, st) ==
    [row EXCEPT ![entSub[PayerOf[d]]] = RecomputeDesired(@, {st})]

RowAfter(d, st) ==
    IF Advances(hold[d], st)
    THEN [row EXCEPT ![entSub[PayerOf[d]]] =
              RecomputeDesired(@, HoldsOf(HoldAfter(d, st), entSub[PayerOf[d]]))]
    ELSE row

\* updated_at: the rows a transaction wrote become their subjects' latest; of
\* several written at one instant, the smallest id sorts first.
LatestAfter(written) ==
    {f \in [Subjects -> Subs] :
       \A x \in Subjects :
          IF written \cap SubsOf(x) = {}
          THEN f[x] = latest[x]
          ELSE /\ f[x] \in written \cap SubsOf(x)
               /\ \A s \in written \cap SubsOf(x) : f[x] <= s}

\* The entitlement row names the subscription whose object was written last.
EntitlementAfter(reads) ==
    {f \in [Subjects -> Subs] :
       \A x \in Subjects :
          IF reads \cap SubsOf(x) = {}
          THEN f[x] = entSub[x]
          ELSE /\ f[x] \in reads \cap SubsOf(x)
               /\ \A s \in reads \cap SubsOf(x) : f[x] >= s}

Changed(rows) == {s \in Subs : rows[s] # row[s]}

\* pendingCollectionSubject names the subject when the row is behind; the
\* schedule itself may be missed.
Handoff(subject, r) ==
    handoffs' \in {handoffs, IF Claimable(r) THEN handoffs \cup {subject} ELSE handoffs}

-----------------------------------------------------------------------------
(* Webhooks and people. *)

\* The statuses Stripe may report for a dispute: before it closes, it is open
\* or under review, and it closes one way only.
Reports(d) == {"open", "review", verdict[d]}

\* A dispute event is applied: late, again, or after a newer one, so with any
\* status the dispute may have had by now.
DisputeNotice(d) ==
    /\ Mapped(d)
    /\ \E st \in Reports(d) :
         /\ hold' = HoldAfter(d, st)
         /\ row' = RowAfter(d, st)
         /\ latest' \in LatestAfter(Changed(RowAfter(d, st)))
         /\ Handoff(PayerOf[d], RowAfter(d, st)[entSub[PayerOf[d]]])
    /\ UNCHANGED <<entSub, disabled, calls, cron, stripe, executed, verdict, faults>>

\* The operator resolves a hold that waits in review; no executor is started.
ReviewDisputeHold(d) ==
    /\ hold[d].sub # NoSub /\ hold[d].state = "review"
    /\ \E st \in {"won", "lost"}, s \in {hold[d].sub} :
         /\ hold' = [hold EXCEPT ![d].state = st]
         /\ row' = [row EXCEPT ![s] = RecomputeDesired(@, HoldsOf(hold', s))]
         /\ latest' \in LatestAfter(Changed(row'))
    /\ UNCHANGED <<entSub, disabled, handoffs, calls, cron, stripe, executed,
                   verdict, faults>>

\* A subscription event is applied with the object fetched for it, which may
\* be older than a cancel but never newer; or it is skipped, being older than
\* what was applied or later than a cancel.
SubscriptionEvent(s) ==
    /\ \/ UNCHANGED <<row, latest, entSub>>
       \/ /\ ~row[s].canceled
          /\ \/ row' = row
             \/ stripe[s] = "canceled" /\ row' = [row EXCEPT ![s] = ObserveCanceled(@)]
          /\ latest' \in LatestAfter({s})
          /\ entSub' \in EntitlementAfter({s})
    /\ Handoff(SubjectOf[s], row'[s])
    /\ UNCHANGED <<hold, disabled, calls, cron, stripe, executed, verdict, faults>>

\* The owner disables the company (or is erased as its sole member).
DisableCompany(x) ==
    /\ x \in Companies \ disabled
    /\ disabled' = disabled \cup {x}
    /\ row' = [s \in Subs |-> IF SubjectOf[s] = x THEN CancelCollection(row[s]) ELSE row[s]]
    /\ latest' \in LatestAfter(Changed(row'))
    /\ UNCHANGED <<hold, entSub, handoffs, calls, cron, stripe, executed, verdict, faults>>

-----------------------------------------------------------------------------
(* The executor: claim in the IdentityDO, call Stripe, settle. *)

KeyOf(c) == [sub |-> c.sub, version |-> c.version, state |-> c.state]

CallFor(owner, s, r) ==
    [owner |-> owner, sub |-> s, version |-> r.inFlight, state |-> r.inFlightState,
     stage |-> "sending"]

Moved(c, stage) == (calls \ {c}) \cup {[c EXCEPT !.stage = stage]}

Fault == faults < MaxFaults /\ faults' = faults + 1

\* runCollectionExecutor claims on the subject's latest row; the answer that
\* carries the claim may be lost on its way back.
ExecutorClaims(x) ==
    /\ x \in handoffs
    /\ handoffs' = handoffs \ {x}
    /\ LET s == latest[x]
           r == ClaimCollection(row[s])
       IN /\ row' = [row EXCEPT ![s] = r]
          /\ \/ calls' = (IF Claimable(row[s]) THEN calls \cup {CallFor("webhook", s, r)}
                                               ELSE calls) /\ UNCHANGED faults
             \/ Claimable(row[s]) /\ Fault /\ UNCHANGED calls
    /\ UNCHANGED <<hold, entSub, latest, disabled, cron, stripe, executed, verdict>>

\* Stripe carries a request out: a key it has seen before is only answered.  A
\* canceled subscription takes no other state.
StripeExecutes(c) ==
    /\ c.stage \in {"sending", "orphan"}
    /\ \/ KeyOf(c) \in executed /\ UNCHANGED <<stripe, executed>>
       \/ /\ KeyOf(c) \notin executed /\ stripe[c.sub] # "canceled"
          /\ stripe' = [stripe EXCEPT ![c.sub] = c.state]
          /\ executed' = executed \cup {KeyOf(c)}
    /\ \/ c.stage = "orphan" /\ calls' = calls \ {c} /\ UNCHANGED faults
       \/ c.stage = "sending" /\ calls' = Moved(c, "ok") /\ UNCHANGED faults
       \/ c.stage = "sending" /\ calls' = Moved(c, "failed") /\ Fault  \* no answer arrived
       \/ c.stage = "sending" /\ calls' = calls \ {c} /\ Fault  \* 5xx: unknown
    /\ UNCHANGED <<row, hold, entSub, latest, disabled, handoffs, cron, verdict>>

\* Stripe refuses: for certain when the subscription is gone, else as a fault.
StripeRejects(c) ==
    /\ c.stage \in {"sending", "orphan"} /\ KeyOf(c) \notin executed
    /\ \/ stripe[c.sub] = "canceled" /\ UNCHANGED faults
       \/ stripe[c.sub] # "canceled" /\ Fault
    /\ calls' = IF c.stage = "orphan" THEN calls \ {c} ELSE Moved(c, "failed")
    /\ UNCHANGED <<row, hold, entSub, latest, disabled, handoffs, cron, stripe,
                   executed, verdict>>

\* The ten-second client timeout, or the worker's death: the request lives on
\* at Stripe, nobody settles it.
CallAbandoned(c) ==
    /\ c.stage # "orphan" /\ Fault
    /\ calls' = IF c.stage = "sending" THEN Moved(c, "orphan") ELSE calls \ {c}
    /\ UNCHANGED <<row, hold, entSub, latest, disabled, handoffs, cron, stripe,
                   executed, verdict>>

\* Mutant: a settle is taken for whatever version is in flight.
SettledRow_AnyVersion(r, c) ==
    IF Marked(r)
    THEN (IF c.stage = "failed" THEN SettleFailure(r) ELSE SettleSuccess(r))
    ELSE (IF r.appliedVersion < r.desiredVersion THEN RepairVersion(r) ELSE r)

\* settleCollectionOperation on the row it selects for the call's subject.
SettledRow(r, c) ==
    CASE ~Marked(r) /\ r.appliedVersion >= r.desiredVersion -> r
      [] ~Marked(r) /\ r.appliedVersion < r.desiredVersion -> RepairVersion(r)
      [] Marked(r) /\ c.version # r.inFlight -> r
      [] Marked(r) /\ c.version = r.inFlight /\ c.stage = "failed" -> SettleFailure(r)
      [] OTHER -> SettleSuccess(r)

SettleCollection(c) ==
    /\ c.stage \in {"ok", "failed"}
    /\ LET s == latest[SubjectOf[c.sub]]
       IN row' = [row EXCEPT ![s] = SettledRow(@, c)]
    /\ calls' = calls \ {c}
    /\ UNCHANGED <<hold, entSub, latest, disabled, handoffs, cron, stripe, executed,
                   verdict, faults>>

-----------------------------------------------------------------------------
(* The daily reconcile: one transaction before it reads Stripe, one after. *)

\* What the read of a subscription does to its row: the class-1 write, then a
\* confirmation of the marker or a repair, both judged on the row read first.
Observed(r, o) ==
    LET applied == IF o = "canceled" /\ ~r.canceled THEN ObserveCanceled(r) ELSE r
    IN CASE o = Unread -> r
         [] o # Unread /\ Marked(r) ->
              IF r.inFlightState = o THEN SettleSuccess(applied) ELSE applied
         [] OTHER -> IF r.desired \in {"canceled", o} THEN applied
                                                     ELSE RepairVersion(applied)

\* Mutant: a marker never times out.
TimedOut_Never(r) == r

\* A marker of 15 minutes fails, and its version is invalidated.
TimedOut(r) == IF Marked(r) /\ r.aged THEN RepairVersion(SettleFailure(r)) ELSE r

ReconcileRow(r, o) == ClaimCollection(TimedOut(Observed(r, o)))

\* The claims a reconcile hands back are the ones it makes itself; what
\* settling a confirmed marker claims at once is not among them.
HandsBack(r, o) ==
    LET seen == Observed(r, o)
    IN \/ Claimable(TimedOut(seen))
       \/ TimedOut(seen) # seen /\ Marked(TimedOut(seen))
       \/ ~Marked(r) /\ Marked(seen)

NothingRead == [s \in Subs |-> Unread]

\* reconcileBilling's passes over the rows rs, after its dispute pass.
ReconcileRows(rs, obs) == [s \in Subs |-> ReconcileRow(rs[s], obs[s])]

CronCalls(rs, obs) ==
    {CallFor("cron", s, ReconcileRow(rs[s], obs[s])) : s \in {t \in Subs : HandsBack(rs[t], obs[t])}}

CronTo(pc, todo, obs) == cron' = [pc |-> pc, todo |-> todo, obs |-> obs]

\* GET /billing/reconcile: no observations yet.
CronStart ==
    /\ cron.pc = "idle"
    /\ row' = ReconcileRows(row, NothingRead)
    /\ calls' = calls \cup CronCalls(row, NothingRead)
    /\ latest' \in LatestAfter(Changed(row'))
    /\ CronTo("sending", {s \in Subs : ~row[s].canceled}, NothingRead)
    /\ UNCHANGED <<hold, entSub, disabled, handoffs, stripe, executed, verdict, faults>>

\* The claims of the run are executed before anything else happens in it.
CronSent ==
    /\ cron.pc \in {"sending", "repairing"}
    /\ \A c \in calls : c.owner = "cron" => c.stage = "orphan"
    /\ IF cron.pc = "sending" THEN CronTo("reading", cron.todo, cron.obs)
                              ELSE CronTo("idle", {}, NothingRead)
    /\ UNCHANGED <<row, hold, entSub, latest, disabled, handoffs, calls, stripe,
                   executed, verdict, faults>>

\* One GET per subscription; a failed read is skipped.
CronReads(s) ==
    /\ cron.pc = "reading" /\ s \in cron.todo
    /\ \/ CronTo("reading", cron.todo \ {s}, [cron.obs EXCEPT ![s] = stripe[s]])
          /\ UNCHANGED faults
       \/ CronTo("reading", cron.todo \ {s}, cron.obs) /\ Fault
    /\ UNCHANGED <<row, hold, entSub, latest, disabled, handoffs, calls, stripe,
                   executed, verdict>>

\* The subscriptions whose fetched object the class-1 write accepts.
AppliedReads == {s \in Subs : cron.obs[s] # Unread /\ ~row[s].canceled}

\* The dispute notices the sweep can hand to the post: at most one here, since
\* several are as many notices applied just before it.
SweepAnswers ==
    {<<>>} \cup {n \in Disputes \X HoldState : n[2] \in Reports(n[1]) /\ Mapped(n[1])}

\* POST /billing/reconcile with what was read and swept, if that is anything.
CronPosts ==
    /\ cron.pc = "reading" /\ cron.todo = {}
    /\ \E n \in SweepAnswers :
         /\ n # <<>> \/ cron.obs # NothingRead
         /\ LET swept == IF n = <<>> THEN row ELSE RowAfter(n[1], n[2])
            IN /\ hold' = IF n = <<>> THEN hold ELSE HoldAfter(n[1], n[2])
               /\ row' = ReconcileRows(swept, cron.obs)
               /\ calls' = calls \cup CronCalls(swept, cron.obs)
    /\ latest' \in LatestAfter(AppliedReads \cup Changed(row'))
    /\ entSub' \in EntitlementAfter(AppliedReads)
    /\ CronTo("repairing", {}, NothingRead)
    /\ UNCHANGED <<disabled, handoffs, stripe, executed, verdict, faults>>

\* Nothing was read or swept, so there is nothing to post.
CronHasNothing ==
    /\ cron.pc = "reading" /\ cron.todo = {} /\ cron.obs = NothingRead
    /\ CronTo("idle", {}, NothingRead)
    /\ UNCHANGED <<row, hold, entSub, latest, disabled, handoffs, calls, stripe,
                   executed, verdict, faults>>

\* The scheduled worker dies, and every call it was making with it.
CronDies ==
    /\ cron.pc # "idle" /\ Fault
    /\ CronTo("idle", {}, NothingRead)
    /\ calls' = {c \in calls : c.owner = "cron" => c.stage = "orphan"} \cup
                {[c EXCEPT !.stage = "orphan"] : c \in {d \in calls : d.owner = "cron" /\ d.stage = "sending"}}
    /\ UNCHANGED <<row, hold, entSub, latest, disabled, handoffs, stripe, executed, verdict>>

-----------------------------------------------------------------------------
(* Stripe and the clock. *)

\* Fifteen minutes pass on a marker.  An executor's call lasts at most ten
\* seconds and then settles, so none of the marker's is still under way.
MarkerAges(s) ==
    /\ Marked(row[s]) /\ ~row[s].aged
    /\ \A c \in calls : c.sub = s /\ c.version = row[s].inFlight => c.stage = "orphan"
    /\ row' = [row EXCEPT ![s].aged = TRUE]
    /\ UNCHANGED <<hold, entSub, latest, disabled, handoffs, calls, cron, stripe,
                   executed, verdict, faults>>

\* A customer or Stripe cancels the subscription.
StripeCancels(s) ==
    /\ stripe[s] # "canceled"
    /\ stripe' = [stripe EXCEPT ![s] = "canceled"]
    /\ UNCHANGED <<row, hold, entSub, latest, disabled, handoffs, calls, cron,
                   executed, verdict, faults>>

\* Somebody edits pause_collection in the dashboard.
DashboardEdit(s) ==
    /\ stripe[s] # "canceled" /\ Fault
    /\ stripe' = [stripe EXCEPT ![s] = IF @ = "active" THEN "paused" ELSE "active"]
    /\ UNCHANGED <<row, hold, entSub, latest, disabled, handoffs, calls, cron,
                   executed, verdict>>

-----------------------------------------------------------------------------
Init ==
    /\ row = [s \in Subs |-> [desired |-> "active", desiredVersion |-> 0,
                              appliedVersion |-> 0, inFlight |-> NoVersion,
                              inFlightState |-> "none", aged |-> FALSE,
                              canceled |-> FALSE]]
    /\ hold = [d \in Disputes |-> [sub |-> NoSub, state |-> "open"]]
    /\ entSub \in [Subjects -> Subs]
    /\ \A x \in Subjects : SubsOf(x) # {} => entSub[x] \in SubsOf(x)
    /\ latest = entSub
    /\ disabled = {}
    /\ handoffs = {}
    /\ calls = {}
    /\ cron = [pc |-> "idle", todo |-> {}, obs |-> NothingRead]
    /\ stripe = [s \in Subs |-> "active"]
    /\ executed = {}
    /\ verdict \in [Disputes -> {"won", "lost"}]
    /\ faults = 0

Next ==
    \/ \E d \in Disputes : DisputeNotice(d) \/ ReviewDisputeHold(d)
    \/ \E s \in Subs : SubscriptionEvent(s) \/ CronReads(s) \/ MarkerAges(s)
                       \/ StripeCancels(s) \/ DashboardEdit(s)
    \/ \E x \in Subjects : DisableCompany(x) \/ ExecutorClaims(x)
    \/ \E c \in calls : StripeExecutes(c) \/ StripeRejects(c) \/ CallAbandoned(c)
                        \/ SettleCollection(c)
    \/ CronStart \/ CronSent \/ CronPosts \/ CronHasNothing \/ CronDies

Spec == Init /\ [][Next]_vars

\* The cron fires every day and gets on with its run, a call ends in its
\* timeout at the latest, and time passes.  Nothing is assumed of webhooks, of
\* people, or of a request whose executor has given up.
Fairness ==
    /\ WF_vars(CronStart) /\ WF_vars(CronSent) /\ WF_vars(CronPosts)
    /\ WF_vars(CronHasNothing)
    /\ \A s \in Subs : WF_vars(CronReads(s)) /\ WF_vars(MarkerAges(s))
    /\ WF_vars(\E c \in calls : c.stage = "sending" /\ (StripeExecutes(c) \/ StripeRejects(c)))
    /\ WF_vars(\E c \in calls : SettleCollection(c))

FairSpec == Spec /\ Fairness

-----------------------------------------------------------------------------
(* Properties. *)

\* Every variable keeps the shape of the table, request or set it stands for.
TypeOK ==
    /\ row \in [Subs -> Row]
    /\ hold \in [Disputes -> [sub : Subs \cup {NoSub}, state : HoldState]]
    /\ entSub \in [Subjects -> Subs]
    /\ latest \in [Subjects -> Subs]
    /\ disabled \subseteq Companies
    /\ handoffs \subseteq Subjects
    /\ calls \subseteq Call
    /\ cron \in Cron
    /\ stripe \in [Subs -> CollectionState]
    /\ executed \subseteq Key
    /\ verdict \in [Disputes -> HoldState]
    /\ faults \in Nat

\* The CHECK constraints of billing_subscriptions hold after every transaction,
\* and a marker is always for a version past the applied one: no settle, repair
\* or cancel of any race is rolled back by the schema.
VersionChain ==
    \A s \in Subs :
        LET r == row[s]
        IN /\ r.appliedVersion <= r.desiredVersion
           /\ Marked(r) => r.inFlight \in (r.appliedVersion + 1)..r.desiredVersion
           /\ Marked(r) <=> r.inFlightState # "none"

MarkerKey(s) == [sub |-> s, version |-> row[s].inFlight, state |-> row[s].inFlightState]

\* Every key that was claimed, is on its way to Stripe, or was carried out.
Keys == {KeyOf(c) : c \in calls} \cup executed
        \cup {MarkerKey(s) : s \in {t \in Subs : Marked(row[t])}}

\* A key collection:<subscription>:<version> stands for one state for ever:
\* whatever is claimed, repaired, re-sent or late, Stripe never sees a key
\* again with other parameters, so a replayed answer is the right answer.
KeyDeterminesState ==
    \A k, l \in Keys : k.sub = l.sub /\ k.version = l.version => k.state = l.state

\* A canceled row never asks for anything else again, a new wanted state always
\* comes under a new version, and no version is ever taken back, whichever of a
\* hold, a repair, a settle or a cancel comes last.
ForwardOnly ==
    [][\A s \in Subs :
          /\ row[s].desired = "canceled" => row'[s].desired = "canceled"
          /\ row'[s].desired # row[s].desired => row'[s].desiredVersion > row[s].desiredVersion
          /\ row'[s].desiredVersion >= row[s].desiredVersion
          /\ row'[s].appliedVersion >= row[s].appliedVersion
          /\ row[s].canceled => row'[s].canceled]_vars

\* The subject has no other subscription.  Every company's is such a one; an
\* account that subscribes again has two rows.
Sole(s) == SubsOf(SubjectOf[s]) = {s}

\* The wanted state is what the holds on the row call for, whatever order
\* notices, reviews and sweeps of several disputes came in.  (Of two rows of one
\* account, a dispute recomputes the one its entitlement names.)
DesiredFollowsHolds ==
    \A s \in Subs : Sole(s) /\ row[s].desired # "canceled"
                       => row[s].desired = Fold(HoldsOf(hold, s))

\* A version is applied on evidence only: Stripe carried that very version
\* out, or a read of Stripe returned the state it was claimed with, or the
\* row was canceled.  (Of two rows of one account, a settle takes the latest.)
AppliedOnEvidence ==
    [][\A s \in Subs :
          Sole(s) /\ row'[s].appliedVersion # row[s].appliedVersion =>
             \/ row'[s].desired = "canceled"
             \/ [sub |-> s, version |-> row[s].inFlight, state |-> row[s].inFlightState] \in executed
             \/ cron.obs[s] = row[s].inFlightState]_vars

\* Once interference ends, Stripe comes to the state that the holds and the
\* cancels call for, and stays there; a disabled company is the exception.
StripeConverges ==
    \A s \in Subs : <>[](SubjectOf[s] \in disabled \/ stripe[s] = row[s].desired)

\* No marker stays for ever: an executor settles it, a read confirms it, or the
\* reconcile times it out, even if its claimer never heard of the claim.
MarkersEnd == \A s \in Subs : []<>~Marked(row[s])

=============================================================================
