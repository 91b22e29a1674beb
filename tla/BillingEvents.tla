---------------------------- MODULE BillingEvents ----------------------------
(***************************************************************************)
(* What Stripe says of one subscription and how the identity store comes    *)
(* to know it.  Stripe keeps the truth and sends events about it, each      *)
(* delivered until it is answered with 200, several times if the answer is  *)
(* lost, in any order (worker.ts, handleStripeWebhook).  A handler asks the *)
(* IdentityDO whether the event has a receipt, fetches the event's object   *)
(* as it is NOW, and posts both; the IdentityDO applies them in one         *)
(* transaction (apply.ts, applyEvent).  Every day the cron reads the        *)
(* subscription itself and posts what it saw (runBillingReconcile,          *)
(* reconcileBilling).  So the state that is written was fetched at one time *)
(* and is stamped with another: the event's creation, or the reconcile's    *)
(* own clock.                                                               *)
(*                                                                          *)
(* The subscription belongs to a company, whose row is attached when an     *)
(* operator's invoice is settled and whose members hold copies of it, or    *)
(* to an account, whose personal entitlement is the row.  A checkout with a *)
(* referral code leaves a redemption, which the first paid invoice earns    *)
(* and a refund voids (referrals/ledger.ts).  Collection and disputes are   *)
(* in module Collection, seats in module SeatChange.                        *)
(***************************************************************************)
EXTENDS Integers, FiniteSets

CONSTANTS
    Invoices,     \* the subscription's invoices
    FreeInvoices, \* those of a trial: paid, with the amount 0
    Checkouts,    \* checkout sessions of the account, all with one referral code
    Grace,        \* PAST_DUE_GRACE_MS
    MaxNow,       \* bound on the clock, whose tick is the second of event.created
    MaxEvents,    \* bound on the events Stripe creates
    MaxHandlers,  \* bound on the webhook requests under way
    MaxFaults     \* bound on failed reads and posts, deaths and lost answers

ASSUME BillingAssumption ==
    /\ FreeInvoices \subseteq Invoices
    /\ {Grace, MaxNow, MaxEvents, MaxHandlers} \subseteq Nat \ {0} /\ MaxFaults \in Nat

\* "unpaid" is a status a personal entitlement cannot hold.
Statuses == {"active", "past_due", "unpaid", "canceled"}
NoGrace == 0
NoCopy == [status |-> "none", grace |-> NoGrace]

VARIABLES
    kind,       \* the subject: "company" or "account"
    codeEnds,   \* the referral code's expiry; 0: it has none that counts
    now,        \* the clock of Stripe and of the worker
    stripe,     \* [status, paid, sessions, events]: the subscription, its paid
                \* invoices, the checkout sessions, the number of events created
    owed,       \* the events Stripe still delivers
    handlers,   \* webhook requests that have fetched: [event, seen]
    db,         \* the identity store, see Db
    run,        \* the daily reconcile: [at, seen]
    faults      \* how many things have failed

vars == <<kind, codeEnds, now, stripe, owed, handlers, db, run, faults>>

Events ==
    [id : 1..MaxEvents, created : 1..MaxNow,
     type : {"customer.subscription.updated", "invoice.paid", "invoice.payment_failed",
             "checkout.session.completed", "charge.refunded"},
     object : {"subscription", "charge"} \union Invoices \union Checkouts]

Db ==
    [receipts : SUBSET (1..MaxEvents),
     effects : SUBSET ({"invoice_paid", "invoice_payment_failed", "checkout_completed", "refund"}
                       \X (Invoices \union Checkouts \union {"charge"})),
     row : BOOLEAN,            \* a company_subscriptions or personal entitlements row exists
     ordered : BOOLEAN,        \* a billing_subscriptions row exists
     status : Statuses,        \* status and grace_until of the row
     grace : Nat,
     firstPaid : BOOLEAN,      \* first_paid_at of the company's row is set
     stamp : 0..MaxNow,        \* last_state_event_created
     canceled : BOOLEAN,       \* processor_canceled_at is set
     joined : BOOLEAN,         \* the company has its member
     copy : [status : Statuses \union {"none"}, grace : Nat],
                               \* the member's entitlement of source "company"
     redemption : {"none", "pending", "earned", "voided"}]

TypeOK ==
    /\ kind \in {"company", "account"} /\ codeEnds \in 0..(MaxNow + 1) /\ now \in 1..MaxNow
    /\ stripe \in [status : Statuses, paid : SUBSET Invoices,
                  sessions : [Checkouts -> {"none", "coded", "plain"}], events : 0..MaxEvents]
    /\ owed \subseteq Events
    /\ handlers \subseteq [event : Events, seen : Statuses]
    /\ db \in Db
    /\ run \in [at : {"idle", "listed", "read"}, seen : Statuses]
    /\ faults \in 0..MaxFaults

-----------------------------------------------------------------------------
(* Stripe *)

\* A personal entitlements row is written only where one exists already; the
\* account of a first checkout has none.
Init ==
    /\ kind \in {"company", "account"}
    /\ codeEnds \in IF kind = "company" THEN {0} ELSE {1, 2, MaxNow + 1}
    /\ now = 1
    /\ stripe = [status |-> "active", paid |-> {}, events |-> 0,
                  sessions |-> [c \in Checkouts |-> "none"]]
    /\ owed = {} /\ handlers = {}
    /\ \E row \in IF kind = "company" THEN {FALSE} ELSE BOOLEAN :
         db = [receipts |-> {}, effects |-> {}, row |-> row, ordered |-> FALSE,
               status |-> "active", grace |-> NoGrace, firstPaid |-> FALSE,
               stamp |-> 0, canceled |-> FALSE, joined |-> FALSE, copy |-> NoCopy,
               redemption |-> "none"]
    /\ run = [at |-> "idle", seen |-> "active"] /\ faults = 0

\* Something fails.
Fault == faults < MaxFaults /\ faults' = faults + 1

\* Stripe changes and creates an event about it.  The status and the invoices
\* change in steps of their own, as their events do.
Emits(type, object, status, paid) ==
    /\ stripe.events < MaxEvents
    /\ stripe' = [stripe EXCEPT !.status = status, !.paid = paid, !.events = @ + 1]
    /\ owed' = owed \union
         {[id |-> stripe.events + 1, created |-> now, type |-> type, object |-> object]}
    /\ UNCHANGED <<kind, codeEnds, now, handlers, db, run, faults>>

StatusChanges(status) ==
    /\ stripe.status \notin {status, "canceled"}
    /\ Emits("customer.subscription.updated", "subscription", status, stripe.paid)

\* Stripe may create a second event for an invoice it has reported paid.
InvoicePaid(i) == Emits("invoice.paid", i, stripe.status, stripe.paid \union {i})

InvoiceFails(i) ==
    /\ i \notin stripe.paid \union FreeInvoices
    /\ Emits("invoice.payment_failed", i, stripe.status, stripe.paid)

\* The referral code is in force.
LiveCode(at) == at < codeEnds

\* The account asks for a checkout.  The session names the referral code if
\* that is in force now; a request that is repeated gets the session it has.
CheckoutOpens(c) ==
    /\ kind = "account" /\ stripe.sessions[c] = "none"
    /\ stripe' = [stripe EXCEPT !.sessions[c] = IF LiveCode(now) THEN "coded" ELSE "plain"]
    /\ UNCHANGED <<kind, codeEnds, now, owed, handlers, db, run, faults>>

CheckoutCompletes(c) ==
    /\ stripe.sessions[c] # "none"
    /\ Emits("checkout.session.completed", c, stripe.status, stripe.paid)

ChargeRefunded ==
    /\ kind = "account" /\ stripe.paid \ FreeInvoices # {}
    /\ Emits("charge.refunded", "charge", stripe.status, stripe.paid)

Tick ==
    /\ now < MaxNow
    /\ now' = now + 1
    /\ UNCHANGED <<kind, codeEnds, stripe, owed, handlers, db, run, faults>>

-----------------------------------------------------------------------------
(* What one transaction of the IdentityDO does to its tables, d *)

\* resolveSubject finds the subscription's subject once its row exists: by the
\* ordering row, the company's row, the entitlement.
Resolves(d) == d.row

\* A personal entitlement cannot be written with this status: the apply
\* throws and its transaction is rolled back.
Unspeakable(d, status) == kind = "account" /\ Resolves(d) /\ status = "unpaid"

\* A write stamped `created` is skipped: no row to write, a subscription whose
\* cancel is recorded, or one that has a later write.
Skips(d, created) == ~d.row \/ d.canceled \/ created < d.stamp

\* The grace a past_due row gets: the one it has, or a new one.
GraceFor(d, status, created) ==
    IF status # "past_due" THEN NoGrace
    ELSE IF d.status = "past_due" /\ d.grace # NoGrace THEN d.grace
    ELSE created + Grace

\* What a member's entitlement says of the company's row: a status that pays
\* for nothing is a canceled one there, and only past_due has a grace.
CompanyEntitlement(d) ==
    [status |-> IF d.status \in {"active", "past_due"} THEN d.status ELSE "canceled",
     grace |-> IF d.status = "past_due" THEN d.grace ELSE NoGrace]

\* The member's entitlement is written from the company's row, once that is paid.
Materialized(d) ==
    IF d.joined /\ d.firstPaid THEN [d EXCEPT !.copy = CompanyEntitlement(d)] ELSE d

\* A fetched status stamped `created` is written to the row and its ordering,
\* and from there to the members.
StateApplied(d, status, created) ==
    IF Skips(d, created) THEN [d EXCEPT !.ordered = d.ordered \/ d.row]
    ELSE Materialized(
           [d EXCEPT !.ordered = TRUE, !.status = status, !.stamp = created,
                     !.grace = GraceFor(d, status, created),
                     !.canceled = (status = "canceled")])

\* Mutant: the date is set and the members are left to the next event.
FirstPaid_NoFanOut(d) ==
    IF kind = "company" /\ d.row /\ ~d.firstPaid THEN [d EXCEPT !.firstPaid = TRUE] ELSE d

\* The first paid invoice that finds the company's row makes it count.
FirstPaid(d) ==
    IF kind = "company" /\ d.row /\ ~d.firstPaid
    THEN Materialized([d EXCEPT !.firstPaid = TRUE])
    ELSE d

\* A paid invoice of the referred customer earns the pending redemption.
Confirmed(d, i) ==
    IF i \notin FreeInvoices /\ d.redemption = "pending"
    THEN [d EXCEPT !.redemption = "earned"]
    ELSE d

\* An effect on a business object, which makes then of d, is applied once,
\* whichever event brings it.
Once(d, effect, object, then) ==
    IF <<effect, object>> \in d.effects THEN d
    ELSE [then EXCEPT !.effects = @ \union {<<effect, object>>}]

PaidEffects(d, i) ==
    Once(d, "invoice_paid", i, Confirmed(IF i \in FreeInvoices THEN d ELSE FirstPaid(d), i))

\* One redemption for an account, if the session names the code and the code
\* is still in force when the checkout completes.
Redeemed(d, c, created) ==
    IF d.redemption = "none" /\ stripe.sessions[c] = "coded" /\ LiveCode(created)
    THEN [d EXCEPT !.redemption = "pending"]
    ELSE d

CheckoutEffects(d, c, created) ==
    Once(d, "checkout_completed", c, Redeemed(d, c, created))

Reversed(d) == IF d.redemption = "none" THEN d ELSE [d EXCEPT !.redemption = "voided"]

ProcessEvent(d, e, seen) ==
    LET class1 == StateApplied(d, seen, e.created) IN
    CASE e.type = "customer.subscription.updated" -> class1
      [] e.type = "invoice.paid" -> PaidEffects(class1, e.object)
      [] e.type = "invoice.payment_failed" ->
           Once(class1, "invoice_payment_failed", e.object, class1)
      [] e.type = "checkout.session.completed" ->
           CheckoutEffects(class1, e.object, e.created)
      [] e.type = "charge.refunded" -> Once(d, "refund", e.object, Reversed(d))

\* Which events carry the subscription, so that their handler reads its status.
ReadsStatus(e) == e.type # "charge.refunded"

Throws(d, e, seen) == ReadsStatus(e) /\ Unspeakable(d, seen)

\* A repeated event id changes nothing.
ApplyEvent(d, e, seen) ==
    IF e.id \in d.receipts THEN d
    ELSE ProcessEvent([d EXCEPT !.receipts = @ \union {e.id}], e, seen)

-----------------------------------------------------------------------------
(* The webhook *)

\* The event has a receipt: the handler answers with its outcome.
AnsweredFromReceipt(e) ==
    /\ e \in owed /\ e.id \in db.receipts
    /\ owed' = owed \ {e}
    /\ UNCHANGED <<kind, codeEnds, now, stripe, handlers, db, run, faults>>

\* The status that is in the object of the event when it is read.
SeenFor(e) == IF ReadsStatus(e) THEN stripe.status ELSE "active"

\* The event is unknown and its object is read from Stripe.
Fetched(e) ==
    /\ e \in owed /\ e.id \notin db.receipts
    /\ Cardinality(handlers) < MaxHandlers
    /\ handlers' = handlers \union {[event |-> e, seen |-> SeenFor(e)]}
    /\ UNCHANGED <<kind, codeEnds, now, stripe, owed, db, run, faults>>

\* Mutant: the failure is answered like an event of no interest, with 200.
OwedAfterFailure_Acks(e) == owed \ {e}

\* The read fails and the handler answers 500, so Stripe goes on delivering.
OwedAfterFailure(e) == owed

FetchFails(e) ==
    /\ e \in owed /\ e.id \notin db.receipts
    /\ Fault
    /\ owed' = OwedAfterFailure(e)
    /\ UNCHANGED <<kind, codeEnds, now, stripe, handlers, db, run>>

\* The IdentityDO applies what the handler posts, and Stripe hears of it.
Applies(h) ==
    /\ h \in handlers
    /\ h.event.id \in db.receipts \/ ~Throws(db, h.event, h.seen)
    /\ db' = ApplyEvent(db, h.event, h.seen)
    /\ handlers' = handlers \ {h}
    /\ UNCHANGED <<kind, codeEnds, now, stripe, run>>

Applied(h) == Applies(h) /\ owed' = owed \ {h.event} /\ UNCHANGED faults

AppliedAnswerLost(h) == Applies(h) /\ UNCHANGED owed /\ Fault

\* The status cannot be written: nothing is, and the answer is 500.
ApplyThrows(h) ==
    /\ h \in handlers
    /\ h.event.id \notin db.receipts /\ Throws(db, h.event, h.seen)
    /\ handlers' = handlers \ {h}
    /\ UNCHANGED <<kind, codeEnds, now, stripe, owed, db, run, faults>>

\* The worker dies before the post, or the post does not arrive.
HandlerFails(h) ==
    /\ h \in handlers
    /\ Fault
    /\ handlers' = handlers \ {h}
    /\ UNCHANGED <<kind, codeEnds, now, stripe, owed, db, run>>

-----------------------------------------------------------------------------
(* The company's row and its member *)

\* The operator's invoice has made the subscription at Stripe; settling it
\* writes the row, with the status Stripe answered then.
AttachCompanySubscription ==
    /\ kind = "company" /\ ~db.row
    /\ db' = [db EXCEPT !.row = TRUE, !.ordered = TRUE]
    /\ UNCHANGED <<kind, codeEnds, now, stripe, owed, handlers, run, faults>>

MemberJoins ==
    /\ kind = "company" /\ ~db.joined
    /\ db' = Materialized([db EXCEPT !.joined = TRUE])
    /\ UNCHANGED <<kind, codeEnds, now, stripe, owed, handlers, run, faults>>

-----------------------------------------------------------------------------
(* The daily reconcile *)

\* Mutant: a subscription that has stopped paying is not worth a read.
Listed_ActiveOnly(d) == d.ordered /\ d.status = "active"

\* The subscriptions the cron reads: all whose cancel is not recorded.
Listed(d) == d.ordered /\ ~d.canceled

ReconcileLists ==
    /\ run.at = "idle" /\ Listed(db)
    /\ run' = [run EXCEPT !.at = "listed"]
    /\ UNCHANGED <<kind, codeEnds, now, stripe, owed, handlers, db, faults>>

ReconcileReads ==
    /\ run.at = "listed"
    /\ run' = [at |-> "read", seen |-> stripe.status]
    /\ UNCHANGED <<kind, codeEnds, now, stripe, owed, handlers, db, faults>>

\* The read or the post fails, or the worker dies; tomorrow is another run.
ReconcileFails ==
    /\ run.at # "idle"
    /\ Fault
    /\ run' = [at |-> "idle", seen |-> "active"]
    /\ UNCHANGED <<kind, codeEnds, now, stripe, owed, handlers, db>>

\* What the cron saw is stamped with the time it is applied.  A personal row
\* and a status it cannot hold: an alert, and nothing is written.
ReconcileApplies ==
    /\ run.at = "read"
    /\ db' = IF Unspeakable(db, run.seen) \/ db.canceled THEN db
             ELSE StateApplied(db, run.seen, now)
    /\ run' = [at |-> "idle", seen |-> "active"]
    /\ UNCHANGED <<kind, codeEnds, now, stripe, owed, handlers, faults>>

-----------------------------------------------------------------------------
StripeMoves ==
    \/ \E status \in Statuses : StatusChanges(status)
    \/ \E i \in Invoices : InvoicePaid(i) \/ InvoiceFails(i)
    \/ \E c \in Checkouts : CheckoutOpens(c) \/ CheckoutCompletes(c)
    \/ ChargeRefunded

Delivery == \E e \in owed : AnsweredFromReceipt(e) \/ Fetched(e)
Applying == \E h \in handlers : Applied(h) \/ ApplyThrows(h)
Reconcile == ReconcileLists \/ ReconcileReads \/ ReconcileApplies

Next ==
    \/ StripeMoves
    \/ Tick
    \/ Delivery \/ Applying \/ Reconcile
    \/ \E e \in owed : FetchFails(e)
    \/ \E h \in handlers : AppliedAnswerLost(h) \/ HandlerFails(h)
    \/ AttachCompanySubscription \/ MemberJoins
    \/ ReconcileFails

Spec == Init /\ [][Next]_vars

\* Stripe delivers until it is answered, a handler ends, and the cron comes
\* every day.  Since events and faults are few, one condition for all
\* deliveries is enough: no delivery can be put off for ever by others.
Fairness == WF_vars(Delivery) /\ WF_vars(Applying) /\ WF_vars(Reconcile)

FairSpec == Spec /\ Fairness

-----------------------------------------------------------------------------
\* Once the company's row has been paid a member is served by what the row
\* says now, and by nothing before: in no order of payments, events, joins and
\* reconciles does a member keep a right whose row has stopped paying (unpaid
\* or canceled), lose one whose row pays, or have another end of grace.
MembersFollowTheRow ==
    IF db.joined /\ db.firstPaid
    THEN /\ db.copy.status = "canceled" <=> db.status \in {"unpaid", "canceled"}
         /\ db.copy.status # "canceled" => db.copy.status = db.status
         /\ db.copy.grace = IF db.status = "past_due" THEN db.grace ELSE NoGrace
    ELSE db.copy = NoCopy

\* A referrer is rewarded only for money: an earned redemption has behind it
\* an invoice, recorded as paid, that was not free.
RewardsAreForMoney ==
    db.redemption = "earned" =>
        \E i \in Invoices \ FreeInvoices : <<"invoice_paid", i>> \in db.effects

\* A cancel that Stripe reported is the end: no late event and no stale read
\* of the reconcile brings the subscription back.
CanceledStays == [][db.canceled => db'.canceled /\ db'.status = "canceled"]_vars

\* While a subscription stays past due its deadline does not move, however
\* often that is reported and by whom.
GraceOpensOnce ==
    [][db.status = "past_due" /\ db'.status = "past_due" => db'.grace = db.grace]_vars

\* Whatever the webhooks wrote, and in whatever order, the row comes to hold
\* the status Stripe rests in and stays there, if it can hold it.
RowConverges ==
    \A status \in Statuses :
        <>[](stripe.status = status /\ db.ordered /\ ~Unspeakable(db, status))
            => <>[](db.status = status)

\* An invoice that was paid is recorded as paid, though reads fail, handlers
\* die and answers are lost; except if Stripe rests in a status that the
\* account's entitlement cannot hold, which rolls every apply back.
PaidIsRecorded ==
    <>[]Unspeakable(db, stripe.status)
    \/ \A i \in Invoices : i \in stripe.paid ~> <<"invoice_paid", i>> \in db.effects

=============================================================================
