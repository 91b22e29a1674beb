------------------------- MODULE BillingEventsProofs -------------------------
(***************************************************************************)
(* What BillingEvents guarantees for any number of invoices, checkouts,      *)
(* events, handlers and faults, however long the grace is.                   *)
(*                                                                         *)
(* The argument.  Every write of the identity store is made of functions     *)
(* from tables to tables.  Each keeps Sane, which relates the row to the      *)
(* copies, the rewards and the deadline that hang from it, and only one of    *)
(* them, StateApplied, moves a status: it Moves the row as a cancel and a     *)
(* deadline allow.  An event is About an object of its own kind, wherever     *)
(* it waits.                                                               *)
(***************************************************************************)
EXTENDS BillingEvents, TLAPS

-----------------------------------------------------------------------------
(* The invariant. *)

\* An event names an object of its kind.
About(e) ==
    /\ e.type \in {"invoice.paid", "invoice.payment_failed"} => e.object \in Invoices
    /\ e.type = "checkout.session.completed" => e.object \in Checkouts
    /\ e.type = "charge.refunded" => e.object = "charge"

GoodEvents == {e \in Events : About(e)}

Follows(d) ==
    d.copy = IF d.joined /\ d.firstPaid THEN CompanyEntitlement(d) ELSE NoCopy

Deserved(d) ==
    d.redemption = "earned" => \E i \in Invoices \ FreeInvoices : <<"invoice_paid", i>> \in d.effects

\* A recorded cancel is the row's status, and who is past due has a deadline.
Settled(d) ==
    /\ d.canceled => d.status = "canceled"
    /\ d.status = "past_due" => d.grace # NoGrace

Sane(d) == d \in Db /\ Follows(d) /\ Deserved(d) /\ Settled(d)

\* What a write may do to the status of a row.
Moves(d, f) ==
    /\ d.canceled => f.canceled /\ f.status = "canceled"
    /\ d.status = "past_due" /\ f.status = "past_due" => f.grace = d.grace

Keeps(d, f) == f.canceled = d.canceled /\ f.status = d.status /\ f.grace = d.grace

Waiting == owed \subseteq GoodEvents /\ \A h \in handlers : h.event \in GoodEvents

Kept == TypeOK /\ Waiting /\ Sane(db)

-----------------------------------------------------------------------------
(* The functions on the tables. *)

LEMMA Bounds ==
    /\ Grace \in Nat \ {0} /\ MaxNow \in Nat \ {0} /\ MaxEvents \in Nat \ {0}
    /\ MaxHandlers \in Nat \ {0} /\ MaxFaults \in Nat /\ FreeInvoices \subseteq Invoices
BY BillingAssumption

LEMMA DbFields ==
    ASSUME NEW d \in Db
    PROVE  /\ d.receipts \in SUBSET (1..MaxEvents)
           /\ d.effects \in SUBSET ({"invoice_paid", "invoice_payment_failed", "checkout_completed", "refund"}
                                    \X (Invoices \union Checkouts \union {"charge"}))
           /\ d.row \in BOOLEAN /\ d.ordered \in BOOLEAN /\ d.firstPaid \in BOOLEAN
           /\ d.canceled \in BOOLEAN /\ d.joined \in BOOLEAN
           /\ d.status \in Statuses /\ d.grace \in Nat /\ d.stamp \in 0..MaxNow
           /\ d.copy \in [status : Statuses \union {"none"}, grace : Nat]
           /\ d.redemption \in {"none", "pending", "earned", "voided"}
BY DEF Db

\* The members' copies are made when the row has been paid.
LEMMA MaterializedSane ==
    ASSUME NEW d \in Db, Deserved(d), Settled(d), (d.joined /\ d.firstPaid) \/ Follows(d)
    PROVE  /\ Sane(Materialized(d)) /\ Keeps(d, Materialized(d))
           /\ Materialized(d).effects = d.effects /\ Materialized(d).redemption = d.redemption
<1>1. CASE d.joined /\ d.firstPaid
  <2>1. PICK c : c = CompanyEntitlement(d)
    OBVIOUS
  <2>2. c \in [status : Statuses \union {"none"}, grace : Nat]
    BY <2>1, DbFields DEF CompanyEntitlement, Statuses, NoGrace
  <2>3. PICK f : f = [d EXCEPT !.copy = c]
    OBVIOUS
  <2>4. f \in Db
    BY <2>2, <2>3 DEF Db
  <2>5. /\ f.copy = c /\ f.status = d.status /\ f.grace = d.grace /\ f.canceled = d.canceled
        /\ f.joined = d.joined /\ f.firstPaid = d.firstPaid /\ f.effects = d.effects
        /\ f.redemption = d.redemption
    BY <2>3 DEF Db
  <2>6. Materialized(d) = f
    BY <1>1, <2>1, <2>3 DEF Materialized
  <2> QED BY <1>1, <2>1, <2>4, <2>5, <2>6 DEF Sane, Follows, CompanyEntitlement, Deserved, Settled, Keeps
<1>2. CASE ~(d.joined /\ d.firstPaid)
  BY <1>2 DEF Materialized, Sane, Keeps
<1> QED BY <1>1, <1>2

LEMMA GraceForType ==
    ASSUME NEW d \in Db, Settled(d), NEW status \in Statuses, NEW created \in 1..MaxNow
    PROVE  /\ GraceFor(d, status, created) \in Nat
           /\ status = "past_due" => GraceFor(d, status, created) # NoGrace
           /\ status = "past_due" /\ d.status = "past_due" => GraceFor(d, status, created) = d.grace
<1>1. created + Grace \in Nat /\ created + Grace # 0
  BY Bounds
<1> QED BY <1>1, DbFields DEF GraceFor, NoGrace, Settled

\* A state is written only over a row without a cancel, and moves no deadline.
LEMMA StateAppliedSane ==
    ASSUME NEW d, Sane(d), NEW status \in Statuses, NEW created \in 1..MaxNow
    PROVE  /\ Sane(StateApplied(d, status, created)) /\ Moves(d, StateApplied(d, status, created))
           /\ StateApplied(d, status, created).effects = d.effects
<1>0. d \in Db
  BY DEF Sane
<1>1. CASE Skips(d, created)
  <2>1. PICK f : f = [d EXCEPT !.ordered = d.ordered \/ d.row]
    OBVIOUS
  <2>2. f \in Db
    BY <1>0, <2>1 DEF Db
  <2>3. /\ f.copy = d.copy /\ f.status = d.status /\ f.grace = d.grace /\ f.canceled = d.canceled
        /\ f.joined = d.joined /\ f.firstPaid = d.firstPaid /\ f.effects = d.effects
        /\ f.redemption = d.redemption
    BY <1>0, <2>1 DEF Db
  <2>4. StateApplied(d, status, created) = f
    BY <1>1, <2>1 DEF StateApplied
  <2> QED BY <2>2, <2>3, <2>4 DEF Sane, Follows, CompanyEntitlement, Deserved, Settled, Moves
<1>2. CASE ~Skips(d, created)
  <2>1. PICK g : g = GraceFor(d, status, created)
    OBVIOUS
  <2>2. /\ g \in Nat
        /\ status = "past_due" => g # NoGrace
        /\ status = "past_due" /\ d.status = "past_due" => g = d.grace
    BY <1>0, <2>1, GraceForType DEF Sane
  <2>0. PICK b \in BOOLEAN : b = (status = "canceled")
    OBVIOUS
  <2>3. PICK f : f = [d EXCEPT !.ordered = TRUE, !.status = status, !.stamp = created,
                               !.grace = g, !.canceled = b]
    OBVIOUS
  <2>4. created \in 0..MaxNow
    BY Bounds
  <2>5. f \in Db
    <3>1. f = [receipts |-> d.receipts, effects |-> d.effects, row |-> d.row, ordered |-> TRUE,
               status |-> status, grace |-> g, firstPaid |-> d.firstPaid, stamp |-> created,
               canceled |-> b, joined |-> d.joined, copy |-> d.copy, redemption |-> d.redemption]
      BY <1>0, <2>3 DEF Db
    <3> QED BY <1>0, <2>2, <2>4, <3>1, DbFields DEF Db
  <2>6. /\ f.copy = d.copy /\ f.status = status /\ f.grace = g /\ f.canceled = b
        /\ f.joined = d.joined /\ f.firstPaid = d.firstPaid /\ f.effects = d.effects
        /\ f.redemption = d.redemption
    BY <1>0, <2>3 DEF Db
  <2>7. StateApplied(d, status, created) = Materialized(f)
    BY <1>2, <2>0, <2>1, <2>3 DEF StateApplied
  <2>8. Deserved(f) /\ Settled(f)
    <3>1. Deserved(f)
      BY <2>6 DEF Sane, Deserved
    <3>2. f.canceled => f.status = "canceled"
      BY <2>0, <2>6
    <3> QED BY <2>2, <2>6, <3>1, <3>2 DEF Settled
  <2>9. (f.joined /\ f.firstPaid) \/ Follows(f)
    BY <2>6 DEF Sane, Follows, CompanyEntitlement
  <2>10. ~d.canceled
    BY <1>2 DEF Skips
  <2> QED BY <2>2, <2>5, <2>6, <2>7, <2>8, <2>9, <2>10, MaterializedSane DEF Moves, Keeps
<1> QED BY <1>1, <1>2

LEMMA FirstPaidSane ==
    ASSUME NEW d, Sane(d)
    PROVE  /\ Sane(FirstPaid(d)) /\ Keeps(d, FirstPaid(d)) /\ FirstPaid(d).effects = d.effects
           /\ FirstPaid(d).redemption = d.redemption
<1>0. d \in Db
  BY DEF Sane
<1>1. CASE kind = "company" /\ d.row /\ ~d.firstPaid
  <2>1. PICK f : f = [d EXCEPT !.firstPaid = TRUE]
    OBVIOUS
  <2>2. f \in Db
    BY <1>0, <2>1 DEF Db
  <2>3. /\ f.copy = d.copy /\ f.status = d.status /\ f.grace = d.grace /\ f.canceled = d.canceled
        /\ f.joined = d.joined /\ f.firstPaid /\ f.effects = d.effects /\ f.redemption = d.redemption
    BY <1>0, <2>1 DEF Db
  <2>4. FirstPaid(d) = Materialized(f)
    BY <1>1, <2>1 DEF FirstPaid
  <2>5. Deserved(f) /\ Settled(f) /\ ((f.joined /\ f.firstPaid) \/ Follows(f))
    BY <1>1, <2>3, DbFields, <1>0 DEF Sane, Deserved, Settled, Follows, CompanyEntitlement
  <2> QED BY <2>2, <2>3, <2>4, <2>5, MaterializedSane DEF Keeps
<1>2. CASE ~(kind = "company" /\ d.row /\ ~d.firstPaid)
  BY <1>2 DEF FirstPaid, Keeps
<1> QED BY <1>1, <1>2

\* An effect is recorded with what it makes of the tables.
LEMMA OnceSane ==
    ASSUME NEW d, Sane(d), NEW f \in Db, Follows(f), Settled(f), Keeps(d, f), f.effects = d.effects,
           NEW effect \in {"invoice_paid", "invoice_payment_failed", "checkout_completed", "refund"},
           NEW object \in Invoices \union Checkouts \union {"charge"},
           Deserved(f) \/ (effect = "invoice_paid" /\ object \in Invoices \ FreeInvoices)
    PROVE  Sane(Once(d, effect, object, f)) /\ Keeps(d, Once(d, effect, object, f))
<1>1. CASE <<effect, object>> \in d.effects
  BY <1>1 DEF Once, Keeps
<1>2. CASE <<effect, object>> \notin d.effects
  <2>1. PICK g : g = [f EXCEPT !.effects = @ \union {<<effect, object>>}]
    OBVIOUS
  <2>2. f.effects \union {<<effect, object>>}
          \in SUBSET ({"invoice_paid", "invoice_payment_failed", "checkout_completed", "refund"}
                      \X (Invoices \union Checkouts \union {"charge"}))
    BY DbFields
  <2>3. g \in Db
    BY <2>1, <2>2 DEF Db
  <2>4. /\ g.copy = f.copy /\ g.status = f.status /\ g.grace = f.grace /\ g.canceled = f.canceled
        /\ g.joined = f.joined /\ g.firstPaid = f.firstPaid /\ g.redemption = f.redemption
        /\ g.effects = f.effects \union {<<effect, object>>}
    BY <2>1 DEF Db
  <2>5. Once(d, effect, object, f) = g
    BY <1>2, <2>1 DEF Once
  <2>6. Deserved(g)
    BY <2>4 DEF Deserved
  <2> QED BY <2>3, <2>4, <2>5, <2>6 DEF Sane, Follows, CompanyEntitlement, Settled, Keeps
<1> QED BY <1>1, <1>2

\* A redemption moves and nothing else of the tables does.
LEMMA RedemptionSane ==
    ASSUME NEW d, Sane(d), NEW r \in {"pending", "earned", "voided"}, NEW f,
           f = [d EXCEPT !.redemption = r]
    PROVE  /\ f \in Db /\ Follows(f) /\ Settled(f) /\ Keeps(d, f) /\ f.effects = d.effects
           /\ r # "earned" => Deserved(f)
<1>0. d \in Db
  BY DEF Sane
<1>1. f \in Db
  BY <1>0 DEF Db
<1>2. /\ f.copy = d.copy /\ f.status = d.status /\ f.grace = d.grace /\ f.canceled = d.canceled
      /\ f.joined = d.joined /\ f.firstPaid = d.firstPaid /\ f.effects = d.effects
      /\ f.redemption = r
  BY <1>0 DEF Db
<1> QED BY <1>1, <1>2 DEF Sane, Follows, CompanyEntitlement, Settled, Deserved, Keeps

LEMMA PaidEffectsSane ==
    ASSUME NEW d, Sane(d), NEW i \in Invoices
    PROVE  Sane(PaidEffects(d, i)) /\ Keeps(d, PaidEffects(d, i))
<1>1. PICK p : p = IF i \in FreeInvoices THEN d ELSE FirstPaid(d)
  OBVIOUS
<1>2. Sane(p) /\ Keeps(d, p) /\ p.effects = d.effects
  BY <1>1, FirstPaidSane DEF Keeps
<1>3. PICK f : f = Confirmed(p, i)
  OBVIOUS
<1>4. /\ f \in Db /\ Follows(f) /\ Settled(f) /\ Keeps(p, f) /\ f.effects = p.effects
      /\ Deserved(f) \/ i \in Invoices \ FreeInvoices
  <2>1. CASE i \notin FreeInvoices /\ p.redemption = "pending"
    BY <1>2, <1>3, <2>1, RedemptionSane DEF Confirmed
  <2>2. CASE ~(i \notin FreeInvoices /\ p.redemption = "pending")
    BY <1>2, <1>3, <2>2 DEF Confirmed, Sane, Keeps
  <2> QED BY <2>1, <2>2
<1>5. Keeps(d, f) /\ f.effects = d.effects
  BY <1>2, <1>4 DEF Keeps
<1>6. PaidEffects(d, i) = Once(d, "invoice_paid", i, f)
  BY <1>1, <1>3 DEF PaidEffects
<1> QED BY <1>4, <1>5, <1>6, OnceSane

LEMMA CheckoutEffectsSane ==
    ASSUME NEW d, Sane(d), NEW c \in Checkouts, NEW created
    PROVE  Sane(CheckoutEffects(d, c, created)) /\ Keeps(d, CheckoutEffects(d, c, created))
<1>1. PICK f : f = Redeemed(d, c, created)
  OBVIOUS
<1>2. /\ f \in Db /\ Follows(f) /\ Settled(f) /\ Keeps(d, f) /\ f.effects = d.effects /\ Deserved(f)
  <2>1. CASE f = d
    BY <2>1 DEF Sane, Keeps
  <2>2. CASE f = [d EXCEPT !.redemption = "pending"]
    BY <2>2, RedemptionSane
  <2> QED BY <1>1, <2>1, <2>2 DEF Redeemed
<1>3. CheckoutEffects(d, c, created) = Once(d, "checkout_completed", c, f)
  BY <1>1 DEF CheckoutEffects
<1> QED BY <1>2, <1>3, OnceSane

LEMMA RefundSane ==
    ASSUME NEW d, Sane(d)
    PROVE  Sane(Once(d, "refund", "charge", Reversed(d))) /\ Keeps(d, Once(d, "refund", "charge", Reversed(d)))
<1>1. PICK f : f = Reversed(d)
  OBVIOUS
<1>2. /\ f \in Db /\ Follows(f) /\ Settled(f) /\ Keeps(d, f) /\ f.effects = d.effects /\ Deserved(f)
  <2>1. CASE f = d
    BY <2>1 DEF Sane, Keeps
  <2>2. CASE f = [d EXCEPT !.redemption = "voided"]
    BY <2>2, RedemptionSane
  <2> QED BY <1>1, <2>1, <2>2 DEF Reversed
<1> QED BY <1>1, <1>2, OnceSane

LEMMA MovesKeeps ==
    ASSUME NEW d, NEW f, NEW g, Moves(d, f), Keeps(f, g)
    PROVE  Moves(d, g)
BY DEF Moves, Keeps

LEMMA ProcessEventSane ==
    ASSUME NEW d, Sane(d), NEW e \in GoodEvents, NEW seen \in Statuses
    PROVE  Sane(ProcessEvent(d, e, seen)) /\ Moves(d, ProcessEvent(d, e, seen))
<1>0. /\ e.created \in 1..MaxNow /\ About(e)
      /\ e.type \in {"customer.subscription.updated", "invoice.paid", "invoice.payment_failed",
                     "checkout.session.completed", "charge.refunded"}
  BY DEF GoodEvents, Events
<1>1. PICK f : f = StateApplied(d, seen, e.created)
  OBVIOUS
<1>2. Sane(f) /\ Moves(d, f) /\ Keeps(f, f) /\ Keeps(d, d) /\ Moves(d, d)
  BY <1>0, <1>1, StateAppliedSane DEF Keeps, Moves, Sane, Settled
<1>3. CASE e.type = "customer.subscription.updated"
  BY <1>1, <1>2, <1>3 DEF ProcessEvent
<1>4. CASE e.type = "invoice.paid"
  <2>1. e.object \in Invoices /\ ProcessEvent(d, e, seen) = PaidEffects(f, e.object)
    BY <1>0, <1>1, <1>4 DEF ProcessEvent, About
  <2> QED BY <1>2, <2>1, PaidEffectsSane, MovesKeeps
<1>5. CASE e.type = "invoice.payment_failed"
  <2>1. /\ e.object \in Invoices
        /\ ProcessEvent(d, e, seen) = Once(f, "invoice_payment_failed", e.object, f)
    BY <1>0, <1>1, <1>5 DEF ProcessEvent, About
  <2>2. Sane(Once(f, "invoice_payment_failed", e.object, f))
        /\ Keeps(f, Once(f, "invoice_payment_failed", e.object, f))
    BY <1>2, <2>1, OnceSane DEF Sane
  <2> QED BY <1>2, <2>1, <2>2, MovesKeeps
<1>6. CASE e.type = "checkout.session.completed"
  <2>1. /\ e.object \in Checkouts
        /\ ProcessEvent(d, e, seen) = CheckoutEffects(f, e.object, e.created)
    BY <1>0, <1>1, <1>6 DEF ProcessEvent, About
  <2> QED BY <1>2, <2>1, CheckoutEffectsSane, MovesKeeps
<1>7. CASE e.type = "charge.refunded"
  <2>1. ProcessEvent(d, e, seen) = Once(d, "refund", "charge", Reversed(d))
    BY <1>0, <1>7 DEF ProcessEvent, About
  <2> QED BY <1>2, <2>1, RefundSane, MovesKeeps
<1> QED BY <1>0, <1>3, <1>4, <1>5, <1>6, <1>7

LEMMA ApplyEventSane ==
    ASSUME NEW d, Sane(d), NEW e \in GoodEvents, NEW seen \in Statuses
    PROVE  Sane(ApplyEvent(d, e, seen)) /\ Moves(d, ApplyEvent(d, e, seen))
<1>1. CASE e.id \in d.receipts
  BY <1>1 DEF ApplyEvent, Moves, Sane, Settled
<1>2. CASE e.id \notin d.receipts
  <2>1. PICK f : f = [d EXCEPT !.receipts = @ \union {e.id}]
    OBVIOUS
  <2>2. d \in Db /\ e.id \in 1..MaxEvents
    BY DEF Sane, GoodEvents, Events
  <2>3. d.receipts \union {e.id} \in SUBSET (1..MaxEvents)
    BY <2>2, DbFields
  <2>4. f \in Db
    BY <2>1, <2>2, <2>3 DEF Db
  <2>5. /\ f.copy = d.copy /\ f.status = d.status /\ f.grace = d.grace /\ f.canceled = d.canceled
        /\ f.joined = d.joined /\ f.firstPaid = d.firstPaid /\ f.effects = d.effects
        /\ f.redemption = d.redemption
    BY <2>1, <2>2 DEF Db
  <2>6. Sane(f)
    BY <2>4, <2>5 DEF Sane, Follows, CompanyEntitlement, Deserved, Settled
  <2>7. ApplyEvent(d, e, seen) = ProcessEvent(f, e, seen)
    BY <1>2, <2>1 DEF ApplyEvent
  <2>8. Sane(ProcessEvent(f, e, seen)) /\ Moves(f, ProcessEvent(f, e, seen))
    BY <2>6, ProcessEventSane
  <2> QED BY <2>5, <2>7, <2>8 DEF Moves
<1> QED BY <1>1, <1>2

LEMMA RowSane ==
    ASSUME NEW d, Sane(d), NEW f, f = [d EXCEPT !.row = TRUE, !.ordered = TRUE]
    PROVE  Sane(f) /\ Keeps(d, f)
<1>1. d \in Db
  BY DEF Sane
<1>2. f \in Db
  BY <1>1 DEF Db
<1>3. /\ f.copy = d.copy /\ f.status = d.status /\ f.grace = d.grace /\ f.canceled = d.canceled
      /\ f.joined = d.joined /\ f.firstPaid = d.firstPaid /\ f.effects = d.effects
      /\ f.redemption = d.redemption
  BY <1>1 DEF Db
<1> QED BY <1>2, <1>3 DEF Sane, Follows, CompanyEntitlement, Deserved, Settled, Keeps

LEMMA JoinSane ==
    ASSUME NEW d, Sane(d), ~d.joined
    PROVE  /\ Sane(Materialized([d EXCEPT !.joined = TRUE]))
           /\ Keeps(d, Materialized([d EXCEPT !.joined = TRUE]))
<1>1. PICK f : f = [d EXCEPT !.joined = TRUE]
  OBVIOUS
<1>2. d \in Db
  BY DEF Sane
<1>3. f \in Db
  BY <1>1, <1>2 DEF Db
<1>4. /\ f.copy = d.copy /\ f.status = d.status /\ f.grace = d.grace /\ f.canceled = d.canceled
      /\ f.joined /\ f.firstPaid = d.firstPaid /\ f.effects = d.effects
      /\ f.redemption = d.redemption
  BY <1>1, <1>2 DEF Db
<1>5. Deserved(f) /\ Settled(f) /\ ((f.joined /\ f.firstPaid) \/ Follows(f))
  BY <1>2, <1>4, DbFields DEF Sane, Deserved, Settled, Follows, CompanyEntitlement
<1>6. Sane(Materialized(f)) /\ Keeps(f, Materialized(f))
  BY <1>3, <1>5, MaterializedSane
<1> QED BY <1>1, <1>4, <1>6 DEF Keeps

-----------------------------------------------------------------------------
(* The steps. *)

\* Nothing but an apply, an attachment, a member and the reconcile writes.
Writes ==
    \/ \E h \in handlers : Applies(h)
    \/ AttachCompanySubscription \/ MemberJoins \/ ReconcileApplies

LEMMA OthersRead == ASSUME [Next]_vars, ~Writes PROVE db' = db
<1>1. CASE StripeMoves \/ Tick
  BY <1>1 DEF StripeMoves, StatusChanges, InvoicePaid, InvoiceFails, CheckoutOpens, CheckoutCompletes,
     ChargeRefunded, Emits, Tick
<1>2. CASE Delivery \/ \E e \in owed : FetchFails(e)
  BY <1>2 DEF Delivery, AnsweredFromReceipt, Fetched, FetchFails
<1>3. CASE Applying \/ \E h \in handlers : AppliedAnswerLost(h) \/ HandlerFails(h)
  BY <1>3 DEF Applying, Applied, AppliedAnswerLost, ApplyThrows, HandlerFails, Writes
<1>4. CASE Reconcile \/ ReconcileFails \/ AttachCompanySubscription \/ MemberJoins
  BY <1>4 DEF Reconcile, ReconcileLists, ReconcileReads, ReconcileFails, Writes
<1>5. CASE UNCHANGED vars
  BY <1>5 DEF vars
<1> QED BY <1>1, <1>2, <1>3, <1>4, <1>5 DEF Next

LEMMA DbStep == ASSUME Kept, [Next]_vars PROVE Sane(db') /\ Moves(db, db')
<1>0. Sane(db) /\ Moves(db, db)
  BY DEF Kept, Sane, Settled, Moves
<1>1. ASSUME NEW h \in handlers, Applies(h) PROVE Sane(db') /\ Moves(db, db')
  <2>1. h.event \in GoodEvents /\ h.seen \in Statuses
    BY DEF Kept, TypeOK, Waiting
  <2> QED BY <1>0, <1>1, <2>1, ApplyEventSane DEF Applies
<1>2. CASE AttachCompanySubscription
  BY <1>0, <1>2, RowSane, MovesKeeps DEF AttachCompanySubscription
<1>3. CASE MemberJoins
  BY <1>0, <1>3, JoinSane, MovesKeeps DEF MemberJoins
<1>4. CASE ReconcileApplies
  <2>1. run.seen \in Statuses /\ now \in 1..MaxNow
    BY DEF Kept, TypeOK
  <2> QED BY <1>0, <1>4, <2>1, StateAppliedSane DEF ReconcileApplies
<1> QED BY <1>0, <1>1, <1>2, <1>3, <1>4, OthersRead DEF Writes

\* An event Stripe creates is about an object of its kind.
LEMMA EmitsGood ==
    ASSUME Kept, NEW object, NEW type, NEW status \in Statuses, NEW paid \in SUBSET Invoices,
           Emits(type, object, status, paid),
           \/ type = "customer.subscription.updated" /\ object = "subscription"
           \/ type \in {"invoice.paid", "invoice.payment_failed"} /\ object \in Invoices
           \/ type = "checkout.session.completed" /\ object \in Checkouts
           \/ type = "charge.refunded" /\ object = "charge"
    PROVE  /\ owed' \subseteq GoodEvents
           /\ UNCHANGED <<kind, codeEnds, now, handlers, db, run, faults>>
           /\ stripe' \in [status : Statuses, paid : SUBSET Invoices,
                           sessions : [Checkouts -> {"none", "coded", "plain"}], events : 0..MaxEvents]
<1>1. PICK e : e = [id |-> stripe.events + 1, created |-> now, type |-> type, object |-> object]
  OBVIOUS
<1>2. stripe.events + 1 \in 1..MaxEvents /\ stripe.events + 1 \in 0..MaxEvents /\ now \in 1..MaxNow
  BY Bounds DEF Kept, TypeOK, Emits
<1>3. e \in Events
  BY <1>1, <1>2 DEF Events
<1>4. About(e)
  BY <1>1 DEF About
<1>5. owed' = owed \union {e} /\ owed \subseteq GoodEvents
  BY <1>1 DEF Emits, Kept, Waiting
<1>6. stripe' \in [status : Statuses, paid : SUBSET Invoices,
                   sessions : [Checkouts -> {"none", "coded", "plain"}], events : 0..MaxEvents]
  BY <1>2 DEF Kept, TypeOK, Emits
<1> QED BY <1>3, <1>4, <1>5, <1>6 DEF GoodEvents, Emits

LEMMA StripeStep == ASSUME Kept, StripeMoves PROVE TypeOK' /\ Waiting'
<1>0. /\ stripe.status \in Statuses /\ stripe.paid \in SUBSET Invoices /\ TypeOK /\ Waiting
      /\ stripe.sessions \in [Checkouts -> {"none", "coded", "plain"}]
  BY DEF Kept, TypeOK
<1> DEFINE Fine ==
      /\ owed' \subseteq GoodEvents
      /\ UNCHANGED <<kind, codeEnds, now, handlers, db, run, faults>>
      /\ stripe' \in [status : Statuses, paid : SUBSET Invoices,
                      sessions : [Checkouts -> {"none", "coded", "plain"}], events : 0..MaxEvents]
<1>1. ASSUME NEW status \in Statuses, StatusChanges(status) PROVE Fine
  BY <1>0, <1>1, EmitsGood DEF StatusChanges
<1>2. ASSUME NEW i \in Invoices, InvoicePaid(i) \/ InvoiceFails(i) PROVE Fine
  <2>1. stripe.paid \union {i} \in SUBSET Invoices
    BY <1>0
  <2> QED BY <1>0, <1>2, <2>1, EmitsGood DEF InvoicePaid, InvoiceFails
<1>3. ASSUME NEW c \in Checkouts, CheckoutOpens(c) PROVE Fine
  BY <1>0, <1>3 DEF CheckoutOpens, TypeOK, Waiting
<1>4. ASSUME NEW c \in Checkouts, CheckoutCompletes(c) PROVE Fine
  BY <1>0, <1>4, EmitsGood DEF CheckoutCompletes
<1>5. ASSUME ChargeRefunded PROVE Fine
  <2>1. Emits("charge.refunded", "charge", stripe.status, stripe.paid)
    BY <1>5 DEF ChargeRefunded
  <2> QED BY <1>0, <2>1, EmitsGood
<1>6. Fine
  <2> HIDE DEF Fine
  <2> QED BY <1>1, <1>2, <1>3, <1>4, <1>5 DEF StripeMoves
<1> QED BY <1>0, <1>6 DEF TypeOK, Waiting, GoodEvents

LEMMA RestStep == ASSUME Kept, [Next]_vars, ~StripeMoves PROVE TypeOK' /\ Waiting'
<1>0. TypeOK /\ Waiting /\ db' \in Db
  BY DbStep DEF Kept, Sane
<1> USE DEF TypeOK, Waiting
<1>f. Fault => faults' \in 0..MaxFaults
  BY <1>0, Bounds DEF Fault
<1>1. CASE Tick
  BY <1>0, <1>1, Bounds DEF Tick
<1>2. ASSUME NEW e \in owed, AnsweredFromReceipt(e) \/ FetchFails(e) PROVE TypeOK' /\ Waiting'
  BY <1>0, <1>2, <1>f DEF AnsweredFromReceipt, FetchFails, OwedAfterFailure
<1>3. ASSUME NEW e \in owed, Fetched(e) PROVE TypeOK' /\ Waiting'
  <2>1. PICK h : h = [event |-> e, seen |-> SeenFor(e)]
    OBVIOUS
  <2>2. SeenFor(e) \in Statuses
    BY <1>0 DEF SeenFor, Statuses
  <2>3. h \in [event : Events, seen : Statuses] /\ h.event \in GoodEvents
    BY <1>0, <2>1, <2>2 DEF GoodEvents
  <2>4. handlers' = handlers \union {h} /\ UNCHANGED <<kind, codeEnds, now, stripe, owed, db, run, faults>>
    BY <1>3, <2>1 DEF Fetched
  <2> QED BY <1>0, <2>3, <2>4
<1>4. ASSUME NEW h \in handlers, Applied(h) \/ ApplyThrows(h) PROVE TypeOK' /\ Waiting'
  BY <1>0, <1>4 DEF Applied, Applies, ApplyThrows
<1>5. ASSUME NEW h \in handlers, AppliedAnswerLost(h) \/ HandlerFails(h) PROVE TypeOK' /\ Waiting'
  BY <1>0, <1>5, <1>f DEF AppliedAnswerLost, Applies, HandlerFails
<1>6. CASE AttachCompanySubscription \/ MemberJoins
  BY <1>0, <1>6 DEF AttachCompanySubscription, MemberJoins
<1>7. CASE Reconcile
  BY <1>0, <1>7 DEF Reconcile, ReconcileLists, ReconcileReads, ReconcileApplies, Statuses
<1>8. CASE ReconcileFails
  BY <1>0, <1>8, <1>f DEF ReconcileFails, Statuses
<1>9. CASE UNCHANGED vars
  BY <1>0, <1>9 DEF vars
<1> QED BY <1>1, <1>2, <1>3, <1>4, <1>5, <1>6, <1>7, <1>8, <1>9 DEF Next, Delivery, Applying

-----------------------------------------------------------------------------
(* The theorems. *)

LEMMA InitKept == Init => Kept
<1> SUFFICES ASSUME Init PROVE Kept
  OBVIOUS
<1>1. db \in Db
  <2>1. PICK row \in BOOLEAN :
          db = [receipts |-> {}, effects |-> {}, row |-> row, ordered |-> FALSE,
                status |-> "active", grace |-> NoGrace, firstPaid |-> FALSE,
                stamp |-> 0, canceled |-> FALSE, joined |-> FALSE, copy |-> NoCopy,
                redemption |-> "none"]
    BY DEF Init
  <2>2. NoCopy \in [status : Statuses \union {"none"}, grace : Nat] /\ NoGrace \in Nat
    BY DEF NoCopy, NoGrace
  <2>3. 0 \in 0..MaxNow /\ "active" \in Statuses
    BY Bounds DEF Statuses
  <2> QED BY <2>1, <2>2, <2>3 DEF Db
<1>2. /\ db.copy = NoCopy /\ ~db.joined /\ ~db.firstPaid /\ db.redemption = "none" /\ ~db.canceled
      /\ db.status = "active"
  BY DEF Init
<1>3. Sane(db)
  BY <1>1, <1>2 DEF Sane, Follows, CompanyEntitlement, Deserved, Settled
<1>4. TypeOK
  <2>1. now \in 1..MaxNow /\ codeEnds \in 0..(MaxNow + 1) /\ faults \in 0..MaxFaults
    BY Bounds DEF Init
  <2>2. stripe \in [status : Statuses, paid : SUBSET Invoices,
                    sessions : [Checkouts -> {"none", "coded", "plain"}], events : 0..MaxEvents]
    BY Bounds DEF Init, Statuses
  <2> QED BY <1>1, <2>1, <2>2 DEF Init, TypeOK, Statuses
<1> QED BY <1>3, <1>4 DEF Kept, Waiting, Init

LEMMA AlwaysKept == Spec => []Kept
<1>1. Kept /\ [Next]_vars => Kept'
  BY DbStep, StripeStep, RestStep DEF Kept
<1> QED BY <1>1, InitKept, PTL DEF Spec

\* Stripe, its events, the handlers and the tables keep their shapes.
THEOREM EventsKeepTheirTypes == Spec => []TypeOK
BY AlwaysKept, PTL DEF Kept

\* Whatever order payments, events, joins and reconciles come in, a member holds
\* what the company's row says, as companyEntitlements.ts maps it, once that has
\* been paid, and nothing before.
THEOREM CopiesFollow == Spec => []MembersFollowTheRow
<1>1. ASSUME Kept
      PROVE  MembersFollowTheRow
  <2>1. db \in Db /\ Follows(db)
    BY <1>1 DEF Kept, Sane
  <2>2. db.status \in Statuses
    BY <2>1, DbFields
  <2>3. CASE db.joined /\ db.firstPaid
    BY <2>1, <2>2, <2>3 DEF Follows, MembersFollowTheRow, Statuses, CompanyEntitlement
  <2> QED BY <2>1, <2>3 DEF Follows, MembersFollowTheRow
<1> QED BY <1>1, AlwaysKept, PTL

\* An earned redemption has a recorded payment behind it that was not free.
THEOREM RewardsAreEarned == Spec => []RewardsAreForMoney
<1>1. Kept => RewardsAreForMoney
  BY DEF Kept, Sane, Deserved, RewardsAreForMoney
<1> QED BY <1>1, AlwaysKept, PTL

\* No late event and no stale read takes a recorded cancel back (apply.ts:376).
THEOREM CancelIsTheEnd == Spec => CanceledStays
<1> DEFINE Move == db.canceled => db'.canceled /\ db'.status = "canceled"
<1>1. Kept /\ [Next]_vars => [Move]_vars
  BY DbStep DEF Moves
<1>2. CanceledStays <=> [][Move]_vars
  BY DEF CanceledStays
<1> HIDE DEF Move
<1> QED BY <1>1, <1>2, AlwaysKept, PTL DEF Spec

\* The deadline of a subscription that stays past due does not move.
THEOREM GraceIsGivenOnce == Spec => GraceOpensOnce
<1> DEFINE Move == db.status = "past_due" /\ db'.status = "past_due" => db'.grace = db.grace
<1>1. Kept /\ [Next]_vars => [Move]_vars
  BY DbStep DEF Moves
<1>2. GraceOpensOnce <=> [][Move]_vars
  BY DEF GraceOpensOnce
<1> HIDE DEF Move
<1> QED BY <1>1, <1>2, AlwaysKept, PTL DEF Spec

=============================================================================
