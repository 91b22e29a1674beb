------------------------------- MODULE Company -------------------------------
(***************************************************************************)
(* Companies in the identity object: who is a member, which invites admit,   *)
(* how many seats are paid for, and the entitlement each member holds.       *)
(*                                                                         *)
(* Every handler ends in one transaction, but some wait before it: a request *)
(* that was let in may commit after its caller has lost what let it in.      *)
(* Seat changes are settled or released by callers outside the object; here  *)
(* they come in any order, and SeatChange says who they are.                 *)
(***************************************************************************)
EXTENDS Naturals, FiniteSets

CONSTANTS
    Accounts, Companies, Invites,
    Ops,          \* ids the owner's browser gives to seat changes
    Seats,        \* quantities a subscription can have
    InvoiceSeats, \* quantities an operator may approve
    Corporate,    \* the companies an operator does approve
    None

ASSUME AccountsAreFinite == IsFiniteSet(Accounts)
ASSUME CorporateAreCompanies == Corporate \subseteq Companies
ASSUME SeatsArePositive == Seats \subseteq Nat \ {0} /\ InvoiceSeats \subseteq Seats

VARIABLES
    account,   \* accounts.state
    company,   \* companies.state
    customer,  \* whether processor_customer_id is set
    member,    \* company_members: the role of an active membership, or how it ended
    invite,    \* company_invites
    sub,       \* company_subscriptions
    op,        \* billing_operations of kind seat-change
    invoice,   \* billing_operations of kind invoice-approve, one per company
    ent,       \* entitlements with source company
    asked      \* a request that passed its checks and has not committed

companyVars == <<account, company, customer, member, invite, sub, op, invoice, ent, asked>>

Roles == {"owner", "admin", "member"}
InviteRoles == {"admin", "member"}
Statuses == {"active", "past_due", "canceled"}

Invitation == [company : Companies, role : InviteRoles, by : Accounts,
               state : {"open", "consumed", "revoked", "expired"}]

Subscription == [quantity : Seats, pending : Seats \cup {None}, op : Ops \cup {None},
                 status : Statuses, paid : BOOLEAN]

Entitlement == [company : Companies, status : Statuses]

Request == [kind : {"create"}] \cup
           [kind : {"mint"}, company : Companies, role : InviteRoles, invite : Invites]

ASSUME NoneIsNothing ==
    None \notin Seats \cup Ops \cup Invitation \cup Subscription \cup Entitlement \cup Request

-----------------------------------------------------------------------------
(* What the handlers read. *)

Active(c) == {a \in Accounts : member[c][a] \in Roles}

\* readActiveMembership finds nothing for a.
Free(a) == \A c \in Companies : member[c][a] \notin Roles

Manages(a, c) == member[c][a] \in {"owner", "admin"}

\* Mutant: the present quantity counts while it is shrinking.
Capacity_Present(c) == IF sub[c] = None THEN 1 ELSE sub[c].quantity

\* seatCapacity: the smaller of the present and the pending quantity.
Capacity(c) ==
    IF sub[c] = None THEN 1
    ELSE IF sub[c].pending # None /\ sub[c].pending < sub[c].quantity
    THEN sub[c].pending ELSE sub[c].quantity

\* companyEntitlementState.
Granted(c, s) == [company |-> c, status |-> s.status]

\* writeEntitlement, for each of the accounts who.
Written(who, x) == [a \in Accounts |-> IF a \in who THEN x ELSE ent[a]]

\* materializeCompanyMemberEntitlements, for members m and subscription s of c.
Materialized(c, m, s) ==
    Written({a \in Accounts : s # None /\ s.paid /\ m[a] \in Roles}, Granted(c, s))

\* Mutant: the row goes only when the entitlement is still in force.
Without_InForce(e, c, gone) ==
    [a \in Accounts |->
        IF a \in gone /\ e[a] # None /\ e[a].company = c /\ e[a].status # "past_due"
        THEN None ELSE e[a]]

\* deleteCompanyEntitlement, for the accounts gone.
Without(e, c, gone) ==
    [a \in Accounts |->
        IF a \in gone /\ e[a] # None /\ e[a].company = c THEN None ELSE e[a]]

Revoked(m, gone) == [a \in Accounts |-> IF a \in gone THEN "revoked" ELSE m[a]]

\* Mutant: the old owner is not demoted when the successor has a lower role.
Promoted_Careless(m, from, to) ==
    [m EXCEPT ![from] = IF m[to] = "member" THEN @ ELSE "admin", ![to] = "owner"]

\* Demote, then promote.
Promoted(m, from, to) == [[m EXCEPT ![from] = "admin"] EXCEPT ![to] = "owner"]

\* Admins before members; among equals the earliest, which is any of them here.
Successors(m, a) ==
    LET others == {b \in Accounts \ {a} : m[b] \in Roles}
        admins == {b \in others : m[b] = "admin"}
    IN IF admins # {} THEN admins ELSE others

-----------------------------------------------------------------------------
(* Founding a company. *)

\* POST /companies: the session is valid; the body and its hash are awaited.
AskCreate(a) ==
    /\ account[a] = "active" /\ asked[a] = None
    /\ asked' = [asked EXCEPT ![a] = [kind |-> "create"]]
    /\ UNCHANGED <<account, company, customer, member, invite, sub, op, invoice, ent>>

\* createCompany commits, or finds a membership.
CreateCompany(a) ==
    /\ asked[a] # None /\ asked[a].kind = "create"
    /\ asked' = [asked EXCEPT ![a] = None]
    /\ \/ /\ Free(a)
          /\ \E c \in Companies :
                /\ company[c] = "absent"
                /\ company' = [company EXCEPT ![c] = "active"]
                /\ member' = [member EXCEPT ![c][a] = "owner"]
       \/ /\ ~Free(a)
          /\ UNCHANGED <<company, member>>
    /\ UNCHANGED <<account, customer, invite, sub, op, invoice, ent>>

\* The Stripe customer is written back, by the founder's call or the reconcile's.
CustomerReady(c) ==
    /\ company[c] # "absent" /\ ~customer[c]
    /\ customer' = [customer EXCEPT ![c] = TRUE]
    /\ UNCHANGED <<account, company, member, invite, sub, op, invoice, ent, asked>>

-----------------------------------------------------------------------------
(* Invites. *)

\* mintInvite reads the role, then hashes the token.
AskMint(a, c, i, r) ==
    /\ account[a] = "active" /\ asked[a] = None
    /\ invite[i] = None /\ \A b \in Accounts : asked[b] # None =>
                              ~(asked[b].kind = "mint" /\ asked[b].invite = i)
    /\ Manages(a, c)
    /\ asked' = [asked EXCEPT ![a] = [kind |-> "mint", company |-> c, role |-> r,
                                      invite |-> i]]
    /\ UNCHANGED <<account, company, customer, member, invite, sub, op, invoice, ent>>

MintInvite(a) ==
    /\ asked[a] # None /\ asked[a].kind = "mint"
    /\ asked' = [asked EXCEPT ![a] = None]
    /\ invite' = [invite EXCEPT ![asked[a].invite] =
                    [company |-> asked[a].company, role |-> asked[a].role, by |-> a,
                     state |-> "open"]]
    /\ UNCHANGED <<account, company, customer, member, sub, op, invoice, ent>>

RevokeInvite(a, i) ==
    /\ invite[i] # None /\ invite[i].state = "open"
    /\ account[a] = "active" /\ Manages(a, invite[i].company)
    /\ invite' = [invite EXCEPT ![i].state = "revoked"]
    /\ UNCHANGED <<account, company, customer, member, sub, op, invoice, ent, asked>>

ExpireInvite(i) ==
    /\ invite[i] # None /\ invite[i].state = "open"
    /\ invite' = [invite EXCEPT ![i].state = "expired"]
    /\ UNCHANGED <<account, company, customer, member, sub, op, invoice, ent, asked>>

HasSeat(c) == Cardinality(Active(c)) + 1 <= Capacity(c)

\* No active membership anywhere, and no row of the primary key in this company.
MayJoin(a, c) == Free(a) /\ member[c][a] = "none"

\* redeemInvite, once the token is hashed: one transaction.
RedeemInvite(a, i) ==
    /\ invite[i] # None /\ invite[i].state = "open" /\ account[a] = "active"
    /\ LET c == invite[i].company
           joined == [member[c] EXCEPT ![a] = invite[i].role]
       IN /\ MayJoin(a, c) /\ HasSeat(c)
          /\ member' = [member EXCEPT ![c] = joined]
          /\ ent' = [ent EXCEPT ![a] = Materialized(c, joined, sub[c])[a]]
    /\ invite' = [invite EXCEPT ![i].state = "consumed"]
    /\ UNCHANGED <<account, company, customer, sub, op, invoice, asked>>

-----------------------------------------------------------------------------
(* Members. *)

RevokeMember(a, b, c) ==
    /\ account[a] = "active" /\ company[c] = "active" /\ Manages(a, c)
    /\ member[c][b] \in InviteRoles
    /\ member' = [member EXCEPT ![c] = Revoked(@, {b})]
    /\ ent' = Without(ent, c, {b})
    /\ UNCHANGED <<account, company, customer, invite, sub, op, invoice, asked>>

\* A target that is not an active member fails the owner assertion.
TransferOwnership(a, b, c) ==
    /\ account[a] = "active" /\ company[c] = "active" /\ member[c][a] = "owner"
    /\ member[c][b] \in Roles
    /\ member' = [member EXCEPT ![c] = Promoted(@, a, b)]
    /\ UNCHANGED <<account, company, customer, invite, sub, op, invoice, ent, asked>>

\* disableCompany and the loop over whom it revoked.
Disabling(c) ==
    /\ member' = [member EXCEPT ![c] = Revoked(@, Active(c))]
    /\ ent' = Without(ent, c, Active(c))
    /\ company' = [company EXCEPT ![c] = "disabled"]

DisableCompany(a, c) ==
    /\ account[a] = "active" /\ company[c] = "active" /\ member[c][a] = "owner"
    /\ Disabling(c)
    /\ UNCHANGED <<account, customer, invite, sub, op, invoice, asked>>

\* What an erasure does to the membership of a in c.
Leaving(a, c) ==
    IF member[c][a] = "owner" /\ company[c] = "active"
    THEN \/ \E b \in Successors(member[c], a) :
              /\ member' = [member EXCEPT ![c] = Revoked(Promoted(@, a, b), {a})]
              /\ ent' = Without(ent, c, {a})
              /\ UNCHANGED company
         \/ /\ Successors(member[c], a) = {}
            /\ Disabling(c)
    ELSE /\ member' = [member EXCEPT ![c] = Revoked(@, {a})]
         /\ ent' = Without(ent, c, {a})
         /\ UNCHANGED company

\* eraseOwnAccount.
EraseAccount(a) ==
    /\ account[a] = "active"
    /\ account' = [account EXCEPT ![a] = "erased"]
    /\ \/ \E c \in Companies : member[c][a] \in Roles /\ Leaving(a, c)
       \/ Free(a) /\ UNCHANGED <<company, member, ent>>
    /\ invite' = [i \in Invites |->
                    IF invite[i] # None /\ invite[i].by = a /\ invite[i].state = "open"
                    THEN [invite[i] EXCEPT !.state = "revoked"] ELSE invite[i]]
    /\ UNCHANGED <<customer, sub, op, invoice, asked>>

-----------------------------------------------------------------------------
(* The subscription. *)

\* approveCompanyInvoice; the operator's worker then asks Stripe.
ApproveInvoice(c) ==
    /\ c \in Corporate
    /\ company[c] = "active" /\ sub[c] = None /\ customer[c] /\ invoice[c] = "none"
    /\ invoice' = [invoice EXCEPT ![c] = "pending"]
    /\ UNCHANGED <<account, company, customer, member, invite, sub, op, ent, asked>>

\* settleCompanyInvoice, refused by Stripe; the approval can be sent again.
InvoiceFailed(c) ==
    /\ invoice[c] = "pending"
    /\ invoice' = [invoice EXCEPT ![c] = "failed"]
    /\ UNCHANGED <<account, company, customer, member, invite, sub, op, ent, asked>>

\* settleCompanyInvoice with the subscription Stripe made.
InvoiceSettled(c) ==
    /\ invoice[c] \in {"pending", "failed"} /\ sub[c] = None
    /\ invoice' = [invoice EXCEPT ![c] = "succeeded"]
    /\ \E q \in InvoiceSeats :
          sub' = [sub EXCEPT ![c] = [quantity |-> q, pending |-> None, op |-> None,
                                     status |-> "active", paid |-> FALSE]]
    /\ UNCHANGED <<account, company, customer, member, invite, op, ent, asked>>

\* What members hold once c has the subscription s.
FannedOut(c, s) == Materialized(c, member[c], s)

\* A webhook's or the reconcile's fetched object; a cancel is final.
SubscriptionState(c, st) ==
    /\ sub[c] # None /\ sub[c].status # "canceled" /\ st # sub[c].status
    /\ sub' = [sub EXCEPT ![c].status = st]
    /\ ent' = FannedOut(c, sub'[c])
    /\ UNCHANGED <<account, company, customer, member, invite, op, invoice, asked>>

\* The first paid invoice.
FirstPaid(c) ==
    /\ sub[c] # None /\ ~sub[c].paid
    /\ sub' = [sub EXCEPT ![c].paid = TRUE]
    /\ ent' = FannedOut(c, sub'[c])
    /\ UNCHANGED <<account, company, customer, member, invite, op, invoice, asked>>

-----------------------------------------------------------------------------
(* Seat changes, as the object records them. *)

SeatsAllow(c, q) ==
    /\ q # sub[c].quantity
    /\ q < sub[c].quantity => q >= Cardinality(Active(c))

\* reserveSeatChange.
ReserveSeatChange(a, c, q, o) ==
    /\ account[a] = "active" /\ sub[c] # None /\ member[c][a] = "owner"
    /\ sub[c].op = None /\ op[c][o] = "unused" /\ SeatsAllow(c, q)
    /\ op' = [op EXCEPT ![c][o] = "pending"]
    /\ sub' = [sub EXCEPT ![c].pending = q, ![c].op = o]
    /\ UNCHANGED <<account, company, customer, member, invite, invoice, ent, asked>>

\* settleSeatChange; the update of the subscription names the operation too.
SettleSeatChange(c, o) ==
    /\ op[c][o] = "pending"
    /\ op' = [op EXCEPT ![c][o] = "succeeded"]
    /\ sub' = IF sub[c] = None \/ sub[c].op # o THEN sub
              ELSE [sub EXCEPT ![c].quantity = sub[c].pending,
                               ![c].pending = None, ![c].op = None]
    /\ UNCHANGED <<account, company, customer, member, invite, invoice, ent, asked>>

\* releaseSeatChange.
ReleaseSeatChange(c, o) ==
    /\ op[c][o] = "pending"
    /\ op' = [op EXCEPT ![c][o] = "failed"]
    /\ sub' = IF sub[c] = None \/ sub[c].op # o THEN sub
              ELSE [sub EXCEPT ![c].pending = None, ![c].op = None]
    /\ UNCHANGED <<account, company, customer, member, invite, invoice, ent, asked>>

-----------------------------------------------------------------------------

CompanyInit ==
    /\ account = [a \in Accounts |-> "active"]
    /\ company = [c \in Companies |-> "absent"]
    /\ customer = [c \in Companies |-> FALSE]
    /\ member = [c \in Companies |-> [a \in Accounts |-> "none"]]
    /\ invite = [i \in Invites |-> None]
    /\ sub = [c \in Companies |-> None]
    /\ op = [c \in Companies |-> [o \in Ops |-> "unused"]]
    /\ invoice = [c \in Companies |-> "none"]
    /\ ent = [a \in Accounts |-> None]
    /\ asked = [a \in Accounts |-> None]

\* What the members, the operator and Stripe's events do, seat changes apart.
PeopleNext ==
    \/ \E a \in Accounts :
          \/ AskCreate(a) \/ CreateCompany(a) \/ MintInvite(a) \/ EraseAccount(a)
          \/ \E c \in Companies, i \in Invites, r \in InviteRoles : AskMint(a, c, i, r)
          \/ \E i \in Invites : RevokeInvite(a, i) \/ RedeemInvite(a, i)
          \/ \E b \in Accounts, c \in Companies :
                RevokeMember(a, b, c) \/ TransferOwnership(a, b, c)
          \/ \E c \in Companies : DisableCompany(a, c)
    \/ \E i \in Invites : ExpireInvite(i)
    \/ \E c \in Companies :
          \/ CustomerReady(c) \/ ApproveInvoice(c) \/ InvoiceFailed(c)
          \/ InvoiceSettled(c) \/ FirstPaid(c)
          \/ \E st \in Statuses : SubscriptionState(c, st)

SeatNext ==
    \E c \in Companies, o \in Ops :
        \/ SettleSeatChange(c, o) \/ ReleaseSeatChange(c, o)
        \/ \E a \in Accounts, q \in Seats : ReserveSeatChange(a, c, q, o)

CompanyNext == PeopleNext \/ SeatNext

CompanySpec == CompanyInit /\ [][CompanyNext]_companyVars

-----------------------------------------------------------------------------
(* Properties. *)

\* The rows have the shapes their tables allow (identityStore.ts).
TypeOK ==
    /\ account \in [Accounts -> {"active", "erased"}]
    /\ company \in [Companies -> {"absent", "active", "disabled"}]
    /\ customer \in [Companies -> BOOLEAN]
    /\ member \in [Companies -> [Accounts -> Roles \cup {"none", "revoked"}]]
    /\ invite \in [Invites -> Invitation \cup {None}]
    /\ sub \in [Companies -> Subscription \cup {None}]
    /\ op \in [Companies -> [Ops -> {"unused", "pending", "succeeded", "failed"}]]
    /\ invoice \in [Companies -> {"none", "pending", "failed", "succeeded"}]
    /\ ent \in [Accounts -> Entitlement \cup {None}]
    /\ asked \in [Accounts -> Request \cup {None}]

\* An active company has exactly one owner through transfers, revocations,
\* redemptions and erasures, and a company that is not active has none
\* (assertOneActiveOwner and the partial unique index, membership.ts:133).
OneOwner ==
    \A c \in Companies :
        LET owners == {a \in Accounts : member[c][a] = "owner"}
        IN IF company[c] = "active" THEN \E a \in Accounts : owners = {a}
           ELSE owners = {}

\* No account is an active member of two companies, though checks and inserts
\* are made by four different handlers (company_members_one_active).
OneCompany ==
    \A a \in Accounts, c, d \in Companies :
        member[c][a] \in Roles /\ member[d][a] \in Roles => c = d

\* Seats are never oversold: whatever is reserved, settled, released, redeemed
\* or handed over, the active members fit the capacity, and the capacity does
\* not exceed what the subscription has now (seats.ts:81, invites.ts:209).
SeatsNeverOversold ==
    \A c \in Companies :
        /\ Cardinality(Active(c)) <= Capacity(c)
        /\ sub[c] # None => Capacity(c) <= sub[c].quantity

\* An account holds a company entitlement exactly while it is an active member
\* of a company whose subscription was paid once, and it is the entitlement of
\* that company at its present status (companyEntitlements.ts:57, 80).
EntitlementFollowsMembership ==
    \A a \in Accounts :
        /\ ent[a] # None =>
              LET c == ent[a].company
              IN /\ member[c][a] \in Roles
                 /\ sub[c] # None /\ sub[c].paid
                 /\ ent[a] = Granted(c, sub[c])
        /\ \A c \in Companies :
              member[c][a] \in Roles /\ sub[c] # None /\ sub[c].paid =>
                ent[a] = Granted(c, sub[c])

\* A subscription that waits names an operation that is pending, and no other
\* operation of the company is (seats.ts:204, 247).
OnePendingChange ==
    \A c \in Companies : \A o \in Ops :
        op[c][o] = "pending" <=> sub[c] # None /\ sub[c].op = o /\ sub[c].pending # None

=============================================================================
