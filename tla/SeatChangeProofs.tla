-------------------------- MODULE SeatChangeProofs --------------------------
(***************************************************************************)
(* What Company and SeatChange guarantee for every set of accounts,          *)
(* companies, invites, operations and quantities, and any number of callers, *)
(* lost, repeated and refused requests.                                      *)
(*                                                                         *)
(* The argument.  Company's own invariant comes first: owner, capacity and   *)
(* entitlement need each other when an erasure hands a company over.  The    *)
(* callers of a seat change do to the object only what Company allows, so    *)
(* everything proved of Company holds of the two together.  And what they    *)
(* record of Stripe is so: while the reconcile does not meet a live call, a  *)
(* company has one caller, which has one request, and its verdict is what    *)
(* Stripe bills.                                                             *)
(***************************************************************************)
EXTENDS SeatChange, FiniteSetTheorems, TLAPS

-----------------------------------------------------------------------------
(* Company: the invariant. *)

\* What the other invariants need of a company that was never founded, and of
\* the two columns of a pending change.
Founded ==
    /\ \A c \in Companies :
          company[c] = "absent" => /\ sub[c] = None /\ invoice[c] = "none"
                                   /\ \A a \in Accounts : member[c][a] = "none"
    /\ \A i \in Invites : invite[i] # None => company[invite[i].company] # "absent"
    /\ \A a \in Accounts :
          asked[a] # None /\ asked[a].kind = "mint" => company[asked[a].company] # "absent"

Paired ==
    \A c \in Companies :
        sub[c] # None => (sub[c].op = None <=> sub[c].pending = None)

Sound == /\ TypeOK /\ Founded /\ Paired /\ OneOwner /\ OneCompany /\ SeatsNeverOversold
         /\ EntitlementFollowsMembership /\ OnePendingChange

-----------------------------------------------------------------------------
(* What the helpers return. *)

\* A table of tables keeps its type when one cell changes.
LEMMA OneCell ==
    ASSUME NEW S, NEW T, NEW V, NEW f \in [S -> [T -> V]], NEW s \in S, NEW t \in T, NEW v \in V
    PROVE  [f EXCEPT ![s][t] = v] \in [S -> [T -> V]]
<1>1. [f[s] EXCEPT ![t] = v] \in [T -> V]
  OBVIOUS
<1> QED BY <1>1

LEMMA OneRow ==
    ASSUME NEW S, NEW V, NEW f \in [S -> V], NEW s \in S, NEW v \in V
    PROVE  [f EXCEPT ![s] = v] \in [S -> V]
OBVIOUS

LEMMA RevokedType ==
    ASSUME NEW m \in [Accounts -> Roles \cup {"none", "revoked"}], NEW gone
    PROVE  Revoked(m, gone) \in [Accounts -> Roles \cup {"none", "revoked"}]
BY DEF Revoked

LEMMA PromotedType ==
    ASSUME NEW m \in [Accounts -> Roles \cup {"none", "revoked"}],
           NEW a \in Accounts, NEW b \in Accounts
    PROVE  Promoted(m, a, b) \in [Accounts -> Roles \cup {"none", "revoked"}]
BY DEF Promoted, Roles

LEMMA WithoutType ==
    ASSUME NEW e \in [Accounts -> Entitlement \cup {None}], NEW c, NEW gone
    PROVE  Without(e, c, gone) \in [Accounts -> Entitlement \cup {None}]
BY DEF Without

LEMMA MaterializedType ==
    ASSUME ent \in [Accounts -> Entitlement \cup {None}], NEW c \in Companies, NEW m,
           NEW s \in Subscription \cup {None}
    PROVE  Materialized(c, m, s) \in [Accounts -> Entitlement \cup {None}]
BY NoneIsNothing DEF Materialized, Written, Granted, Entitlement, Subscription

LEMMA SubscriptionFields ==
    ASSUME NEW s \in Subscription
    PROVE  /\ s # None /\ s.quantity \in Seats /\ s.pending \in Seats \cup {None}
           /\ s.op \in Ops \cup {None} /\ s.status \in Statuses /\ s.paid \in BOOLEAN
           /\ s.quantity \in Nat /\ s.quantity >= 1
           /\ s.pending # None => s.pending \in Nat /\ s.pending >= 1
<1>1. s # None
  BY NoneIsNothing
<1>2. /\ s.quantity \in Seats /\ s.pending \in Seats \cup {None}
      /\ s.op \in Ops \cup {None} /\ s.status \in Statuses /\ s.paid \in BOOLEAN
  BY DEF Subscription
<1>3. \A q \in Seats : q \in Nat /\ q >= 1
  BY SeatsArePositive
<1> QED BY <1>1, <1>2, <1>3

LEMMA ActiveIsFinite ==
    ASSUME NEW c \in Companies
    PROVE  IsFiniteSet(Active(c)) /\ Cardinality(Active(c)) \in Nat
BY AccountsAreFinite, FS_Subset, FS_CardinalityType DEF Active

LEMMA CapacityFits ==
    ASSUME TypeOK, NEW c \in Companies
    PROVE  /\ Capacity(c) \in Nat /\ Capacity(c) >= 1
           /\ sub[c] # None => Capacity(c) <= sub[c].quantity
<1>1. CASE sub[c] = None
  BY <1>1 DEF Capacity
<1>2. CASE sub[c] # None
  <2>1. sub[c] \in Subscription
    BY <1>2 DEF TypeOK
  <2> QED BY <1>2, <2>1, SubscriptionFields DEF Capacity
<1> QED BY <1>1, <1>2

-----------------------------------------------------------------------------
(* Types. *)

\* A settle reads the pending quantity, which OnePendingChange says is one.
LEMMA TypeStep == TypeOK /\ OnePendingChange /\ [CompanyNext]_companyVars => TypeOK'
<1> SUFFICES ASSUME TypeOK, OnePendingChange, [CompanyNext]_companyVars PROVE TypeOK'
  OBVIOUS
<1>1. ASSUME NEW a \in Accounts, AskCreate(a) PROVE TypeOK'
  BY <1>1 DEF AskCreate, TypeOK, Request
<1>2. ASSUME NEW a \in Accounts, CreateCompany(a) PROVE TypeOK'
  <2>1. member' \in [Companies -> [Accounts -> Roles \cup {"none", "revoked"}]]
    <3>1. CASE UNCHANGED <<company, member>>
      BY <3>1 DEF TypeOK
    <3>2. ASSUME NEW c \in Companies, member' = [member EXCEPT ![c][a] = "owner"]
          PROVE  member' \in [Companies -> [Accounts -> Roles \cup {"none", "revoked"}]]
      BY <3>2, OneCell DEF TypeOK, Roles
    <3> QED BY <1>2, <3>1, <3>2 DEF CreateCompany
  <2>2. company' \in [Companies -> {"absent", "active", "disabled"}]
    BY <1>2 DEF CreateCompany, TypeOK
  <2>3. asked' \in [Accounts -> Request \cup {None}]
    BY <1>2 DEF CreateCompany, TypeOK
  <2> QED BY <1>2, <2>1, <2>2, <2>3 DEF CreateCompany, TypeOK
<1>3. ASSUME NEW a \in Accounts, MintInvite(a) PROVE TypeOK'
  <2>1. asked[a] \in Request /\ asked[a].kind = "mint"
    BY <1>3 DEF MintInvite, TypeOK
  <2>2. /\ asked[a].company \in Companies /\ asked[a].role \in InviteRoles
        /\ asked[a].invite \in Invites
    BY <2>1 DEF Request
  <2>3. [company |-> asked[a].company, role |-> asked[a].role, by |-> a,
         state |-> "open"] \in Invitation
    BY <2>2 DEF Invitation
  <2> QED BY <1>3, <2>2, <2>3 DEF MintInvite, TypeOK
<1>4. ASSUME NEW a \in Accounts, EraseAccount(a) PROVE TypeOK'
  <2>1. account' \in [Accounts -> {"active", "erased"}]
    BY <1>4 DEF EraseAccount, TypeOK
  <2> DEFINE Left ==
        /\ member' \in [Companies -> [Accounts -> Roles \cup {"none", "revoked"}]]
        /\ company' \in [Companies -> {"absent", "active", "disabled"}]
        /\ ent' \in [Accounts -> Entitlement \cup {None}]
  <2>2. Left
    <3>1. CASE UNCHANGED <<company, member, ent>>
      BY <3>1 DEF TypeOK
    <3>2. ASSUME NEW c \in Companies, Leaving(a, c) PROVE Left
      <4>1. \A b \in Accounts : Revoked(Promoted(member[c], a, b), {a})
                                  \in [Accounts -> Roles \cup {"none", "revoked"}]
        BY RevokedType, PromotedType DEF TypeOK
      <4>2. \A gone : Revoked(member[c], gone) \in [Accounts -> Roles \cup {"none", "revoked"}]
        BY RevokedType DEF TypeOK
      <4>3. \A gone : Without(ent, c, gone) \in [Accounts -> Entitlement \cup {None}]
        BY WithoutType DEF TypeOK
      <4>4. Successors(member[c], a) \subseteq Accounts
        BY DEF Successors
      <4>5. member' \in [Companies -> [Accounts -> Roles \cup {"none", "revoked"}]]
        <5>1. PICK m \in [Accounts -> Roles \cup {"none", "revoked"}] :
                member' = [member EXCEPT ![c] = m]
          BY <3>2, <4>1, <4>2, <4>4 DEF Leaving, Disabling
        <5> QED BY <5>1, OneRow DEF TypeOK
      <4>6. company' \in [Companies -> {"absent", "active", "disabled"}]
        BY <3>2 DEF Leaving, Disabling, TypeOK
      <4>7. ent' \in [Accounts -> Entitlement \cup {None}]
        BY <3>2, <4>3 DEF Leaving, Disabling, TypeOK
      <4> QED BY <4>5, <4>6, <4>7
    <3> QED BY <1>4, <3>1, <3>2 DEF EraseAccount
  <2>3. invite' \in [Invites -> Invitation \cup {None}]
    <3>1. \A i \in Invites : invite[i] # None => [invite[i] EXCEPT !.state = "revoked"] \in Invitation
      BY DEF TypeOK, Invitation
    <3> QED BY <1>4, <3>1 DEF EraseAccount, TypeOK
  <2> QED BY <1>4, <2>1, <2>2, <2>3 DEF EraseAccount, TypeOK
<1>5. ASSUME NEW a \in Accounts, NEW c \in Companies, NEW i \in Invites,
             NEW r \in InviteRoles, AskMint(a, c, i, r)
      PROVE  TypeOK'
  BY <1>5 DEF AskMint, TypeOK, Request
<1>6. ASSUME NEW a \in Accounts, NEW i \in Invites, RevokeInvite(a, i) PROVE TypeOK'
  <2>1. [invite[i] EXCEPT !.state = "revoked"] \in Invitation
    <3>1. invite[i] \in Invitation
      BY <1>6 DEF RevokeInvite, TypeOK
    <3> QED BY <3>1 DEF Invitation
  <2> QED BY <1>6, <2>1 DEF RevokeInvite, TypeOK
<1>7. ASSUME NEW a \in Accounts, NEW i \in Invites, RedeemInvite(a, i) PROVE TypeOK'
  <2>1. invite[i] \in Invitation /\ invite[i].company \in Companies /\ invite[i].role \in Roles
    BY <1>7 DEF RedeemInvite, TypeOK, Invitation, InviteRoles, Roles
  <2> DEFINE joined == [member[invite[i].company] EXCEPT ![a] = invite[i].role]
  <2>2. joined \in [Accounts -> Roles \cup {"none", "revoked"}]
    BY <2>1 DEF TypeOK
  <2>3. Materialized(invite[i].company, joined, sub[invite[i].company])
          \in [Accounts -> Entitlement \cup {None}]
    BY <2>1, MaterializedType DEF TypeOK
  <2>4. [invite[i] EXCEPT !.state = "consumed"] \in Invitation
    BY <2>1 DEF Invitation
  <2> HIDE DEF joined
  <2>5. /\ member' = [member EXCEPT ![invite[i].company] = joined]
        /\ ent' = [ent EXCEPT ![a] =
                     Materialized(invite[i].company, joined, sub[invite[i].company])[a]]
    BY <1>7 DEF RedeemInvite, joined
  <2>6. member' \in [Companies -> [Accounts -> Roles \cup {"none", "revoked"}]]
    BY <2>1, <2>2, <2>5, OneRow DEF TypeOK
  <2>7. ent' \in [Accounts -> Entitlement \cup {None}]
    BY <2>3, <2>5 DEF TypeOK
  <2> QED BY <1>7, <2>4, <2>6, <2>7 DEF RedeemInvite, TypeOK
<1>8. ASSUME NEW a \in Accounts, NEW b \in Accounts, NEW c \in Companies, RevokeMember(a, b, c)
      PROVE  TypeOK'
  BY <1>8, RevokedType, WithoutType DEF RevokeMember, TypeOK
<1>9. ASSUME NEW a \in Accounts, NEW b \in Accounts, NEW c \in Companies,
             TransferOwnership(a, b, c)
      PROVE  TypeOK'
  BY <1>9, PromotedType DEF TransferOwnership, TypeOK
<1>10. ASSUME NEW a \in Accounts, NEW c \in Companies, DisableCompany(a, c) PROVE TypeOK'
  BY <1>10, RevokedType, WithoutType DEF DisableCompany, Disabling, TypeOK
<1>11. ASSUME NEW i \in Invites, ExpireInvite(i) PROVE TypeOK'
  <2>1. [invite[i] EXCEPT !.state = "expired"] \in Invitation
    <3>1. invite[i] \in Invitation
      BY <1>11 DEF ExpireInvite, TypeOK
    <3> QED BY <3>1 DEF Invitation
  <2> QED BY <1>11, <2>1 DEF ExpireInvite, TypeOK
<1>12. ASSUME NEW c \in Companies,
              CustomerReady(c) \/ ApproveInvoice(c) \/ InvoiceFailed(c)
       PROVE  TypeOK'
  BY <1>12 DEF CustomerReady, ApproveInvoice, InvoiceFailed, TypeOK
<1>13. ASSUME NEW c \in Companies, InvoiceSettled(c) PROVE TypeOK'
  <2>1. PICK q \in InvoiceSeats :
          sub' = [sub EXCEPT ![c] = [quantity |-> q, pending |-> None, op |-> None,
                                     status |-> "active", paid |-> FALSE]]
    BY <1>13 DEF InvoiceSettled
  <2>2. [quantity |-> q, pending |-> None, op |-> None, status |-> "active", paid |-> FALSE]
          \in Subscription
    BY SeatsArePositive DEF Subscription, Statuses
  <2> QED BY <1>13, <2>1, <2>2 DEF InvoiceSettled, TypeOK
<1>14. ASSUME NEW c \in Companies, FirstPaid(c) PROVE TypeOK'
  <2>1. sub' \in [Companies -> Subscription \cup {None}] /\ sub'[c] \in Subscription
    BY <1>14 DEF FirstPaid, TypeOK, Subscription
  <2>2. FannedOut(c, sub'[c]) \in [Accounts -> Entitlement \cup {None}]
    BY <2>1, MaterializedType DEF FannedOut, TypeOK
  <2> QED BY <1>14, <2>1, <2>2 DEF FirstPaid, TypeOK
<1>15. ASSUME NEW c \in Companies, NEW st \in Statuses, SubscriptionState(c, st) PROVE TypeOK'
  <2>1. sub' \in [Companies -> Subscription \cup {None}] /\ sub'[c] \in Subscription
    BY <1>15 DEF SubscriptionState, TypeOK, Subscription
  <2>2. FannedOut(c, sub'[c]) \in [Accounts -> Entitlement \cup {None}]
    BY <2>1, MaterializedType DEF FannedOut, TypeOK
  <2> QED BY <1>15, <2>1, <2>2 DEF SubscriptionState, TypeOK
<1>16. ASSUME NEW c \in Companies, NEW o \in Ops, NEW a \in Accounts, NEW q \in Seats,
              ReserveSeatChange(a, c, q, o)
       PROVE  TypeOK'
  <2>1. sub' \in [Companies -> Subscription \cup {None}]
    <3>1. sub[c] \in Subscription \cup {None}
      BY DEF TypeOK
    <3>2. CASE sub' = sub
      BY <3>2 DEF TypeOK
    <3>3. ASSUME sub[c] # None, NEW r, r \in Subscription, sub' = [sub EXCEPT ![c] = r]
          PROVE  sub' \in [Companies -> Subscription \cup {None}]
      BY <3>3, OneRow DEF TypeOK
    <3>4. sub[c] # None => [sub[c] EXCEPT !.pending = q, !.op = o] \in Subscription
      BY <3>1 DEF Subscription
    <3> QED BY <1>16, <3>2, <3>3, <3>4 DEF ReserveSeatChange
  <2>2. op' \in [Companies -> [Ops -> {"unused", "pending", "succeeded", "failed"}]]
    BY <1>16, OneCell DEF ReserveSeatChange, TypeOK
  <2> QED BY <1>16, <2>1, <2>2 DEF ReserveSeatChange, TypeOK
<1>17. ASSUME NEW c \in Companies, NEW o \in Ops, ReleaseSeatChange(c, o) PROVE TypeOK'
  <2>1. sub' \in [Companies -> Subscription \cup {None}]
    <3>1. sub[c] \in Subscription \cup {None}
      BY DEF TypeOK
    <3>2. CASE sub' = sub
      BY <3>2 DEF TypeOK
    <3>3. ASSUME sub[c] # None, NEW r, r \in Subscription, sub' = [sub EXCEPT ![c] = r]
          PROVE  sub' \in [Companies -> Subscription \cup {None}]
      BY <3>3, OneRow DEF TypeOK
    <3>4. sub[c] # None => [sub[c] EXCEPT !.pending = None, !.op = None] \in Subscription
      BY <3>1 DEF Subscription
    <3> QED BY <1>17, <3>2, <3>3, <3>4 DEF ReleaseSeatChange
  <2>2. op' \in [Companies -> [Ops -> {"unused", "pending", "succeeded", "failed"}]]
    BY <1>17, OneCell DEF ReleaseSeatChange, TypeOK
  <2> QED BY <1>17, <2>1, <2>2 DEF ReleaseSeatChange, TypeOK
<1>18. ASSUME NEW c \in Companies, NEW o \in Ops, SettleSeatChange(c, o) PROVE TypeOK'
  <2>1. sub[c] # None => sub[c].op # o \/ sub[c].pending \in Seats
    BY <1>18, SubscriptionFields DEF SettleSeatChange, OnePendingChange, TypeOK
  <2>2. sub' \in [Companies -> Subscription \cup {None}]
    <3>1. sub[c] \in Subscription \cup {None}
      BY DEF TypeOK
    <3>2. CASE sub' = sub
      BY <3>2 DEF TypeOK
    <3>3. ASSUME sub[c] # None, NEW r, r \in Subscription, sub' = [sub EXCEPT ![c] = r]
          PROVE  sub' \in [Companies -> Subscription \cup {None}]
      BY <3>3, OneRow DEF TypeOK
    <3>4. sub[c] # None /\ sub[c].op = o =>
            [sub[c] EXCEPT !.quantity = sub[c].pending, !.pending = None, !.op = None]
              \in Subscription
      BY <2>1, <3>1 DEF Subscription
    <3> QED BY <1>18, <3>2, <3>3, <3>4 DEF SettleSeatChange
  <2>3. op' \in [Companies -> [Ops -> {"unused", "pending", "succeeded", "failed"}]]
    BY <1>18, OneCell DEF SettleSeatChange, TypeOK
  <2> QED BY <1>18, <2>2, <2>3 DEF SettleSeatChange, TypeOK
<1>19. CASE UNCHANGED companyVars
  BY <1>19 DEF companyVars, TypeOK
<1> QED
  BY <1>1, <1>2, <1>3, <1>4, <1>5, <1>6, <1>7, <1>8, <1>9, <1>10, <1>11, <1>12, <1>13,
     <1>14, <1>15, <1>16, <1>17, <1>18, <1>19
  DEF CompanyNext, PeopleNext, SeatNext

-----------------------------------------------------------------------------
(* Membership. *)

\* The steps that change who is a member; the others leave the rows alone.
Joins == \E a \in Accounts : CreateCompany(a) \/ \E i \in Invites : RedeemInvite(a, i)

Leaves ==
    \E a \in Accounts :
        \/ EraseAccount(a)
        \/ \E b \in Accounts, c \in Companies : RevokeMember(a, b, c)
        \/ \E c \in Companies : DisableCompany(a, c)

Hands == \E a, b \in Accounts, c \in Companies : TransferOwnership(a, b, c)

\* The steps that touch a subscription or an operation.
Bills ==
    \E c \in Companies :
        InvoiceSettled(c) \/ FirstPaid(c) \/ \E st \in Statuses : SubscriptionState(c, st)

Rows == <<company, member, sub, op, ent>>

LEMMA Steps ==
    ASSUME [CompanyNext]_companyVars
    PROVE  Joins \/ Leaves \/ Hands \/ Bills \/ SeatNext \/ UNCHANGED Rows
<1> DEFINE Goal == Joins \/ Leaves \/ Hands \/ Bills \/ UNCHANGED Rows
<1>1. ASSUME NEW a \in Accounts, AskCreate(a) \/ MintInvite(a) PROVE Goal
  BY <1>1 DEF AskCreate, MintInvite, Rows
<1>2. ASSUME NEW a \in Accounts, NEW c \in Companies, NEW i \in Invites, NEW r \in InviteRoles,
             AskMint(a, c, i, r)
      PROVE  Goal
  BY <1>2 DEF AskMint, Rows
<1>3. ASSUME NEW a \in Accounts, NEW i \in Invites, RevokeInvite(a, i) PROVE Goal
  BY <1>3 DEF RevokeInvite, Rows
<1>4. ASSUME NEW i \in Invites, ExpireInvite(i) PROVE Goal
  BY <1>4 DEF ExpireInvite, Rows
<1>5. ASSUME NEW c \in Companies, CustomerReady(c) \/ ApproveInvoice(c) \/ InvoiceFailed(c)
      PROVE  Goal
  BY <1>5 DEF CustomerReady, ApproveInvoice, InvoiceFailed, Rows
<1>6. ASSUME NEW c \in Companies, InvoiceSettled(c) \/ FirstPaid(c) PROVE Goal
  BY <1>6 DEF Bills
<1>7. ASSUME NEW c \in Companies, NEW st \in Statuses, SubscriptionState(c, st) PROVE Goal
  BY <1>7 DEF Bills
<1>8. ASSUME NEW a \in Accounts, CreateCompany(a) PROVE Goal
  BY <1>8 DEF Joins
<1>9. ASSUME NEW a \in Accounts, NEW i \in Invites, RedeemInvite(a, i) PROVE Goal
  BY <1>9 DEF Joins
<1>10. ASSUME NEW a \in Accounts, EraseAccount(a) PROVE Goal
  BY <1>10 DEF Leaves
<1>11. ASSUME NEW a \in Accounts, NEW b \in Accounts, NEW c \in Companies, RevokeMember(a, b, c)
       PROVE  Goal
  BY <1>11 DEF Leaves
<1>12. ASSUME NEW a \in Accounts, NEW c \in Companies, DisableCompany(a, c) PROVE Goal
  BY <1>12 DEF Leaves
<1>13. ASSUME NEW a \in Accounts, NEW b \in Accounts, NEW c \in Companies,
              TransferOwnership(a, b, c)
       PROVE  Goal
  BY <1>13 DEF Hands
<1>14. ASSUME UNCHANGED companyVars PROVE Goal
  BY <1>14 DEF companyVars, Rows
<1> HIDE DEF Goal
<1>15. ASSUME PeopleNext PROVE Goal
  BY <1>1, <1>2, <1>3, <1>4, <1>5, <1>6, <1>7, <1>8, <1>9, <1>10, <1>11, <1>12, <1>13, <1>15
  DEF PeopleNext
<1> QED BY <1>14, <1>15 DEF CompanyNext, Goal

LEMMA MemberSteps ==
    ASSUME [CompanyNext]_companyVars
    PROVE  Joins \/ Leaves \/ Hands \/ UNCHANGED <<member, company>>
<1>1. Bills => UNCHANGED <<member, company>>
  BY DEF Bills, InvoiceSettled, FirstPaid, SubscriptionState
<1>2. SeatNext => UNCHANGED <<member, company>>
  BY DEF SeatNext, SettleSeatChange, ReleaseSeatChange, ReserveSeatChange
<1> QED BY <1>1, <1>2, Steps DEF Rows

LEMMA SubSteps ==
    ASSUME [CompanyNext]_companyVars
    PROVE  Bills \/ SeatNext \/ UNCHANGED <<sub, op>>
<1>1. Joins \/ Hands => UNCHANGED <<sub, op>>
  BY DEF Joins, CreateCompany, RedeemInvite, Hands, TransferOwnership
<1>2. Leaves => UNCHANGED <<sub, op>>
  BY DEF Leaves, EraseAccount, RevokeMember, DisableCompany
<1> QED BY <1>1, <1>2, Steps DEF Rows

LEMMA OwnerStep ==
    ASSUME TypeOK, Founded, OneOwner, [CompanyNext]_companyVars PROVE OneOwner'
<1> DEFINE Sole(c) == \E a \in Accounts : \A b \in Accounts : member[c][b] = "owner" <=> b = a
           Nobody(c) == \A b \in Accounts : member[c][b] # "owner"
           Owned(c) == IF company[c] = "active" THEN Sole(c) ELSE Nobody(c)
<1>1. OneOwner <=> \A c \in Companies : Owned(c)
  BY DEF OneOwner
<1>2. OneOwner' <=> \A c \in Companies : Owned(c)'
  BY DEF OneOwner
<1> SUFFICES ASSUME NEW c \in Companies PROVE Owned(c)'
  BY <1>2
<1>3. Owned(c)
  BY <1>1
<1>4. ASSUME NEW a \in Accounts, CreateCompany(a) PROVE Owned(c)'
  <2>1. CASE UNCHANGED <<company, member>>
    BY <1>3, <2>1
  <2>2. ASSUME NEW d \in Companies, company[d] = "absent",
               company' = [company EXCEPT ![d] = "active"],
               member' = [member EXCEPT ![d][a] = "owner"]
        PROVE  Owned(c)'
    <3>1. CASE d = c
      <4>1. company'[c] = "active" /\ \A b \in Accounts : member'[c][b] = "owner" <=> b = a
        BY <2>2, <3>1 DEF TypeOK, Founded
      <4> QED BY <4>1
    <3>2. CASE d # c
      BY <1>3, <2>2, <3>2 DEF TypeOK
    <3> QED BY <3>1, <3>2
  <2> QED BY <1>4, <2>1, <2>2 DEF CreateCompany
<1>5. ASSUME NEW a \in Accounts, NEW i \in Invites, RedeemInvite(a, i) PROVE Owned(c)'
  <2>1. invite[i].company \in Companies /\ invite[i].role \in InviteRoles
    BY <1>5 DEF RedeemInvite, TypeOK, Invitation
  <2>2. /\ company' = company
        /\ member' = [member EXCEPT ![invite[i].company] =
                        [member[invite[i].company] EXCEPT ![a] = invite[i].role]]
        /\ member[invite[i].company][a] = "none"
    BY <1>5 DEF RedeemInvite, MayJoin
  <2>3. \A b \in Accounts : member'[c][b] = "owner" <=> member[c][b] = "owner"
    BY <2>1, <2>2 DEF TypeOK, InviteRoles
  <2> QED BY <1>3, <2>2, <2>3
<1>6. ASSUME NEW a \in Accounts, NEW d \in Companies, NEW gone,
             company' = company, gone = {a}, member[d][a] # "owner",
             member' = [member EXCEPT ![d] = Revoked(@, gone)]
      PROVE  Owned(c)'
  <2>1. \A b \in Accounts : member'[c][b] = "owner" <=> member[c][b] = "owner"
    BY <1>6 DEF TypeOK, Revoked
  <2> QED BY <1>3, <1>6, <2>1
<1>7. ASSUME NEW d \in Companies, Disabling(d) PROVE Owned(c)'
  <2>1. CASE d = c
    <3>1. company'[c] = "disabled"
      BY <1>7, <2>1 DEF Disabling, TypeOK
    <3>2. \A b \in Accounts : member'[c][b] # "owner"
      BY <1>7, <2>1 DEF Disabling, TypeOK, Revoked, Active, Roles
    <3> QED BY <3>1, <3>2
  <2>2. CASE d # c
    BY <1>3, <1>7, <2>2 DEF Disabling, TypeOK
  <2> QED BY <2>1, <2>2
<1>8. ASSUME NEW a \in Accounts, EraseAccount(a) PROVE Owned(c)'
  <2>1. CASE UNCHANGED <<company, member, ent>>
    BY <1>3, <2>1
  <2>2. ASSUME NEW d \in Companies, member[d][a] \in Roles, Leaving(a, d) PROVE Owned(c)'
    <3>1. CASE member[d][a] = "owner" /\ company[d] = "active"
      <4>1. CASE Disabling(d)
        BY <1>7, <4>1
      <4>2. ASSUME NEW b \in Successors(member[d], a), company' = company,
                   member' = [member EXCEPT ![d] = Revoked(Promoted(@, a, b), {a})]
            PROVE  Owned(c)'
        <5>1. b \in Accounts /\ b # a
          BY DEF Successors
        <5>2. CASE d = c
          <6>1. \A x \in Accounts : member[c][x] = "owner" => x = a
            BY <1>3, <3>1, <5>2
          <6>2. \A x \in Accounts : member'[c][x] = "owner" <=> x = b
            BY <4>2, <5>1, <5>2, <6>1 DEF TypeOK, Revoked, Promoted
          <6> QED BY <3>1, <4>2, <5>1, <5>2, <6>2
        <5>3. CASE d # c
          BY <1>3, <4>2, <5>3 DEF TypeOK
        <5> QED BY <5>2, <5>3
      <4> QED BY <2>2, <3>1, <4>1, <4>2 DEF Leaving
    <3>2. CASE ~(member[d][a] = "owner" /\ company[d] = "active")
      <4>1. member[d][a] # "owner"
        BY <1>1, <3>2
      <4> QED BY <1>6, <2>2, <3>2, <4>1 DEF Leaving
    <3> QED BY <3>1, <3>2
  <2> QED BY <1>8, <2>1, <2>2 DEF EraseAccount
<1>9. ASSUME NEW a \in Accounts, NEW b \in Accounts, NEW d \in Companies, RevokeMember(a, b, d)
      PROVE  Owned(c)'
  <2>1. company' = company /\ member[d][b] # "owner"
        /\ member' = [member EXCEPT ![d] = Revoked(@, {b})]
    BY <1>9 DEF RevokeMember, InviteRoles
  <2> QED BY <1>6, <2>1
<1>10. ASSUME NEW a \in Accounts, NEW b \in Accounts, NEW d \in Companies,
              TransferOwnership(a, b, d)
       PROVE  Owned(c)'
  <2>1. CASE d = c
    <3>1. \A x \in Accounts : member[c][x] = "owner" => x = a
      BY <1>3, <1>10, <2>1 DEF TransferOwnership
    <3>2. \A x \in Accounts : member'[c][x] = "owner" <=> x = b
      BY <1>10, <2>1, <3>1 DEF TypeOK, TransferOwnership, Promoted
    <3> QED BY <1>10, <2>1, <3>2 DEF TransferOwnership
  <2>2. CASE d # c
    BY <1>3, <1>10, <2>2 DEF TypeOK, TransferOwnership
  <2> QED BY <2>1, <2>2
<1>11. CASE UNCHANGED <<member, company>>
  BY <1>3, <1>11
<1> QED
  BY <1>4, <1>5, <1>7, <1>8, <1>9, <1>10, <1>11, MemberSteps
  DEF Joins, Leaves, Hands, DisableCompany

LEMMA OneCompanyStep ==
    ASSUME TypeOK, OneCompany, [CompanyNext]_companyVars PROVE OneCompany'
<1>1. ASSUME \A a \in Accounts, c \in Companies : member'[c][a] \in Roles => member[c][a] \in Roles
      PROVE  OneCompany'
  BY <1>1 DEF OneCompany
<1>2. ASSUME NEW a \in Accounts, NEW d \in Companies, Free(a),
             \A b \in Accounts, c \in Companies :
                b # a \/ c # d => (member'[c][b] \in Roles => member[c][b] \in Roles)
      PROVE  OneCompany'
  BY <1>2 DEF OneCompany, Free
<1>3. ASSUME NEW a \in Accounts, CreateCompany(a) PROVE OneCompany'
  <2>1. CASE UNCHANGED member
    BY <1>1, <2>1
  <2>2. ASSUME Free(a), NEW d \in Companies, member' = [member EXCEPT ![d][a] = "owner"]
        PROVE  OneCompany'
    BY <1>2, <2>2 DEF TypeOK
  <2> QED BY <1>3, <2>1, <2>2 DEF CreateCompany
<1>4. ASSUME NEW a \in Accounts, NEW i \in Invites, RedeemInvite(a, i) PROVE OneCompany'
  <2>1. invite[i].company \in Companies
    BY <1>4 DEF RedeemInvite, TypeOK, Invitation
  <2>2. /\ member' = [member EXCEPT ![invite[i].company] =
                        [member[invite[i].company] EXCEPT ![a] = invite[i].role]]
        /\ Free(a)
    BY <1>4 DEF RedeemInvite, MayJoin
  <2> QED BY <1>2, <2>1, <2>2 DEF TypeOK
<1>5. ASSUME NEW d \in Companies, NEW gone, member' = [member EXCEPT ![d] = Revoked(@, gone)]
      PROVE  OneCompany'
  BY <1>1, <1>5 DEF TypeOK, Revoked, Roles
<1>6. ASSUME NEW a \in Accounts, NEW b \in Accounts, NEW d \in Companies,
             member[d][a] \in Roles, member[d][b] \in Roles,
             member' = [member EXCEPT ![d] = Promoted(@, a, b)]
      PROVE  OneCompany'
  BY <1>1, <1>6 DEF TypeOK, Promoted, Roles
<1>7. ASSUME NEW a \in Accounts, NEW d \in Companies, member[d][a] \in Roles, Leaving(a, d)
      PROVE  OneCompany'
  <2>1. ASSUME NEW b \in Successors(member[d], a),
               member' = [member EXCEPT ![d] = Revoked(Promoted(@, a, b), {a})]
        PROVE  OneCompany'
    <3>1. b \in Accounts /\ member[d][b] \in Roles
      BY DEF Successors
    <3>2. \A x \in Accounts : member'[d][x] \in Roles => member[d][x] \in Roles
      BY <1>7, <2>1, <3>1 DEF TypeOK, Revoked, Promoted, Roles
    <3>3. \A x \in Accounts, c \in Companies \ {d} : member'[c][x] = member[c][x]
      BY <2>1 DEF TypeOK
    <3> QED BY <1>1, <3>2, <3>3
  <2> QED BY <1>5, <1>7, <2>1 DEF Leaving, Disabling
<1>8. CASE Leaves
  BY <1>1, <1>5, <1>7, <1>8 DEF Leaves, EraseAccount, RevokeMember, DisableCompany, Disabling
<1>9. CASE Hands
  <2>1. PICK a \in Accounts, b \in Accounts, d \in Companies : TransferOwnership(a, b, d)
    BY <1>9 DEF Hands
  <2> QED BY <1>6, <2>1 DEF TransferOwnership, Roles
<1>10. CASE UNCHANGED member
  BY <1>1, <1>10
<1> QED BY <1>3, <1>4, <1>8, <1>9, <1>10, MemberSteps DEF Joins

\* Once founded, a company stays founded.
LEMMA NeverAbsentAgain ==
    ASSUME TypeOK, [CompanyNext]_companyVars, NEW c \in Companies
    PROVE  /\ company'[c] = "absent" => company[c] = "absent"
           /\ \A a \in Accounts :
                 company'[c] = "absent" /\ member[c][a] = "none" /\ Founded => member'[c][a] = "none"
<1> DEFINE Lasts == /\ company'[c] = "absent" => company[c] = "absent"
                  /\ \A a \in Accounts :
                       company'[c] = "absent" /\ member[c][a] = "none" /\ Founded =>
                         member'[c][a] = "none"
<1>1. ASSUME NEW a \in Accounts, CreateCompany(a) PROVE Lasts
  <2>1. CASE UNCHANGED <<company, member>>
    BY <2>1
  <2>2. ASSUME NEW d \in Companies, company' = [company EXCEPT ![d] = "active"],
               member' = [member EXCEPT ![d][a] = "owner"]
        PROVE  Lasts
    BY <2>2 DEF TypeOK
  <2> QED BY <1>1, <2>1, <2>2 DEF CreateCompany
<1>2. ASSUME NEW a \in Accounts, NEW i \in Invites, RedeemInvite(a, i) PROVE Lasts
  <2>1. /\ invite[i].company \in Companies /\ company' = company
        /\ Founded => company[invite[i].company] # "absent"
    BY <1>2 DEF RedeemInvite, TypeOK, Invitation, Founded
  <2>2. member' = [member EXCEPT ![invite[i].company] =
                    [member[invite[i].company] EXCEPT ![a] = invite[i].role]]
    BY <1>2 DEF RedeemInvite
  <2> QED BY <2>1, <2>2 DEF TypeOK
<1>3. ASSUME NEW a \in Accounts, NEW d \in Companies, member[d][a] \in Roles, Leaving(a, d) PROVE Lasts
  <2>1. company'[c] = "absent" => company[c] = "absent"
    BY <1>3 DEF Leaving, Disabling, TypeOK
  <2>2. member[c] = member'[c] \/ c = d
    BY <1>3 DEF Leaving, Disabling, TypeOK
  <2>3. Founded => company[d] # "absent"
    BY <1>3 DEF Founded, Roles
  <2> QED BY <2>1, <2>2, <2>3
<1>4. ASSUME NEW a \in Accounts, EraseAccount(a) PROVE Lasts
  BY <1>3, <1>4 DEF EraseAccount
<1>5. ASSUME NEW a \in Accounts, NEW b \in Accounts, NEW d \in Companies, RevokeMember(a, b, d)
      PROVE  Lasts
  BY <1>5 DEF RevokeMember, TypeOK
<1>6. ASSUME NEW a \in Accounts, NEW d \in Companies, DisableCompany(a, d) PROVE Lasts
  BY <1>6 DEF DisableCompany, Disabling, TypeOK
<1>7. CASE Hands
  BY <1>7 DEF Hands, TransferOwnership, TypeOK
<1>8. CASE UNCHANGED <<member, company>>
  BY <1>8
<1> QED
  BY <1>1, <1>2, <1>4, <1>5, <1>6, <1>7, <1>8, MemberSteps DEF Joins, Leaves

\* What a bill or a seat change does to one subscription.
LEMMA BillsEffect ==
    ASSUME TypeOK, NEW d \in Companies,
           InvoiceSettled(d) \/ FirstPaid(d) \/ \E st \in Statuses : SubscriptionState(d, st)
    PROVE  /\ UNCHANGED <<op, member, company>>
           /\ \A c \in Companies \ {d} : sub'[c] = sub[c]
           /\ sub'[d] \in Subscription
           /\ sub[d] = None => /\ sub'[d].op = None /\ sub'[d].pending = None
                               /\ sub'[d].paid = FALSE /\ ent' = ent
                               /\ invoice[d] # "none"
           /\ sub[d] # None => /\ sub'[d].op = sub[d].op /\ sub'[d].pending = sub[d].pending
                               /\ sub'[d].quantity = sub[d].quantity
                               /\ sub[d].paid => sub'[d].paid
                               /\ ent' = FannedOut(d, sub'[d])
<1>1. CASE InvoiceSettled(d)
  <2>1. PICK q \in InvoiceSeats :
          sub' = [sub EXCEPT ![d] = [quantity |-> q, pending |-> None, op |-> None,
                                     status |-> "active", paid |-> FALSE]]
    BY <1>1 DEF InvoiceSettled
  <2>2. sub'[d] = [quantity |-> q, pending |-> None, op |-> None, status |-> "active", paid |-> FALSE]
    BY <2>1 DEF TypeOK
  <2>3. sub'[d] \in Subscription
    BY <2>2, SeatsArePositive DEF Subscription, Statuses
  <2> QED BY <1>1, <2>1, <2>2, <2>3 DEF InvoiceSettled, TypeOK
<1>2. CASE FirstPaid(d)
  <2>1. sub[d] \in Subscription /\ sub'[d] = [sub[d] EXCEPT !.paid = TRUE]
    BY <1>2 DEF FirstPaid, TypeOK
  <2>2. sub'[d] \in Subscription
    BY <2>1 DEF Subscription
  <2>3. /\ sub'[d].op = sub[d].op /\ sub'[d].pending = sub[d].pending
        /\ sub'[d].quantity = sub[d].quantity /\ sub'[d].paid
    BY <2>1 DEF Subscription
  <2> QED BY <1>2, <2>1, <2>2, <2>3 DEF FirstPaid, TypeOK
<1>3. ASSUME NEW st \in Statuses, SubscriptionState(d, st)
      PROVE  /\ sub'[d] \in Subscription /\ sub[d] # None
             /\ sub'[d].op = sub[d].op /\ sub'[d].pending = sub[d].pending
             /\ sub'[d].quantity = sub[d].quantity /\ sub'[d].paid = sub[d].paid
             /\ ent' = FannedOut(d, sub'[d]) /\ UNCHANGED <<op, member, company>>
             /\ \A c \in Companies \ {d} : sub'[c] = sub[c]
  <2>1. sub[d] \in Subscription /\ sub'[d] = [sub[d] EXCEPT !.status = st]
    BY <1>3 DEF SubscriptionState, TypeOK
  <2>2. sub'[d] \in Subscription
    BY <2>1 DEF Subscription
  <2>3. /\ sub'[d].op = sub[d].op /\ sub'[d].pending = sub[d].pending
        /\ sub'[d].quantity = sub[d].quantity /\ sub'[d].paid = sub[d].paid
    BY <2>1 DEF Subscription
  <2> QED BY <1>3, <2>1, <2>2, <2>3 DEF SubscriptionState, TypeOK
<1> QED BY <1>1, <1>2, <1>3

LEMMA PendingFields ==
    ASSUME TypeOK, OnePendingChange, NEW d \in Companies, NEW o \in Ops, op[d][o] = "pending"
    PROVE  /\ sub[d] \in Subscription /\ sub[d].op = o /\ sub[d].pending \in Seats
           /\ sub[d].pending # None
BY SubscriptionFields DEF OnePendingChange, TypeOK

LEMMA ReserveEffect ==
    ASSUME TypeOK, NEW d \in Companies, NEW o \in Ops, NEW a \in Accounts, NEW q \in Seats,
           ReserveSeatChange(a, d, q, o)
    PROVE  /\ sub[d] \in Subscription /\ sub[d].op = None /\ op'[d][o] = "pending"
           /\ sub'[d] \in Subscription
           /\ sub'[d].status = sub[d].status /\ sub'[d].paid = sub[d].paid
           /\ sub'[d].quantity = sub[d].quantity /\ sub'[d].op = o /\ sub'[d].pending = q
           /\ \A c \in Companies \ {d} : sub'[c] = sub[c] /\ op'[c] = op[c]
           /\ \A p \in Ops \ {o} : op'[d][p] = op[d][p]
<1>1. /\ sub[d] # None /\ sub[d].op = None /\ op' = [op EXCEPT ![d][o] = "pending"]
      /\ sub' = [sub EXCEPT ![d].pending = q, ![d].op = o]
  BY DEF ReserveSeatChange
<1>2. sub \in [Companies -> Subscription \cup {None}] /\ op \in [Companies -> [Ops -> {"unused", "pending", "succeeded", "failed"}]]
  BY DEF TypeOK
<1>3. sub'[d] = [sub[d] EXCEPT !.pending = q, !.op = o] /\ \A c \in Companies \ {d} : sub'[c] = sub[c]
  BY <1>1, <1>2
<1>4. /\ op'[d][o] = "pending" /\ \A c \in Companies \ {d} : op'[c] = op[c]
      /\ \A p \in Ops \ {o} : op'[d][p] = op[d][p]
  BY <1>1, <1>2
<1>5. sub[d] \in Subscription
  BY <1>1, <1>2
<1>6. /\ sub'[d] \in Subscription /\ sub'[d].status = sub[d].status /\ sub'[d].paid = sub[d].paid
      /\ sub'[d].quantity = sub[d].quantity /\ sub'[d].op = o /\ sub'[d].pending = q
  BY <1>3, <1>5 DEF Subscription
<1> QED BY <1>1, <1>3, <1>4, <1>5, <1>6

LEMMA SettleEffect ==
    ASSUME TypeOK, OnePendingChange, NEW d \in Companies, NEW o \in Ops,
           SettleSeatChange(d, o) \/ ReleaseSeatChange(d, o)
    PROVE  /\ op[d][o] = "pending" /\ op'[d][o] # "pending"
           /\ \/ sub'[d] = [sub[d] EXCEPT !.quantity = sub[d].pending, !.pending = None, !.op = None]
              \/ sub'[d] = [sub[d] EXCEPT !.pending = None, !.op = None]
           /\ \A c \in Companies \ {d} : sub'[c] = sub[c] /\ op'[c] = op[c]
           /\ \A p \in Ops \ {o} : op'[d][p] = op[d][p]
<1>1. op[d][o] = "pending" /\ \E v \in {"succeeded", "failed"} : op' = [op EXCEPT ![d][o] = v]
  BY DEF SettleSeatChange, ReleaseSeatChange
<1>2. sub[d] \in Subscription /\ sub[d] # None /\ sub[d].op = o
  BY <1>1, PendingFields, SubscriptionFields
<1>3. \/ sub' = [sub EXCEPT ![d].quantity = sub[d].pending, ![d].pending = None, ![d].op = None]
      \/ sub' = [sub EXCEPT ![d].pending = None, ![d].op = None]
  BY <1>2 DEF SettleSeatChange, ReleaseSeatChange
<1>4. sub \in [Companies -> Subscription \cup {None}] /\ op \in [Companies -> [Ops -> {"unused", "pending", "succeeded", "failed"}]]
  BY DEF TypeOK
<1>5. CASE sub' = [sub EXCEPT ![d].quantity = sub[d].pending, ![d].pending = None, ![d].op = None]
  <2>1. sub'[d] = [sub[d] EXCEPT !.quantity = sub[d].pending, !.pending = None, !.op = None]
    BY <1>4, <1>5
  <2>2. \A c \in Companies \ {d} : sub'[c] = sub[c]
    BY <1>4, <1>5
  <2> QED BY <1>1, <1>4, <2>1, <2>2
<1>6. CASE sub' = [sub EXCEPT ![d].pending = None, ![d].op = None]
  <2>1. sub'[d] = [sub[d] EXCEPT !.pending = None, !.op = None]
    BY <1>4, <1>6
  <2>2. \A c \in Companies \ {d} : sub'[c] = sub[c]
    BY <1>4, <1>6
  <2> QED BY <1>1, <1>4, <2>1, <2>2
<1> QED BY <1>3, <1>5, <1>6

\* The columns of the other companies stay, and so do status and first payment.
LEMMA SeatEffect ==
    ASSUME TypeOK, OnePendingChange, NEW d \in Companies, NEW o \in Ops,
           \/ SettleSeatChange(d, o) \/ ReleaseSeatChange(d, o)
           \/ \E a \in Accounts, q \in Seats : ReserveSeatChange(a, d, q, o)
    PROVE  /\ UNCHANGED <<member, company, ent, invite, asked, invoice>>
           /\ \A c \in Companies \ {d} : sub'[c] = sub[c] /\ op'[c] = op[c]
           /\ \A p \in Ops \ {o} : op'[d][p] = op[d][p]
           /\ sub[d] \in Subscription /\ sub'[d] \in Subscription
           /\ sub'[d].status = sub[d].status /\ sub'[d].paid = sub[d].paid
           /\ \/ /\ sub[d].op = None /\ op'[d][o] = "pending"
                 /\ sub'[d].quantity = sub[d].quantity /\ sub'[d].op = o
                 /\ \E q \in Seats : sub'[d].pending = q /\ SeatsAllow(d, q)
              \/ /\ sub[d].op = o /\ sub[d].pending # None /\ op'[d][o] # "pending"
                 /\ sub'[d].quantity \in {sub[d].quantity, sub[d].pending}
                 /\ sub'[d].op = None /\ sub'[d].pending = None
<1>1. UNCHANGED <<member, company, ent, invite, asked, invoice>>
  BY DEF SettleSeatChange, ReleaseSeatChange, ReserveSeatChange
<1>2. ASSUME NEW a \in Accounts, NEW q \in Seats, ReserveSeatChange(a, d, q, o)
      PROVE  /\ \A c \in Companies \ {d} : sub'[c] = sub[c] /\ op'[c] = op[c]
             /\ \A p \in Ops \ {o} : op'[d][p] = op[d][p]
             /\ sub[d] \in Subscription /\ sub'[d] \in Subscription
             /\ sub'[d].status = sub[d].status /\ sub'[d].paid = sub[d].paid
             /\ sub[d].op = None /\ op'[d][o] = "pending"
             /\ sub'[d].quantity = sub[d].quantity /\ sub'[d].op = o
             /\ sub'[d].pending = q /\ SeatsAllow(d, q)
  <2>1. SeatsAllow(d, q)
    BY <1>2 DEF ReserveSeatChange
  <2>2. sub[d] \in Subscription /\ sub'[d] \in Subscription
    BY <1>2, ReserveEffect
  <2>3. /\ sub'[d].status = sub[d].status /\ sub'[d].paid = sub[d].paid
        /\ sub'[d].quantity = sub[d].quantity /\ sub'[d].op = o /\ sub'[d].pending = q
    BY <1>2, ReserveEffect
  <2>4. sub[d].op = None /\ op'[d][o] = "pending"
    BY <1>2, ReserveEffect
  <2>5. /\ \A c \in Companies \ {d} : sub'[c] = sub[c] /\ op'[c] = op[c]
        /\ \A p \in Ops \ {o} : op'[d][p] = op[d][p]
    BY <1>2, ReserveEffect
  <2> QED BY <2>1, <2>2, <2>3, <2>4, <2>5
<1>3. CASE SettleSeatChange(d, o) \/ ReleaseSeatChange(d, o)
  <2>1. /\ op[d][o] = "pending" /\ op'[d][o] # "pending"
        /\ \/ sub'[d] = [sub[d] EXCEPT !.quantity = sub[d].pending, !.pending = None, !.op = None]
           \/ sub'[d] = [sub[d] EXCEPT !.pending = None, !.op = None]
        /\ \A c \in Companies \ {d} : sub'[c] = sub[c] /\ op'[c] = op[c]
        /\ \A p \in Ops \ {o} : op'[d][p] = op[d][p]
    BY <1>3, SettleEffect
  <2>2. /\ sub[d] \in Subscription /\ sub[d].op = o /\ sub[d].pending \in Seats
        /\ sub[d].pending # None
    BY <2>1, PendingFields
  <2>3. /\ sub'[d] \in Subscription /\ sub'[d].status = sub[d].status /\ sub'[d].paid = sub[d].paid
        /\ sub'[d].quantity \in {sub[d].quantity, sub[d].pending}
        /\ sub'[d].op = None /\ sub'[d].pending = None
    <3>1. CASE sub'[d] = [sub[d] EXCEPT !.quantity = sub[d].pending, !.pending = None, !.op = None]
      BY <2>2, <3>1 DEF Subscription
    <3>2. CASE sub'[d] = [sub[d] EXCEPT !.pending = None, !.op = None]
      BY <2>2, <3>2 DEF Subscription
    <3> QED BY <2>1, <3>1, <3>2
  <2> QED BY <1>1, <2>1, <2>2, <2>3
<1>4. CASE \E a \in Accounts, q \in Seats : ReserveSeatChange(a, d, q, o)
  <2>1. PICK a \in Accounts, q \in Seats : ReserveSeatChange(a, d, q, o)
    BY <1>4
  <2> QED BY <1>1, <1>2, <2>1
<1> QED BY <1>3, <1>4

-----------------------------------------------------------------------------
(* Pending changes. *)

LEMMA PendingStep ==
    ASSUME TypeOK, Paired, OnePendingChange, [CompanyNext]_companyVars
    PROVE  OnePendingChange' /\ Paired'
<1>1. CASE UNCHANGED <<sub, op>>
  BY <1>1 DEF OnePendingChange, Paired
<1>2. CASE Bills
  <2>1. PICK d \in Companies :
          InvoiceSettled(d) \/ FirstPaid(d) \/ \E st \in Statuses : SubscriptionState(d, st)
    BY <1>2 DEF Bills
  <2>2. /\ op' = op /\ \A c \in Companies \ {d} : sub'[c] = sub[c]
        /\ sub'[d] \in Subscription /\ sub'[d] # None
        /\ sub[d] = None => sub'[d].op = None /\ sub'[d].pending = None
        /\ sub[d] # None => sub'[d].op = sub[d].op /\ sub'[d].pending = sub[d].pending
    BY <2>1, BillsEffect, SubscriptionFields
  <2>3. \A o \in Ops : o # None
    BY NoneIsNothing
  <2> QED BY <2>2, <2>3 DEF OnePendingChange, Paired
<1>3. CASE SeatNext
  <2>1. PICK d \in Companies, o \in Ops :
          \/ SettleSeatChange(d, o) \/ ReleaseSeatChange(d, o)
          \/ \E a \in Accounts, q \in Seats : ReserveSeatChange(a, d, q, o)
    BY <1>3 DEF SeatNext
  <2>2. /\ \A c \in Companies \ {d} : sub'[c] = sub[c] /\ op'[c] = op[c]
        /\ \A p \in Ops \ {o} : op'[d][p] = op[d][p]
        /\ sub[d] # None /\ sub'[d] # None
    BY <2>1, SeatEffect, SubscriptionFields
  <2>3. \/ /\ sub[d].op = None /\ op'[d][o] = "pending" /\ sub'[d].op = o
           /\ sub'[d].pending # None
        \/ /\ sub[d].op = o /\ op'[d][o] # "pending"
           /\ sub'[d].op = None /\ sub'[d].pending = None
    BY <2>1, SeatEffect, NoneIsNothing
  <2>4. o # None
    BY NoneIsNothing
  <2> QED BY <2>2, <2>3, <2>4 DEF OnePendingChange, Paired
<1> QED BY <1>1, <1>2, <1>3, SubSteps

\* Whatever names a company names one that was founded.
LEMMA NamedStep ==
    ASSUME TypeOK, Founded, [CompanyNext]_companyVars
    PROVE  /\ \A c \in Companies : invoice'[c] # "none" => company[c] # "absent"
           /\ \A i \in Invites : invite'[i] # None =>
                 invite'[i].company \in Companies /\ company[invite'[i].company] # "absent"
           /\ \A a \in Accounts : asked'[a] # None /\ asked'[a].kind = "mint" =>
                 asked'[a].company \in Companies /\ company[asked'[a].company] # "absent"
<1> DEFINE Bill == \A c \in Companies : invoice'[c] # "none" => company[c] # "absent"
           Invite == \A i \in Invites : invite'[i] # None =>
                        invite'[i].company \in Companies /\ company[invite'[i].company] # "absent"
           Ask == \A a \in Accounts : asked'[a] # None /\ asked'[a].kind = "mint" =>
                    asked'[a].company \in Companies /\ company[asked'[a].company] # "absent"
           Named == Bill /\ Invite /\ Ask
<1>1. ASSUME UNCHANGED invoice PROVE Bill
  BY <1>1 DEF Founded
<1>2. ASSUME UNCHANGED invite PROVE Invite
  BY <1>2 DEF Founded, TypeOK, Invitation
<1>3. ASSUME UNCHANGED asked PROVE Ask
  BY <1>3 DEF Founded, TypeOK, Request
<1>4. ASSUME NEW i \in Invites, invite[i] # None,
             NEW s \in {"open", "consumed", "revoked", "expired"},
             invite' = [invite EXCEPT ![i].state = s]
      PROVE  Invite
  <2>1. invite'[i] = [invite[i] EXCEPT !.state = s] /\ \A j \in Invites \ {i} : invite'[j] = invite[j]
    BY <1>4 DEF TypeOK
  <2>2. invite[i] \in Invitation
    BY <1>4 DEF TypeOK
  <2>3. invite'[i].company = invite[i].company
    BY <2>1, <2>2 DEF Invitation
  <2>4. \A j \in Invites : invite[j] # None => invite[j].company \in Companies
    BY DEF TypeOK, Invitation
  <2> QED BY <1>4, <2>1, <2>3, <2>4 DEF Founded
<1>5. ASSUME NEW a \in Accounts, asked' = [asked EXCEPT ![a] = None] PROVE Ask
  <2>1. \A b \in Accounts : asked'[b] # None => asked'[b] = asked[b]
    BY <1>5 DEF TypeOK
  <2>2. \A b \in Accounts : asked[b] # None /\ asked[b].kind = "mint" => asked[b].company \in Companies
    BY DEF TypeOK, Request
  <2> QED BY <2>1, <2>2 DEF Founded
<1>6. ASSUME NEW a \in Accounts, AskCreate(a) PROVE Named
  <2>1. Ask
    <3>1. asked'[a].kind = "create" /\ \A b \in Accounts \ {a} : asked'[b] = asked[b]
      BY <1>6 DEF AskCreate, TypeOK
    <3>2. \A b \in Accounts : asked[b] # None /\ asked[b].kind = "mint" => asked[b].company \in Companies
      BY DEF TypeOK, Request
    <3> QED BY <3>1, <3>2 DEF Founded
  <2> QED BY <1>1, <1>2, <1>6, <2>1 DEF AskCreate
<1>7. ASSUME NEW a \in Accounts, CreateCompany(a) PROVE Named
  BY <1>1, <1>2, <1>5, <1>7 DEF CreateCompany
<1>8. ASSUME NEW a \in Accounts, MintInvite(a) PROVE Named
  <2>1. /\ asked[a].company \in Companies /\ asked[a].invite \in Invites
        /\ company[asked[a].company] # "absent"
    <3>1. asked[a] \in Request /\ asked[a].kind = "mint" /\ asked[a] # None
      BY <1>8 DEF MintInvite, TypeOK
    <3> QED BY <3>1 DEF Founded, Request
  <2>2. invite'[asked[a].invite].company = asked[a].company
    BY <1>8, <2>1 DEF MintInvite, TypeOK
  <2>3. \A i \in Invites \ {asked[a].invite} : invite'[i] = invite[i]
    BY <1>8, <2>1 DEF MintInvite, TypeOK
  <2>4. \A i \in Invites : invite[i] # None => invite[i].company \in Companies
    BY DEF TypeOK, Invitation
  <2>5. Invite
    BY <2>1, <2>2, <2>3, <2>4 DEF Founded
  <2> QED BY <1>1, <1>5, <1>8, <2>5 DEF MintInvite
<1>9. ASSUME NEW a \in Accounts, EraseAccount(a) PROVE Named
  <2>1. \A i \in Invites : invite'[i] # None => invite[i] # None /\ invite'[i].company = invite[i].company
    <3>1. \A i \in Invites : invite[i] # None =>
            [invite[i] EXCEPT !.state = "revoked"].company = invite[i].company
      BY DEF TypeOK, Invitation
    <3> QED BY <1>9, <3>1 DEF EraseAccount
  <2>2. \A i \in Invites : invite[i] # None => invite[i].company \in Companies
    BY DEF TypeOK, Invitation
  <2>3. Invite
    BY <2>1, <2>2 DEF Founded
  <2> QED BY <1>1, <1>3, <1>9, <2>3 DEF EraseAccount
<1>10. ASSUME NEW a \in Accounts, NEW c \in Companies, NEW i \in Invites, NEW r \in InviteRoles,
              AskMint(a, c, i, r)
       PROVE  Named
  <2>1. asked'[a].company = c /\ \A b \in Accounts \ {a} : asked'[b] = asked[b]
    BY <1>10 DEF AskMint, TypeOK
  <2>2. \A b \in Accounts : asked[b] # None /\ asked[b].kind = "mint" => asked[b].company \in Companies
    BY DEF TypeOK, Request
  <2>3. company[c] # "absent"
    BY <1>10 DEF AskMint, Manages, Founded
  <2>4. Ask
    BY <2>1, <2>2, <2>3 DEF Founded
  <2> QED BY <1>1, <1>2, <1>10, <2>4 DEF AskMint
<1>11. ASSUME NEW a \in Accounts, NEW i \in Invites, RevokeInvite(a, i) PROVE Named
  BY <1>1, <1>3, <1>4, <1>11 DEF RevokeInvite
<1>12. ASSUME NEW i \in Invites, ExpireInvite(i) PROVE Named
  BY <1>1, <1>3, <1>4, <1>12 DEF ExpireInvite
<1>13. ASSUME NEW a \in Accounts, NEW i \in Invites, RedeemInvite(a, i) PROVE Named
  BY <1>1, <1>3, <1>4, <1>13 DEF RedeemInvite
<1>14. ASSUME NEW a \in Accounts, NEW b \in Accounts, NEW c \in Companies,
              RevokeMember(a, b, c) \/ TransferOwnership(a, b, c)
       PROVE  Named
  BY <1>1, <1>2, <1>3, <1>14 DEF RevokeMember, TransferOwnership
<1>15. ASSUME NEW a \in Accounts, NEW c \in Companies, DisableCompany(a, c) PROVE Named
  BY <1>1, <1>2, <1>3, <1>15 DEF DisableCompany
<1>16. ASSUME NEW c \in Companies, ApproveInvoice(c) \/ InvoiceFailed(c) \/ InvoiceSettled(c)
       PROVE  Named
  <2>1. Bill
    BY <1>16 DEF ApproveInvoice, InvoiceFailed, InvoiceSettled, Founded, TypeOK
  <2> QED BY <1>2, <1>3, <1>16, <2>1 DEF ApproveInvoice, InvoiceFailed, InvoiceSettled
<1>17. ASSUME NEW c \in Companies, CustomerReady(c) \/ FirstPaid(c) PROVE Named
  BY <1>1, <1>2, <1>3, <1>17 DEF CustomerReady, FirstPaid
<1>18. ASSUME NEW c \in Companies, NEW st \in Statuses, SubscriptionState(c, st) PROVE Named
  BY <1>1, <1>2, <1>3, <1>18 DEF SubscriptionState
<1>19. ASSUME SeatNext PROVE Named
  <2>1. PICK c \in Companies, o \in Ops :
          \/ SettleSeatChange(c, o) \/ ReleaseSeatChange(c, o)
          \/ \E a \in Accounts, q \in Seats : ReserveSeatChange(a, c, q, o)
    BY <1>19 DEF SeatNext
  <2> QED
    BY <1>1, <1>2, <1>3, <2>1 DEF SettleSeatChange, ReleaseSeatChange, ReserveSeatChange
<1>20. ASSUME UNCHANGED companyVars PROVE Named
  BY <1>1, <1>2, <1>3, <1>20 DEF companyVars
<1> HIDE DEF Named
<1>21. ASSUME PeopleNext PROVE Named
  BY <1>6, <1>7, <1>8, <1>9, <1>10, <1>11, <1>12, <1>13, <1>14, <1>15, <1>16, <1>17, <1>18, <1>21
  DEF PeopleNext
<1>22. Named
  BY <1>19, <1>20, <1>21 DEF CompanyNext
<1> QED BY <1>22 DEF Named

LEMMA FoundedStep ==
    ASSUME TypeOK, Founded, OnePendingChange, [CompanyNext]_companyVars PROVE Founded'
<1>1. \A c \in Companies : company'[c] = "absent" => company[c] = "absent" /\ sub[c] = None
                                                   /\ invoice[c] = "none"
  BY NeverAbsentAgain DEF Founded
<1>2. \A c \in Companies : company'[c] = "absent" => \A a \in Accounts : member'[c][a] = "none"
  BY NeverAbsentAgain DEF Founded
<1>3. \A c \in Companies : company'[c] = "absent" => sub'[c] = None
  <2>1. CASE Bills
    <3>1. PICK d \in Companies :
            InvoiceSettled(d) \/ FirstPaid(d) \/ \E st \in Statuses : SubscriptionState(d, st)
      BY <2>1 DEF Bills
    <3>2. /\ \A c \in Companies \ {d} : sub'[c] = sub[c]
          /\ sub[d] = None => invoice[d] # "none"
      BY <3>1, BillsEffect
    <3> QED BY <1>1, <3>2
  <2>2. CASE SeatNext
    <3>1. PICK d \in Companies, o \in Ops :
            \/ SettleSeatChange(d, o) \/ ReleaseSeatChange(d, o)
            \/ \E a \in Accounts, q \in Seats : ReserveSeatChange(a, d, q, o)
      BY <2>2 DEF SeatNext
    <3>2. sub[d] # None /\ \A c \in Companies \ {d} : sub'[c] = sub[c]
      BY <3>1, SeatEffect, SubscriptionFields
    <3> QED BY <1>1, <3>2
  <2> QED BY <1>1, <2>1, <2>2, SubSteps
<1> QED BY <1>2, <1>3, NamedStep, NeverAbsentAgain DEF Founded

-----------------------------------------------------------------------------
(* Seats. *)

\* The members of c fit what c has.
Fits(c) == Cardinality(Active(c)) <= Capacity(c)

AllFit == \A c \in Companies : Fits(c)

LEMMA AllFitIsEnough == TypeOK => (SeatsNeverOversold <=> AllFit)
BY CapacityFits DEF SeatsNeverOversold, Fits, AllFit

LEMMA FitsIsAll == TypeOK => (SeatsNeverOversold <=> \A c \in Companies : Fits(c))
BY AllFitIsEnough DEF AllFit

LEMMA FewerFit ==
    ASSUME TypeOK, NEW c \in Companies, Fits(c), Active(c)' \subseteq Active(c),
           Capacity(c)' = Capacity(c)
    PROVE  Fits(c)'
<1>1. IsFiniteSet(Active(c)) /\ Cardinality(Active(c)) \in Nat
  BY ActiveIsFinite
<1>2. IsFiniteSet(Active(c)') /\ Cardinality(Active(c)') <= Cardinality(Active(c))
  BY <1>1, FS_Subset
<1>3. Cardinality(Active(c)') \in Nat /\ Capacity(c) \in Nat
  BY <1>2, FS_CardinalityType, CapacityFits
<1> QED BY <1>1, <1>2, <1>3 DEF Fits

LEMMA MemberSeats ==
    ASSUME TypeOK, TypeOK', Founded, SeatsNeverOversold, [CompanyNext]_companyVars, sub' = sub,
           NEW c \in Companies
    PROVE  Fits(c)'
<1>1. Fits(c) /\ Capacity(c)' = Capacity(c)
  BY FitsIsAll DEF Capacity
<1>2. ASSUME \A b \in Accounts : member'[c][b] \in Roles => member[c][b] \in Roles PROVE Fits(c)'
  BY <1>1, <1>2, FewerFit DEF Active
<1>3. ASSUME NEW a \in Accounts, CreateCompany(a) PROVE Fits(c)'
  <2>1. ASSUME NEW d \in Companies, company[d] = "absent", member' = [member EXCEPT ![d][a] = "owner"]
        PROVE  Fits(c)'
    <3>1. CASE c = d
      <4>1. Active(c)' = {a}
        BY <2>1, <3>1 DEF Active, Founded, TypeOK, Roles
      <4>2. Cardinality(Active(c)') = 1
        BY <4>1, FS_Singleton
      <4>3. Capacity(c) >= 1 /\ Capacity(c) \in Nat
        BY CapacityFits
      <4> QED BY <1>1, <4>2, <4>3 DEF Fits
    <3>2. CASE c # d
      BY <1>2, <2>1, <3>2 DEF TypeOK
    <3> QED BY <3>1, <3>2
  <2> QED BY <1>2, <1>3, <2>1 DEF CreateCompany
<1>4. ASSUME NEW a \in Accounts, NEW i \in Invites, RedeemInvite(a, i) PROVE Fits(c)'
  <2> DEFINE d == invite[i].company
  <2>1. d \in Companies /\ invite[i].role \in Roles
    BY <1>4 DEF RedeemInvite, TypeOK, Invitation, InviteRoles, Roles
  <2>2. /\ member' = [member EXCEPT ![d] = [member[d] EXCEPT ![a] = invite[i].role]]
        /\ HasSeat(d) /\ member[d][a] = "none"
    BY <1>4 DEF RedeemInvite, MayJoin
  <2> HIDE DEF d
  <2>3. CASE c = d
    <3>1. Active(c)' = Active(c) \cup {a} /\ a \notin Active(c)
      BY <2>1, <2>2, <2>3 DEF Active, TypeOK, Roles
    <3>2. Cardinality(Active(c)') = Cardinality(Active(c)) + 1
      BY <3>1, ActiveIsFinite, FS_AddElement
    <3> QED BY <1>1, <2>2, <2>3, <3>2 DEF HasSeat, Fits
  <2>4. CASE c # d
    BY <1>2, <2>1, <2>2, <2>4 DEF TypeOK
  <2> QED BY <2>3, <2>4
<1>5. ASSUME NEW d \in Companies, NEW gone, member' = [member EXCEPT ![d] = Revoked(@, gone)]
      PROVE  Fits(c)'
  BY <1>2, <1>5 DEF TypeOK, Revoked, Roles
<1>6. ASSUME NEW a \in Accounts, NEW d \in Companies, member[d][a] \in Roles, Leaving(a, d)
      PROVE  Fits(c)'
  <2>1. ASSUME NEW b \in Successors(member[d], a),
               member' = [member EXCEPT ![d] = Revoked(Promoted(@, a, b), {a})]
        PROVE  Fits(c)'
    <3>1. b \in Accounts /\ member[d][b] \in Roles
      BY DEF Successors
    <3>2. \A x \in Accounts : member'[d][x] \in Roles => member[d][x] \in Roles
      BY <1>6, <2>1, <3>1 DEF TypeOK, Revoked, Promoted, Roles
    <3>3. c # d => member'[c] = member[c]
      BY <2>1 DEF TypeOK
    <3> QED BY <1>2, <3>2, <3>3
  <2> QED BY <1>5, <1>6, <2>1 DEF Leaving, Disabling
<1>7. CASE Leaves
  BY <1>2, <1>5, <1>6, <1>7 DEF Leaves, EraseAccount, RevokeMember, DisableCompany, Disabling
<1>8. CASE Hands
  <2>1. PICK a \in Accounts, b \in Accounts, d \in Companies : TransferOwnership(a, b, d)
    BY <1>8 DEF Hands
  <2>2. \A x \in Accounts : member'[d][x] \in Roles => member[d][x] \in Roles
    BY <2>1 DEF TransferOwnership, Promoted, TypeOK, Roles
  <2>3. c # d => member'[c] = member[c]
    BY <2>1 DEF TransferOwnership, TypeOK
  <2> QED BY <1>2, <2>2, <2>3
<1>9. CASE UNCHANGED member
  BY <1>2, <1>9
<1> QED BY <1>3, <1>4, <1>7, <1>8, <1>9, MemberSteps DEF Joins

LEMMA RoomierFits ==
    ASSUME TypeOK, NEW c \in Companies, Fits(c), UNCHANGED member,
           NEW n \in Nat, n = Capacity(c)', Capacity(c) <= n
    PROVE  Fits(c)'
<1>1. Active(c)' = Active(c)
  BY DEF Active
<1>2. Cardinality(Active(c)) \in Nat /\ Capacity(c) \in Nat
  BY ActiveIsFinite, CapacityFits
<1> QED BY <1>1, <1>2 DEF Fits

LEMMA SeatsStep ==
    ASSUME TypeOK, TypeOK', Founded, Paired, OnePendingChange, SeatsNeverOversold,
           [CompanyNext]_companyVars
    PROVE  SeatsNeverOversold'
<1>1. SeatsNeverOversold' <=> \A c \in Companies : Fits(c)'
  <2>1. TypeOK' => (SeatsNeverOversold' <=> AllFit')
    BY AllFitIsEnough, PTL
  <2> QED BY <2>1 DEF AllFit
<1> SUFFICES ASSUME NEW c \in Companies PROVE Fits(c)'
  BY <1>1
<1>2. Fits(c)
  BY FitsIsAll
<1>3. Capacity(c) \in Nat
  BY CapacityFits
<1>4. ASSUME UNCHANGED member, sub'[c] = sub[c] PROVE Fits(c)'
  <2>1. Capacity(c)' = Capacity(c)
    BY <1>4 DEF Capacity
  <2> QED BY <1>2, <1>3, <1>4, <2>1, RoomierFits
<1>5. CASE Bills
  <2>1. PICK d \in Companies :
          InvoiceSettled(d) \/ FirstPaid(d) \/ \E st \in Statuses : SubscriptionState(d, st)
    BY <1>5 DEF Bills
  <2>2. /\ UNCHANGED member /\ \A x \in Companies \ {d} : sub'[x] = sub[x]
        /\ sub'[d] # None /\ sub'[d].quantity \in Nat /\ sub'[d].quantity >= 1
        /\ sub'[d].pending # None => sub'[d].pending \in Nat
        /\ sub[d] = None => sub'[d].pending = None
        /\ sub[d] # None => sub'[d].pending = sub[d].pending /\ sub'[d].quantity = sub[d].quantity
    BY <2>1, BillsEffect, SubscriptionFields
  <2>3. CASE c = d
    <3>1. Capacity(c)' \in Nat /\ Capacity(c) <= Capacity(c)'
      BY <2>2, <2>3, <1>3 DEF Capacity
    <3> QED BY <1>2, <2>2, <3>1, RoomierFits
  <2>4. CASE c # d
    BY <1>4, <2>2, <2>4
  <2> QED BY <2>3, <2>4
<1>6. CASE SeatNext
  <2>1. PICK d \in Companies, o \in Ops :
          \/ SettleSeatChange(d, o) \/ ReleaseSeatChange(d, o)
          \/ \E a \in Accounts, q \in Seats : ReserveSeatChange(a, d, q, o)
    BY <1>6 DEF SeatNext
  <2>2. UNCHANGED member /\ \A x \in Companies \ {d} : sub'[x] = sub[x]
    BY <2>1, SeatEffect
  <2>3. /\ sub[d] # None /\ sub'[d] # None /\ sub[d].quantity \in Nat /\ sub'[d].quantity \in Nat
        /\ sub[d].pending # None => sub[d].pending \in Nat
        /\ sub'[d].pending # None => sub'[d].pending \in Nat
    BY <2>1, SeatEffect, SubscriptionFields
  <2>4. CASE c = d
    <3>1. CASE /\ sub[d].op = None /\ sub'[d].quantity = sub[d].quantity
               /\ \E q \in Seats : sub'[d].pending = q /\ SeatsAllow(d, q)
      <4>1. PICK q \in Seats : sub'[d].pending = q /\ SeatsAllow(d, q)
        BY <3>1
      <4>2. q \in Nat /\ q # None
        BY SeatsArePositive, NoneIsNothing
      <4>3. sub[d].pending = None
        BY <2>3, <3>1 DEF Paired
      <4>4. Active(c)' = Active(c) /\ Cardinality(Active(c)) \in Nat
        BY <2>2, ActiveIsFinite DEF Active
      <4>5. Cardinality(Active(c)) <= sub[d].quantity
        BY <1>2, <2>3, <2>4, <4>3 DEF Fits, Capacity
      <4>6. Capacity(c)' = IF q < sub[d].quantity THEN q ELSE sub[d].quantity
        BY <2>3, <2>4, <3>1, <4>1, <4>2 DEF Capacity
      <4>7. q < sub[d].quantity => q >= Cardinality(Active(c))
        BY <2>4, <4>1 DEF SeatsAllow
      <4> QED BY <2>3, <4>2, <4>4, <4>5, <4>6, <4>7 DEF Fits
    <3>2. CASE /\ sub[d].pending # None /\ sub'[d].quantity \in {sub[d].quantity, sub[d].pending}
               /\ sub'[d].pending = None
      <4>1. Capacity(c)' = sub'[d].quantity
        BY <2>3, <2>4, <3>2 DEF Capacity
      <4>2. Capacity(c) <= sub[d].quantity /\ Capacity(c) <= sub[d].pending
        BY <2>3, <2>4, <3>2 DEF Capacity
      <4> QED BY <1>2, <2>2, <2>3, <3>2, <4>1, <4>2, RoomierFits
    <3> QED BY <2>1, <3>1, <3>2, SeatEffect
  <2>5. CASE c # d
    BY <1>4, <2>2, <2>5
  <2> QED BY <2>4, <2>5
<1>7. CASE sub' = sub
  BY <1>7, MemberSeats
<1> QED BY <1>5, <1>6, <1>7, SubSteps

-----------------------------------------------------------------------------
(* Entitlements. *)

\* What a holds is what its membership of c says.
Holds(a, c) ==
    member[c][a] \in Roles /\ sub[c] # None /\ sub[c].paid => ent[a] = Granted(c, sub[c])

HeldBy(a) ==
    ent[a] # None => \E c \in Companies : /\ member[c][a] \in Roles /\ sub[c] # None
                                          /\ sub[c].paid /\ ent[a] = Granted(c, sub[c])

Follows == \A a \in Accounts : HeldBy(a) /\ \A c \in Companies : Holds(a, c)

LEMMA GrantedFields ==
    ASSUME NEW c \in Companies, NEW s \in Subscription
    PROVE  Granted(c, s).company = c /\ Granted(c, s) # None
BY SubscriptionFields, NoneIsNothing DEF Granted, Entitlement

LEMMA FollowsIsAll == TypeOK => (EntitlementFollowsMembership <=> Follows)
<1> SUFFICES ASSUME TypeOK PROVE EntitlementFollowsMembership <=> Follows
  OBVIOUS
<1>1. ASSUME NEW a \in Accounts
      PROVE  (ent[a] # None => LET c == ent[a].company
                               IN /\ member[c][a] \in Roles
                                  /\ sub[c] # None /\ sub[c].paid
                                  /\ ent[a] = Granted(c, sub[c]))
             <=> HeldBy(a)
  <2>1. ent[a] # None => ent[a].company \in Companies
    BY DEF TypeOK, Entitlement
  <2>2. \A c \in Companies : sub[c] # None => Granted(c, sub[c]).company = c
    BY GrantedFields DEF TypeOK
  <2> QED BY <2>1, <2>2 DEF HeldBy
<1> QED BY <1>1 DEF EntitlementFollowsMembership, Follows, Holds

\* Leaving takes the entitlement along, and nobody else's.
LEMMA LeavesEntitled ==
    ASSUME TypeOK, Follows, OneCompany, NEW d \in Companies, NEW gone, UNCHANGED sub,
           ent' = Without(ent, d, gone),
           \A c \in Companies \ {d}, b \in Accounts : member'[c][b] = member[c][b],
           \A b \in Accounts : member'[d][b] \in Roles <=> member[d][b] \in Roles /\ b \notin gone
    PROVE  Follows'
<1> SUFFICES ASSUME NEW a \in Accounts PROVE HeldBy(a)' /\ \A c \in Companies : Holds(a, c)'
  BY DEF Follows
<1>1. HeldBy(a) /\ \A c \in Companies : Holds(a, c)
  BY DEF Follows
<1>2. \A c \in Companies : sub[c] # None => Granted(c, sub[c]).company = c
  BY GrantedFields DEF TypeOK
<1>3. ent'[a] = IF a \in gone /\ ent[a] # None /\ ent[a].company = d THEN None ELSE ent[a]
  BY DEF Without
<1>4. HeldBy(a)'
  BY <1>1, <1>2, <1>3 DEF HeldBy, Granted
<1>5. ASSUME NEW c \in Companies PROVE Holds(a, c)'
  BY <1>1, <1>2, <1>3 DEF Holds, Granted
<1> QED BY <1>4, <1>5

LEMMA EntitledSame ==
    ASSUME TypeOK, Follows, UNCHANGED <<member, ent>>,
           \A c \in Companies : sub[c] # None => /\ sub'[c] # None /\ sub'[c].paid = sub[c].paid
                                                 /\ sub'[c].status = sub[c].status,
           \A c \in Companies : sub[c] = None /\ sub'[c] # None => ~sub'[c].paid
    PROVE  Follows'
<1>1. \A c \in Companies : sub[c] # None => Granted(c, sub'[c]) = Granted(c, sub[c])
  BY DEF Granted
<1> SUFFICES ASSUME NEW a \in Accounts PROVE HeldBy(a)' /\ \A c \in Companies : Holds(a, c)'
  BY DEF Follows
<1>2. \A c \in Companies : Granted(c, sub[c])' = Granted(c, sub'[c])
  BY DEF Granted
<1>3. HeldBy(a)'
  BY <1>1, <1>2 DEF Follows, HeldBy
<1>4. ASSUME NEW c \in Companies PROVE Holds(a, c)'
  BY <1>1, <1>2 DEF Follows, Holds
<1> QED BY <1>3, <1>4

LEMMA JoinEntitled ==
    ASSUME TypeOK, TypeOK', Follows, NEW a \in Accounts, NEW d \in Companies, Free(a),
           UNCHANGED sub, member'[d][a] \in Roles,
           \A c \in Companies, b \in Accounts : c # d \/ b # a => member'[c][b] = member[c][b],
           \A b \in Accounts \ {a} : ent'[b] = ent[b],
           IF sub[d] # None /\ sub[d].paid THEN ent'[a] = Granted(d, sub[d]) ELSE ent'[a] = ent[a]
    PROVE  Follows'
<1>1. ent[a] = None
  BY DEF Follows, HeldBy, Free
<1>2. \A c \in Companies : Granted(c, sub[c])' = Granted(c, sub[c])
  BY DEF Granted
<1> SUFFICES ASSUME NEW b \in Accounts PROVE HeldBy(b)' /\ \A c \in Companies : Holds(b, c)'
  BY DEF Follows
<1>3. CASE b = a
  <2>1. HeldBy(b)'
    BY <1>1, <1>2, <1>3 DEF HeldBy
  <2>2. ASSUME NEW c \in Companies PROVE Holds(b, c)'
    BY <1>1, <1>2, <1>3 DEF Holds, Free
  <2> QED BY <2>1, <2>2
<1>4. CASE b # a
  <2>1. HeldBy(b)'
    BY <1>2, <1>4 DEF HeldBy, Follows
  <2>2. ASSUME NEW c \in Companies PROVE Holds(b, c)'
    BY <1>2, <1>4 DEF Holds, Follows
  <2> QED BY <2>1, <2>2
<1> QED BY <1>3, <1>4

LEMMA BillsEntitled ==
    ASSUME TypeOK, Follows, OneCompany, Founded, NEW d \in Companies,
           InvoiceSettled(d) \/ FirstPaid(d) \/ \E st \in Statuses : SubscriptionState(d, st)
    PROVE  Follows'
<1>1. CASE sub[d] = None
  <2>1. UNCHANGED <<member, ent>> /\ (\A c \in Companies \ {d} : sub'[c] = sub[c]) /\ ~sub'[d].paid
    BY <1>1, BillsEffect
  <2> QED BY <1>1, <2>1, EntitledSame
<1>2. CASE sub[d] # None
  <2>1. /\ UNCHANGED member /\ (\A c \in Companies \ {d} : sub'[c] = sub[c])
        /\ sub'[d] # None
        /\ sub[d].paid => sub'[d].paid
        /\ ent' = FannedOut(d, sub'[d])
    BY <1>2, BillsEffect, SubscriptionFields
  <2> SUFFICES ASSUME NEW a \in Accounts PROVE HeldBy(a)' /\ \A c \in Companies : Holds(a, c)'
    BY DEF Follows
  <2>2. ent'[a] = IF sub'[d].paid /\ member[d][a] \in Roles THEN Granted(d, sub'[d]) ELSE ent[a]
    BY <2>1 DEF FannedOut, Materialized, Written
  <2>3. \A c \in Companies : Granted(c, sub[c])' = Granted(c, sub'[c])
    BY DEF Granted
  <2>4. HeldBy(a) /\ \A c \in Companies : Holds(a, c)
    BY DEF Follows
  <2>5. \A c \in Companies : member[c][a] \in Roles /\ member[d][a] \in Roles => c = d
    BY DEF OneCompany
  <2>6. HeldBy(a)'
    BY <2>1, <2>2, <2>3, <2>4 DEF HeldBy
  <2>7. ASSUME NEW c \in Companies PROVE Holds(a, c)'
    BY <2>1, <2>2, <2>3, <2>4, <2>5 DEF Holds
  <2> QED BY <2>6, <2>7
<1> QED BY <1>1, <1>2

LEMMA EntitledStep ==
    ASSUME TypeOK, TypeOK', Founded, OneCompany, OnePendingChange, EntitlementFollowsMembership,
           [CompanyNext]_companyVars
    PROVE  EntitlementFollowsMembership'
<1>1. Follows
  BY FollowsIsAll
<1>2. TypeOK' => (EntitlementFollowsMembership' <=> Follows')
  BY FollowsIsAll, PTL
<1> SUFFICES Follows'
  BY <1>2
<1>3. ASSUME UNCHANGED <<member, ent, sub>> PROVE Follows'
  BY <1>1, <1>3, EntitledSame
<1>4. ASSUME NEW a \in Accounts, CreateCompany(a) PROVE Follows'
  <2>1. UNCHANGED <<sub, ent>>
    BY <1>4 DEF CreateCompany
  <2>2. ASSUME Free(a), NEW d \in Companies, company[d] = "absent",
               member' = [member EXCEPT ![d][a] = "owner"]
        PROVE  Follows'
    <3>1. sub[d] = None
      BY <2>2 DEF Founded
    <3>2. /\ member'[d][a] \in Roles
          /\ \A c \in Companies, b \in Accounts : c # d \/ b # a => member'[c][b] = member[c][b]
      BY <2>2 DEF TypeOK, Roles
    <3> QED BY <1>1, <2>1, <2>2, <3>1, <3>2, JoinEntitled
  <2> QED BY <1>3, <1>4, <2>1, <2>2 DEF CreateCompany
<1>5. ASSUME NEW a \in Accounts, NEW i \in Invites, RedeemInvite(a, i) PROVE Follows'
  <2> DEFINE d == invite[i].company
             joined == [member[d] EXCEPT ![a] = invite[i].role]
  <2>1. d \in Companies /\ invite[i].role \in Roles
    BY <1>5 DEF RedeemInvite, TypeOK, Invitation, InviteRoles, Roles
  <2>2. /\ member' = [member EXCEPT ![d] = joined]
        /\ Free(a) /\ UNCHANGED sub
        /\ ent' = [ent EXCEPT ![a] = Materialized(d, joined, sub[d])[a]]
    BY <1>5 DEF RedeemInvite, MayJoin
  <2>3. joined[a] = invite[i].role /\ \A b \in Accounts \ {a} : joined[b] = member[d][b]
    BY <2>1 DEF TypeOK
  <2> HIDE DEF d, joined
  <2>4. /\ member'[d] = joined /\ \A c \in Companies \ {d} : member'[c] = member[c]
    BY <2>1, <2>2 DEF TypeOK
  <2>5. /\ \A b \in Accounts \ {a} : ent'[b] = ent[b]
        /\ ent'[a] = Materialized(d, joined, sub[d])[a]
    BY <2>2 DEF TypeOK
  <2>6. IF sub[d] # None /\ sub[d].paid THEN ent'[a] = Granted(d, sub[d]) ELSE ent'[a] = ent[a]
    BY <2>1, <2>3, <2>5 DEF Materialized, Written
  <2> QED BY <1>1, <2>1, <2>2, <2>3, <2>4, <2>5, <2>6, JoinEntitled
<1>6. ASSUME NEW d \in Companies, NEW gone, UNCHANGED sub, ent' = Without(ent, d, gone),
             member' = [member EXCEPT ![d] = Revoked(@, gone)]
      PROVE  Follows'
  <2>1. /\ \A c \in Companies \ {d}, b \in Accounts : member'[c][b] = member[c][b]
        /\ \A b \in Accounts : member'[d][b] \in Roles <=> member[d][b] \in Roles /\ b \notin gone
    BY <1>6 DEF TypeOK, Revoked, Roles
  <2> QED BY <1>1, <1>6, <2>1, LeavesEntitled
<1>7. ASSUME NEW a \in Accounts, NEW d \in Companies, member[d][a] \in Roles, Leaving(a, d),
             UNCHANGED sub
      PROVE  Follows'
  <2>1. ASSUME NEW b \in Successors(member[d], a), ent' = Without(ent, d, {a}),
               member' = [member EXCEPT ![d] = Revoked(Promoted(@, a, b), {a})]
        PROVE  Follows'
    <3>1. b \in Accounts /\ member[d][b] \in Roles /\ b # a
      BY DEF Successors
    <3>2. /\ \A c \in Companies \ {d}, x \in Accounts : member'[c][x] = member[c][x]
          /\ \A x \in Accounts : member'[d][x] \in Roles <=> member[d][x] \in Roles /\ x \notin {a}
      BY <1>7, <2>1, <3>1 DEF TypeOK, Revoked, Promoted, Roles
    <3> QED BY <1>1, <1>7, <2>1, <3>2, LeavesEntitled
  <2> QED BY <1>6, <1>7, <2>1 DEF Leaving, Disabling
<1>8. CASE Leaves
  <2>1. ASSUME NEW a \in Accounts, EraseAccount(a) PROVE Follows'
    BY <1>3, <1>7, <2>1 DEF EraseAccount
  <2>2. ASSUME NEW a \in Accounts, NEW b \in Accounts, NEW c \in Companies, RevokeMember(a, b, c)
        PROVE  Follows'
    BY <1>6, <2>2 DEF RevokeMember
  <2>3. ASSUME NEW a \in Accounts, NEW c \in Companies, DisableCompany(a, c) PROVE Follows'
    BY <1>6, <2>3 DEF DisableCompany, Disabling
  <2> QED BY <1>8, <2>1, <2>2, <2>3 DEF Leaves
<1>9. CASE Hands
  <2>1. PICK a \in Accounts, b \in Accounts, d \in Companies : TransferOwnership(a, b, d)
    BY <1>9 DEF Hands
  <2>2. /\ \A c \in Companies \ {d}, x \in Accounts : member'[c][x] = member[c][x]
        /\ \A x \in Accounts : member'[d][x] \in Roles <=> member[d][x] \in Roles /\ x \notin {}
    BY <2>1 DEF TransferOwnership, Promoted, TypeOK, Roles
  <2>3. ent' = Without(ent, d, {}) /\ UNCHANGED sub
    BY <2>1 DEF TransferOwnership, Without, TypeOK
  <2> QED BY <1>1, <2>2, <2>3, LeavesEntitled
<1>10. CASE Bills
  <2>1. PICK d \in Companies :
          InvoiceSettled(d) \/ FirstPaid(d) \/ \E st \in Statuses : SubscriptionState(d, st)
    BY <1>10 DEF Bills
  <2> QED BY <1>1, <2>1, BillsEntitled
<1>11. CASE SeatNext
  <2>1. PICK d \in Companies, o \in Ops :
          \/ SettleSeatChange(d, o) \/ ReleaseSeatChange(d, o)
          \/ \E a \in Accounts, q \in Seats : ReserveSeatChange(a, d, q, o)
    BY <1>11 DEF SeatNext
  <2>2. /\ UNCHANGED <<member, ent>> /\ \A c \in Companies \ {d} : sub'[c] = sub[c]
        /\ sub[d] # None /\ sub'[d] # None
        /\ sub'[d].status = sub[d].status /\ sub'[d].paid = sub[d].paid
    BY <2>1, SeatEffect, SubscriptionFields
  <2> QED BY <1>1, <2>2, EntitledSame
<1> QED
  BY <1>3, <1>4, <1>5, <1>8, <1>9, <1>10, <1>11, Steps DEF Joins, Rows

-----------------------------------------------------------------------------
(* The invariant. *)

LEMMA SoundInit == CompanyInit => Sound
<1> SUFFICES ASSUME CompanyInit PROVE Sound
  OBVIOUS
<1> USE DEF CompanyInit
<1>1. TypeOK
  BY DEF TypeOK, Roles
<1>2. Founded /\ Paired
  BY DEF Founded, Paired
<1>3. OneOwner /\ OneCompany
  BY DEF OneOwner, OneCompany, Roles
<1>4. SeatsNeverOversold
  <2> SUFFICES ASSUME NEW c \in Companies PROVE Fits(c)
    BY <1>1, FitsIsAll
  <2>1. Active(c) = {}
    BY DEF Active, Roles
  <2> QED BY <1>1, <2>1, FS_EmptySet, CapacityFits DEF Fits
<1>5. EntitlementFollowsMembership /\ OnePendingChange
  BY DEF EntitlementFollowsMembership, OnePendingChange, Roles
<1> QED BY <1>1, <1>2, <1>3, <1>4, <1>5 DEF Sound

LEMMA SoundStep == Sound /\ [CompanyNext]_companyVars => Sound'
<1> SUFFICES ASSUME Sound, [CompanyNext]_companyVars PROVE Sound'
  OBVIOUS
<1> USE DEF Sound
<1>1. TypeOK'
  BY TypeStep
<1>2. Founded' /\ Paired' /\ OnePendingChange'
  BY FoundedStep, PendingStep
<1>3. OneOwner' /\ OneCompany'
  BY OwnerStep, OneCompanyStep
<1>4. SeatsNeverOversold'
  BY <1>1, SeatsStep
<1>5. EntitlementFollowsMembership'
  BY <1>1, EntitledStep
<1> QED BY <1>1, <1>2, <1>3, <1>4, <1>5

LEMMA AlwaysSound == CompanySpec => []Sound
BY SoundInit, SoundStep, PTL DEF CompanySpec

\* Every row of the identity object's company tables keeps its shape.
THEOREM RowsKeepTheirTypes == CompanySpec => []TypeOK
<1>1. Sound => TypeOK
  BY DEF Sound
<1> QED BY <1>1, AlwaysSound, PTL

\* An active company has exactly one owner, whatever the handlers do.
THEOREM AlwaysOneOwner == CompanySpec => []OneOwner
<1>1. Sound => OneOwner
  BY DEF Sound
<1> QED BY <1>1, AlwaysSound, PTL

\* Nobody is an active member of two companies.
THEOREM AlwaysOneCompany == CompanySpec => []OneCompany
<1>1. Sound => OneCompany
  BY DEF Sound
<1> QED BY <1>1, AlwaysSound, PTL

\* The active members of a company fit its seats, also while they shrink.
THEOREM SeatsAreNeverOversold == CompanySpec => []SeatsNeverOversold
<1>1. Sound => SeatsNeverOversold
  BY DEF Sound
<1> QED BY <1>1, AlwaysSound, PTL

\* Company entitlements are exactly those of the active members of companies
\* that have paid.
THEOREM EntitlementsFollowMembership == CompanySpec => []EntitlementFollowsMembership
<1>1. Sound => EntitlementFollowsMembership
  BY DEF Sound
<1> QED BY <1>1, AlwaysSound, PTL

\* A subscription's waiting change and the pending operation are one.
THEOREM AlwaysOnePendingChange == CompanySpec => []OnePendingChange
<1>1. Sound => OnePendingChange
  BY DEF Sound
<1> QED BY <1>1, AlwaysSound, PTL

-----------------------------------------------------------------------------
(* SeatChange: its steps as steps of Company. *)

CallsOK == call \in [Companies -> [Callers -> Call \cup {None}]]

\* A settle is one of Company's two, or changes nothing.
LEMMA SettlesIsASeatStep ==
    ASSUME CallsOK, NEW c \in Companies, NEW w \in Callers, Settles(c, w)
    PROVE  SeatNext \/ UNCHANGED companyVars
<1>1. call[c][w] \in Call /\ call[c][w].op \in Ops
  <2>1. call[c][w] \in Call \cup {None} /\ call[c][w] # None
    BY DEF Settles, At, CallsOK
  <2> QED BY <2>1 DEF Call
<1>2. CASE Settled(c, call[c][w])
  BY <1>1, <1>2 DEF Settled, SeatNext
<1>3. CASE UNCHANGED companyVars
  BY <1>3
<1> QED BY <1>2, <1>3 DEF Settles

LEMMA StepsAreCompanySteps == CallsOK /\ [Next]_vars => [CompanyNext]_companyVars
<1> SUFFICES ASSUME CallsOK, [Next]_vars PROVE [CompanyNext]_companyVars
  OBVIOUS
<1> DEFINE Goal == CompanyNext \/ UNCHANGED companyVars
<1>1. ASSUME People PROVE Goal
  BY <1>1 DEF People, CompanyNext
<1>2. ASSUME NEW c \in Companies, NEW a \in Accounts, NEW q \in Seats, NEW o \in Ops, Reserve(a, c, q, o)
      PROVE  Goal
  BY <1>2 DEF Reserve, CompanyNext, SeatNext
<1>3. ASSUME NEW c \in Companies, NEW o \in Ops, RouteReads(c, o) PROVE Goal
  BY <1>3 DEF RouteReads
<1>4. ASSUME NEW c \in Companies, NEW w \in Callers, Settles(c, w) PROVE Goal
  BY <1>4, SettlesIsASeatStep DEF CompanyNext
<1>5. ASSUME NEW c \in Companies, NEW w \in Callers,
             Asks(c, w) \/ ReadFails(c, w) \/ NoAnswer(c, w) \/ WorkerDies(c, w)
      PROVE  Goal
  BY <1>5 DEF Asks, ReadFails, NoAnswer, WorkerDies
<1>6. ASSUME NEW c \in Companies,
             \/ CronStarts(c) \/ CronReads(c) \/ StripeStep(c) \/ StripeRefuses(c)
             \/ WindowCloses(c) \/ Dashboard(c)
      PROVE  Goal
  BY <1>6 DEF CronStarts, CronReads, StripeStep, StripeBegins, StripeExecutes, StripeReplays,
     RequestLost, StripeRefuses, WindowCloses, Dashboard
<1>7. ASSUME UNCHANGED vars PROVE Goal
  BY <1>7 DEF vars
<1> HIDE DEF Goal
<1>8. Goal
  BY <1>1, <1>2, <1>3, <1>4, <1>5, <1>6, <1>7 DEF Next, CallerStep
<1> QED BY <1>8 DEF Goal

-----------------------------------------------------------------------------
(* The calls under way. *)

LEMMA CallFields ==
    ASSUME SeatTypeOK, NEW c \in Companies, NEW w \in Callers, call[c][w] # None
    PROVE  /\ call[c][w] \in Call /\ call[c][w].op \in Ops /\ call[c][w].target \in Seats
           /\ call[c][w].prev \in Seats
<1>1. call[c][w] \in Call
  BY DEF SeatTypeOK
<1> QED BY <1>1 DEF Call

LEMMA MovedType ==
    ASSUME SeatTypeOK, NEW c \in Companies, NEW w \in Callers, call[c][w] # None,
           NEW p \in {"read", "ask", "sent", "settle"}, Moved(c, w, p)
    PROVE  CallsOK'
<1>1. [call[c][w] EXCEPT !.at = p] \in Call
  BY CallFields DEF Call
<1>2. call' = [call EXCEPT ![c][w] = [call[c][w] EXCEPT !.at = p]]
  BY DEF Moved, SeatTypeOK
<1> QED BY <1>1, <1>2, OneCell DEF SeatTypeOK, CallsOK

LEMMA VerdictType ==
    ASSUME SeatTypeOK, NEW c \in Companies, NEW w \in Callers, call[c][w] # None,
           NEW v \in {"success", "failure"}, Verdict(c, w, v)
    PROVE  CallsOK'
<1> DEFINE r == [call[c][w] EXCEPT !.at = "settle"]
           g == [call EXCEPT ![c][w].at = "settle"]
<1>1. r \in Call
  BY CallFields DEF Call
<1>2. g = [call EXCEPT ![c][w] = r] /\ g[c][w] = r
  BY DEF SeatTypeOK
<1>3. g \in [Companies -> [Callers -> Call \cup {None}]]
  BY <1>1, <1>2, OneCell DEF SeatTypeOK
<1>4. call' = [g EXCEPT ![c][w].verdict = v]
  BY DEF Verdict
<1> HIDE DEF g, r
<1>5. [r EXCEPT !.verdict = v] \in Call
  BY <1>1 DEF Call
<1>6. call' = [g EXCEPT ![c][w] = [r EXCEPT !.verdict = v]]
  BY <1>2, <1>3, <1>4
<1> QED BY <1>3, <1>5, <1>6, OneCell DEF CallsOK

LEMMA EndedType ==
    ASSUME SeatTypeOK, NEW c \in Companies, NEW w \in Callers, Ended(c, w)
    PROVE  CallsOK'
BY OneCell DEF Ended, SeatTypeOK, CallsOK

-----------------------------------------------------------------------------
(* Types. *)

Bounds == /\ billed \in [Companies -> Seats \cup {None}]
          /\ used \in [Companies -> SUBSET Ops]
          /\ old \in [Companies -> BOOLEAN]
          /\ faults \in 0 .. MaxFaults /\ drifts \in 0 .. MaxDrifts

WireOK == wire \in [Companies -> SUBSET Sent]

LEMMA SeatTypeParts == SeatTypeOK <=> TypeOK /\ Bounds /\ CallsOK /\ WireOK
BY DEF SeatTypeOK, Bounds, CallsOK, WireOK

LEMMA FaultyType == FaultsAreBounded /\ faults \in 0 .. MaxFaults /\ Faulty => faults' \in 0 .. MaxFaults
BY DEF Faulty

LEMMA CallerTypes ==
    ASSUME SeatTypeOK, Paired, NEW c \in Companies, NEW w \in Callers,
           \/ Asks(c, w) \/ Settles(c, w) \/ ReadFails(c, w) \/ NoAnswer(c, w) \/ WorkerDies(c, w)
    PROVE  Bounds' /\ CallsOK' /\ WireOK'
<1> USE FaultsAreBounded
<1>1. CASE Asks(c, w)
  <2>1. call[c][w] # None /\ Moved(c, w, "sent")
    BY <1>1 DEF Asks, At
  <2>2. CallsOK'
    BY <2>1, MovedType
  <2>3. [op |-> call[c][w].op, target |-> call[c][w].target, from |-> w, at |-> "waiting"] \in Sent
    BY <2>1, CallFields DEF Sent
  <2>4. WireOK'
    BY <1>1, <2>3 DEF Asks, SeatTypeOK, WireOK
  <2> QED BY <1>1, <2>2, <2>4 DEF Asks, Bounds, SeatTypeOK
<1>2. CASE Settles(c, w) \/ ReadFails(c, w) \/ WorkerDies(c, w)
  <2>1. Ended(c, w) /\ UNCHANGED <<billed, used, wire, old, drifts>> /\ (Faulty \/ UNCHANGED faults)
    BY <1>2 DEF Settles, ReadFails, WorkerDies
  <2>2. CallsOK'
    BY <2>1, EndedType
  <2> QED BY <2>1, <2>2, FaultyType DEF Bounds, WireOK, SeatTypeOK
<1>3. CASE NoAnswer(c, w)
  <2>1. CallsOK'
    BY <1>3, EndedType DEF NoAnswer
  <2>2. \A r \in Sent : [r EXCEPT !.from = None] \in Sent
    BY DEF Sent
  <2>3. {IF r.from = w THEN [r EXCEPT !.from = None] ELSE r : r \in wire[c]} \subseteq Sent
    BY <2>2 DEF SeatTypeOK
  <2>4. WireOK'
    BY <1>3, <2>3 DEF NoAnswer, SeatTypeOK, WireOK
  <2> QED BY <1>3, <2>1, <2>4, FaultyType DEF NoAnswer, Bounds, SeatTypeOK
<1> QED BY <1>1, <1>2, <1>3

\* A request at Stripe that still has a caller is that caller's only one.
Wired ==
    \A c \in Companies : \A r \in wire[c] : r.from # None =>
        /\ call[c][r.from] # None /\ call[c][r.from].at = "sent"
        /\ \A s \in wire[c] : s.from = r.from => s = r

LEMMA AnswersType ==
    ASSUME SeatTypeOK, Wired, NEW c \in Companies, NEW r \in wire[c],
           NEW v \in {"success", "failure"}, Answers(c, r, v)
    PROVE  CallsOK'
<1>1. CASE r.from = None
  BY <1>1 DEF Answers, CallsOK, SeatTypeOK
<1>2. CASE r.from # None
  <2>1. r.from \in Callers /\ call[c][r.from] # None
    BY <1>2 DEF SeatTypeOK, Sent, Wired
  <2> QED BY <1>2, <2>1, VerdictType DEF Answers
<1> QED BY <1>1, <1>2

LEMMA StripeTypes ==
    ASSUME SeatTypeOK, Wired, NEW c \in Companies, StripeStep(c) \/ StripeRefuses(c)
    PROVE  Bounds' /\ CallsOK' /\ WireOK'
<1> USE FaultsAreBounded
<1>1. CASE StripeBegins(c)
  <2>1. PICK r \in wire[c] : wire' = [wire EXCEPT ![c] = (@ \ {r}) \cup {[r EXCEPT !.at = "running"]}]
    BY <1>1 DEF StripeBegins
  <2>2. [r EXCEPT !.at = "running"] \in Sent
    BY DEF Sent, SeatTypeOK
  <2>3. WireOK'
    BY <2>1, <2>2 DEF WireOK, SeatTypeOK
  <2> QED BY <1>1, <2>3 DEF StripeBegins, Bounds, CallsOK, SeatTypeOK
<1>2. CASE StripeExecutes(c)
  <2>1. PICK r \in wire[c] : /\ wire' = [wire EXCEPT ![c] = @ \ {r}]
                             /\ billed' = [billed EXCEPT ![c] = r.target]
                             /\ used' = [used EXCEPT ![c] = @ \cup {r.op}]
                             /\ Answers(c, r, "success")
    BY <1>2 DEF StripeExecutes
  <2>2. r.op \in Ops /\ r.target \in Seats
    BY DEF Sent, SeatTypeOK
  <2>3. CallsOK'
    BY <2>1, AnswersType
  <2>4. WireOK'
    BY <2>1 DEF WireOK, SeatTypeOK
  <2>5. used' \in [Companies -> SUBSET Ops]
    BY <2>1, <2>2 DEF SeatTypeOK
  <2>6. billed' \in [Companies -> Seats \cup {None}]
    BY <2>1, <2>2 DEF SeatTypeOK
  <2> QED BY <1>2, <2>3, <2>4, <2>5, <2>6 DEF StripeExecutes, Bounds, SeatTypeOK
<1>3. ASSUME NEW r \in wire[c], NEW v \in {"success", "failure"},
             wire' = [wire EXCEPT ![c] = @ \ {r}], Answers(c, r, v)
      PROVE  CallsOK' /\ WireOK'
  BY <1>3, AnswersType DEF WireOK, SeatTypeOK
<1>4. CASE StripeReplays(c)
  BY <1>3, <1>4 DEF StripeReplays, Bounds, SeatTypeOK
<1>5. CASE StripeRefuses(c)
  <2>1. PICK r \in wire[c] : wire' = [wire EXCEPT ![c] = @ \ {r}] /\ Answers(c, r, "failure")
                             /\ (Faulty \/ UNCHANGED faults)
    BY <1>5 DEF StripeRefuses
  <2> QED BY <1>3, <1>5, <2>1, FaultyType DEF StripeRefuses, Bounds, SeatTypeOK
<1>6. CASE RequestLost(c)
  <2>1. UNCHANGED <<billed, used, call, old, faults, drifts>> /\ WireOK'
    BY <1>6 DEF RequestLost, WireOK, SeatTypeOK
  <2> QED BY <2>1 DEF Bounds, CallsOK, SeatTypeOK
<1> QED BY <1>1, <1>2, <1>4, <1>5, <1>6 DEF StripeStep

LEMMA SeatTypeStep ==
    ASSUME SeatTypeOK, Wired, Paired, OnePendingChange, [Next]_vars
    PROVE  SeatTypeOK'
<1> USE FaultsAreBounded
<1> DEFINE Own == Bounds' /\ CallsOK' /\ WireOK'
<1>1. TypeOK'
  BY StepsAreCompanySteps, SeatTypeParts, TypeStep
<1>2. ASSUME People PROVE Own
  <2>1. billed' \in [Companies -> Seats \cup {None}]
    <3>1. \A c \in Companies : sub'[c] # None => sub'[c].quantity \in Seats
      BY <1>1 DEF TypeOK, Subscription
    <3> QED BY <1>2, <3>1 DEF People, SeatTypeOK
  <2> QED BY <1>2, <2>1 DEF People, Bounds, CallsOK, WireOK, SeatTypeOK
<1>3. ASSUME NEW c \in Companies, NEW a \in Accounts, NEW q \in Seats, NEW o \in Ops, Reserve(a, c, q, o)
      PROVE  Own
  <2>1. sub[c].quantity \in Seats
    BY <1>3, SubscriptionFields DEF Reserve, ReserveSeatChange, SeatTypeOK, TypeOK
  <2>2. [op |-> o, target |-> q, prev |-> sub[c].quantity, by |-> a, at |-> "read", verdict |-> "none"] \in Call
    BY <2>1 DEF Call
  <2>3. CallsOK'
    BY <1>3, <2>2, OneCell DEF Reserve, CallsOK, SeatTypeOK, Callers
  <2> QED BY <1>3, <2>3 DEF Reserve, Bounds, WireOK, SeatTypeOK
<1>4. ASSUME NEW c \in Companies, NEW o \in Ops, RouteReads(c, o) PROVE Own
  <2>1. call[c][o] # None /\ Moved(c, o, "ask") /\ o \in Callers
    BY <1>4 DEF RouteReads, At, Callers
  <2>2. CallsOK'
    BY <2>1, MovedType
  <2> QED BY <1>4, <2>2 DEF RouteReads, Bounds, WireOK, SeatTypeOK
<1>5. ASSUME NEW c \in Companies, NEW w \in Callers,
             CallerStep(c, w) \/ ReadFails(c, w) \/ NoAnswer(c, w) \/ WorkerDies(c, w)
      PROVE  Own
  BY <1>5, CallerTypes DEF CallerStep
<1>6. ASSUME NEW c \in Companies, StripeStep(c) \/ StripeRefuses(c) PROVE Own
  BY <1>6, StripeTypes
<1>7. ASSUME NEW c \in Companies, CronStarts(c) PROVE Own
  <2>1. sub[c].op \in Ops /\ sub[c].pending \in Seats /\ sub[c].quantity \in Seats
    BY <1>7, SubscriptionFields DEF CronStarts, SeatTypeOK, TypeOK, Paired
  <2>2. [op |-> sub[c].op, target |-> sub[c].pending, prev |-> sub[c].quantity, by |-> None,
         at |-> "read", verdict |-> "none"] \in Call
    BY <2>1 DEF Call
  <2>3. CallsOK'
    BY <1>7, <2>2, OneCell DEF CronStarts, CallsOK, SeatTypeOK, Callers
  <2> QED BY <1>7, <2>3 DEF CronStarts, Bounds, WireOK, SeatTypeOK
<1>8. ASSUME NEW c \in Companies, CronReads(c) PROVE Own
  <2>1. call[c][Cron] # None /\ Cron \in Callers
    BY <1>8 DEF CronReads, At, Callers
  <2>2. \/ Moved(c, Cron, "ask")
        \/ \E v \in {"success", "failure"} : Verdict(c, Cron, v)
    BY <1>8 DEF CronReads, Decision
  <2>3. CallsOK'
    BY <2>1, <2>2, MovedType, VerdictType
  <2> QED BY <1>8, <2>3 DEF CronReads, Bounds, WireOK, SeatTypeOK
<1>9. ASSUME NEW c \in Companies, WindowCloses(c) \/ Dashboard(c) PROVE Own
  <2>1. UNCHANGED <<call, wire, used, faults>>
    BY <1>9 DEF WindowCloses, Dashboard
  <2>2. CASE WindowCloses(c)
    BY <2>1, <2>2 DEF WindowCloses, Bounds, CallsOK, WireOK, SeatTypeOK
  <2>3. CASE Dashboard(c)
    <3>1. drifts' \in 0 .. MaxDrifts
      BY <2>3 DEF Dashboard, SeatTypeOK
    <3>2. billed' \in [Companies -> Seats \cup {None}]
      BY <2>3 DEF Dashboard, SeatTypeOK
    <3> QED BY <2>1, <2>3, <3>1, <3>2 DEF Dashboard, Bounds, CallsOK, WireOK, SeatTypeOK
  <2> QED BY <1>9, <2>2, <2>3
<1>10. ASSUME UNCHANGED vars PROVE Own
  BY <1>10 DEF vars, seatVars, Bounds, CallsOK, WireOK, SeatTypeOK
<1> HIDE DEF Own
<1>11. Own
  BY <1>2, <1>3, <1>4, <1>5, <1>6, <1>7, <1>8, <1>9, <1>10 DEF Next
<1> QED BY <1>1, <1>11 DEF Own, SeatTypeOK, Bounds, CallsOK, WireOK

-----------------------------------------------------------------------------
(* Callers and their requests. *)

\* A route that is under way has an operation.
Begun == \A c \in Companies, o \in Ops : call[c][o] # None => op[c][o] # "unused"

LEMMA WiredKept ==
    ASSUME SeatTypeOK, Wired, UNCHANGED wire,
           \A c \in Companies, w \in Callers :
              call'[c][w] = call[c][w] \/ call[c][w] = None \/ call[c][w].at # "sent"
    PROVE  Wired'
<1>1. \A c \in Companies : \A r \in wire[c] : r.from # None => r.from \in Callers
  BY DEF SeatTypeOK, Sent
<1> QED BY <1>1 DEF Wired

LEMMA AnswersWired ==
    ASSUME SeatTypeOK, Wired, NEW c \in Companies, NEW r \in wire[c],
           NEW v \in {"success", "failure"}, Answers(c, r, v),
           wire' = [wire EXCEPT ![c] = @ \ {r}]
    PROVE  Wired'
<1>1. /\ wire'[c] = wire[c] \ {r} /\ \A d \in Companies \ {c} : wire'[d] = wire[d]
  BY DEF SeatTypeOK
<1>2. \A d \in Companies, w \in Callers : d # c \/ r.from = None \/ w # r.from => call'[d][w] = call[d][w]
  BY DEF Answers, Verdict, SeatTypeOK
<1>3. \A d \in Companies : \A s \in wire[d] : s.from # None => s.from \in Callers
  BY DEF SeatTypeOK, Sent
<1>4. \A s \in wire'[c] : s.from # None => s.from # r.from
  BY <1>1 DEF Wired
<1> SUFFICES ASSUME NEW d \in Companies, NEW s \in wire'[d], s.from # None
             PROVE  /\ call'[d][s.from] # None /\ call'[d][s.from].at = "sent"
                    /\ \A t \in wire'[d] : t.from = s.from => t = s
  BY DEF Wired
<1>5. s \in wire[d] /\ wire'[d] \subseteq wire[d]
  BY <1>1
<1>6. call'[d][s.from] = call[d][s.from]
  BY <1>2, <1>3, <1>4, <1>5
<1> QED BY <1>5, <1>6 DEF Wired

\* An operation that was used stays used.
LEMMA StaysUsed ==
    ASSUME TypeOK, [CompanyNext]_companyVars, NEW c \in Companies, NEW o \in Ops, op[c][o] # "unused"
    PROVE  op'[c][o] # "unused"
<1>1. CASE SeatNext
  <2>1. ASSUME NEW d \in Companies, NEW p \in Ops, NEW v \in {"pending", "succeeded", "failed"},
               op' = [op EXCEPT ![d][p] = v]
        PROVE  op'[c][o] # "unused"
    BY <2>1 DEF TypeOK
  <2>2. ASSUME NEW d \in Companies, NEW p \in Ops, SettleSeatChange(d, p) \/ ReleaseSeatChange(d, p)
        PROVE  op'[c][o] # "unused"
    BY <2>1, <2>2 DEF SettleSeatChange, ReleaseSeatChange
  <2>3. ASSUME NEW d \in Companies, NEW p \in Ops, NEW a \in Accounts, NEW q \in Seats,
               ReserveSeatChange(a, d, q, p)
        PROVE  op'[c][o] # "unused"
    BY <2>1, <2>3 DEF ReserveSeatChange
  <2> QED BY <1>1, <2>2, <2>3 DEF SeatNext
<1>2. Bills => op' = op
  BY DEF Bills, InvoiceSettled, FirstPaid, SubscriptionState
<1> QED BY <1>1, <1>2, SubSteps

\* Only a reservation puts a route under way.
LEMMA NoNewRoute ==
    ASSUME SeatTypeOK, Wired, [Next]_vars, NEW c \in Companies, NEW o \in Ops,
           call[c][o] = None, call'[c][o] # None
    PROVE  \E a \in Accounts, q \in Seats : Reserve(a, c, q, o)
<1> DEFINE Goal == \E a \in Accounts, q \in Seats : Reserve(a, c, q, o)
<1> USE DEF SeatTypeOK
<1>1. o \in Callers /\ o # Cron
  BY CronIsNoOperation DEF Callers
<1>2. ASSUME NEW d \in Companies, NEW w \in Callers, call[d][w] # None \/ w = Cron,
             NEW k, call' = [call EXCEPT ![d][w] = k]
      PROVE  FALSE
  BY <1>1, <1>2
<1>3. ASSUME NEW d \in Companies, NEW w \in Callers, call[d][w] # None,
             \/ \E p \in {"ask", "sent"} : Moved(d, w, p)
             \/ Ended(d, w)
             \/ \E v \in {"success", "failure"} : Verdict(d, w, v)
      PROVE  FALSE
  BY <1>1, <1>3 DEF Moved, Ended, Verdict
<1>4. ASSUME NEW d \in Companies, NEW r \in wire[d], NEW v \in {"success", "failure"}, Answers(d, r, v)
      PROVE  FALSE
  <2>1. r.from # None => r.from \in Callers /\ call[d][r.from] # None
    BY DEF Sent, Wired
  <2> QED BY <1>3, <1>4, <2>1 DEF Answers
<1>5. ASSUME UNCHANGED call PROVE FALSE
  BY <1>5
<1>6. ASSUME NEW d \in Companies, NEW a \in Accounts, NEW q \in Seats, NEW p \in Ops, Reserve(a, d, q, p)
      PROVE  Goal
  <2>1. \E k : call' = [call EXCEPT ![d][p] = k]
    BY <1>6 DEF Reserve
  <2>2. d = c /\ p = o
    BY <1>1, <2>1
  <2> QED BY <1>6, <2>2
<1>7. ASSUME NEW d \in Companies, NEW p \in Ops, RouteReads(d, p) PROVE FALSE
  BY <1>3, <1>7 DEF RouteReads, At, Callers
<1>8. ASSUME NEW d \in Companies, NEW w \in Callers,
             Asks(d, w) \/ Settles(d, w) \/ ReadFails(d, w) \/ NoAnswer(d, w) \/ WorkerDies(d, w)
      PROVE  FALSE
  <2>1. call[d][w] # None /\ (Ended(d, w) \/ Moved(d, w, "sent"))
    BY <1>8 DEF Asks, Settles, ReadFails, NoAnswer, WorkerDies, At
  <2> QED BY <1>3, <2>1
<1>9. ASSUME NEW d \in Companies, CronStarts(d) PROVE FALSE
  <2>1. \E k : call' = [call EXCEPT ![d][Cron] = k]
    BY <1>9 DEF CronStarts
  <2> QED BY <1>2, <2>1 DEF Callers
<1>10. ASSUME NEW d \in Companies, CronReads(d) PROVE FALSE
  <2>1. /\ call[d][Cron] # None /\ Cron \in Callers
        /\ Moved(d, Cron, "ask") \/ \E v \in {"success", "failure"} : Verdict(d, Cron, v)
    BY <1>10 DEF CronReads, At, Callers, Decision
  <2> QED BY <1>3, <2>1
<1>11. ASSUME NEW d \in Companies,
              \/ StripeBegins(d) \/ RequestLost(d) \/ WindowCloses(d) \/ Dashboard(d) \/ People
              \/ UNCHANGED vars
       PROVE  FALSE
  BY <1>5, <1>11 DEF StripeBegins, RequestLost, WindowCloses, Dashboard, People, vars, seatVars
<1>12. ASSUME NEW d \in Companies, StripeExecutes(d) \/ StripeReplays(d) \/ StripeRefuses(d)
       PROVE  FALSE
  <2>1. \E r \in wire[d], v \in {"success", "failure"} : Answers(d, r, v)
    BY <1>12 DEF StripeExecutes, StripeReplays, StripeRefuses
  <2> QED BY <1>4, <2>1
<1> HIDE DEF Goal
<1>13. Goal
  BY <1>6, <1>7, <1>8, <1>9, <1>10, <1>11, <1>12 DEF Next, CallerStep, StripeStep
<1> QED BY <1>13 DEF Goal

LEMMA BegunStep == SeatTypeOK /\ Wired /\ Begun /\ [Next]_vars => Begun'
<1> SUFFICES ASSUME SeatTypeOK, Wired, Begun, [Next]_vars, NEW c \in Companies, NEW o \in Ops,
                    call'[c][o] # None
             PROVE  op'[c][o] # "unused"
  BY DEF Begun
<1>1. TypeOK /\ [CompanyNext]_companyVars
  BY StepsAreCompanySteps, SeatTypeParts
<1>2. CASE call[c][o] # None
  BY <1>1, <1>2, StaysUsed DEF Begun
<1>3. CASE call[c][o] = None
  <2>1. PICK a \in Accounts, q \in Seats : Reserve(a, c, q, o)
    BY <1>3, NoNewRoute
  <2>2. op' = [op EXCEPT ![c][o] = "pending"]
    BY <2>1 DEF Reserve, ReserveSeatChange
  <2> QED BY <1>1, <2>2 DEF TypeOK
<1> QED BY <1>2, <1>3

LEMMA WiredStep ==
    ASSUME SeatTypeOK, Wired, Begun, [Next]_vars PROVE Wired'
<1> DEFINE Goal == Wired'
<1>1. ASSUME NEW d \in Companies, NEW w \in Callers, call[d][w] = None \/ call[d][w].at # "sent",
             UNCHANGED wire, NEW k, call' = [call EXCEPT ![d][w] = k]
      PROVE  Goal
  <2>1. \A c \in Companies, x \in Callers : c # d \/ x # w => call'[c][x] = call[c][x]
    BY <1>1 DEF SeatTypeOK
  <2> QED BY <1>1, <2>1, WiredKept
<1>2. ASSUME UNCHANGED <<wire, call>> PROVE Goal
  BY <1>2, WiredKept
<1>3. ASSUME NEW d \in Companies, NEW w \in Callers, call[d][w] # None, call[d][w].at # "sent",
             UNCHANGED wire,
             \/ Moved(d, w, "ask") \/ Ended(d, w)
             \/ \E v \in {"success", "failure"} : Verdict(d, w, v)
      PROVE  Goal
  <2>1. \A c \in Companies, x \in Callers : c # d \/ x # w => call'[c][x] = call[c][x]
    BY <1>3 DEF Moved, Ended, Verdict, SeatTypeOK
  <2> QED BY <1>3, <2>1, WiredKept
<1>4. ASSUME NEW d \in Companies, NEW r \in wire[d], NEW v \in {"success", "failure"},
             Answers(d, r, v), wire' = [wire EXCEPT ![d] = @ \ {r}]
      PROVE  Goal
  BY <1>4, AnswersWired
<1>5. ASSUME NEW d \in Companies, NEW a \in Accounts, NEW q \in Seats, NEW o \in Ops, Reserve(a, d, q, o)
      PROVE  Goal
  <2>1. call[d][o] = None
    BY <1>5 DEF Reserve, ReserveSeatChange, Begun
  <2>2. UNCHANGED wire /\ \E k : call' = [call EXCEPT ![d][o] = k]
    BY <1>5 DEF Reserve
  <2> QED BY <1>1, <2>1, <2>2 DEF Callers
<1>6. ASSUME NEW d \in Companies, CronStarts(d) PROVE Goal
  <2>1. call[d][Cron] = None /\ UNCHANGED wire /\ \E k : call' = [call EXCEPT ![d][Cron] = k]
    BY <1>6 DEF CronStarts
  <2> QED BY <1>1, <2>1 DEF Callers
<1>7. ASSUME NEW d \in Companies, NEW o \in Ops, RouteReads(d, o) PROVE Goal
  BY <1>3, <1>7 DEF RouteReads, At, Callers
<1>8. ASSUME NEW d \in Companies, CronReads(d) PROVE Goal
  <2>1. /\ call[d][Cron] # None /\ call[d][Cron].at # "sent" /\ Cron \in Callers /\ UNCHANGED wire
        /\ Moved(d, Cron, "ask") \/ \E v \in {"success", "failure"} : Verdict(d, Cron, v)
    BY <1>8 DEF CronReads, At, Callers, Decision
  <2> QED BY <1>3, <2>1
<1>9. ASSUME NEW d \in Companies, NEW w \in Callers,
             Settles(d, w) \/ ReadFails(d, w) \/ WorkerDies(d, w)
      PROVE  Goal
  <2>1. call[d][w] # None /\ call[d][w].at # "sent" /\ UNCHANGED wire /\ Ended(d, w)
    BY <1>9 DEF Settles, ReadFails, WorkerDies, At
  <2> QED BY <1>3, <2>1
<1>10. ASSUME NEW d \in Companies,
              WindowCloses(d) \/ Dashboard(d)
       PROVE  Goal
  BY <1>2, <1>10 DEF WindowCloses, Dashboard
<1>11. ASSUME NEW d \in Companies, StripeExecutes(d) \/ StripeReplays(d) \/ StripeRefuses(d)
       PROVE  Goal
  <2>1. \E r \in wire[d], v \in {"success", "failure"} :
          Answers(d, r, v) /\ wire' = [wire EXCEPT ![d] = @ \ {r}]
    BY <1>11 DEF StripeExecutes, StripeReplays, StripeRefuses
  <2> QED BY <1>4, <2>1
<1>12. ASSUME NEW d \in Companies, NEW w \in Callers, Asks(d, w) PROVE Goal
  <2> DEFINE n == [op |-> call[d][w].op, target |-> call[d][w].target, from |-> w, at |-> "waiting"]
  <2>1. /\ call[d][w] # None /\ call[d][w].at = "ask"
        /\ call' = [call EXCEPT ![d][w].at = "sent"] /\ wire' = [wire EXCEPT ![d] = @ \cup {n}]
    BY <1>12 DEF Asks, At, Moved
  <2>2. n.from = w
    OBVIOUS
  <2> HIDE DEF n
  <2>3. /\ wire'[d] = wire[d] \cup {n} /\ \A c \in Companies \ {d} : wire'[c] = wire[c]
        /\ call'[d][w] = [call[d][w] EXCEPT !.at = "sent"]
        /\ \A c \in Companies, x \in Callers : c # d \/ x # w => call'[c][x] = call[c][x]
    BY <2>1 DEF SeatTypeOK
  <2>4. call'[d][w] # None /\ call'[d][w].at = "sent"
    <3>1. call[d][w] \in Call
      BY <2>1, CallFields
    <3>2. call'[d][w] \in Call
      BY <2>3, <3>1 DEF Call
    <3>3. call'[d][w].at = "sent"
      BY <2>3, <3>1 DEF Call
    <3> QED BY <3>2, <3>3, NoneIsNoCall
  <2>5. \A r \in wire[d] : r.from # w
    <3>1. w # None
      BY NoneIsNothing, CronIsNoOperation DEF Callers
    <3> QED BY <2>1, <3>1 DEF Wired
  <2>6. \A c \in Companies : \A r \in wire[c] : r.from # None => r.from \in Callers
    BY DEF SeatTypeOK, Sent
  <2> SUFFICES ASSUME NEW c \in Companies, NEW s \in wire'[c], s.from # None
               PROVE  /\ call'[c][s.from] # None /\ call'[c][s.from].at = "sent"
                      /\ \A t \in wire'[c] : t.from = s.from => t = s
    BY DEF Wired
  <2>7. CASE c = d /\ s = n
    BY <2>2, <2>3, <2>4, <2>5, <2>7
  <2>8. CASE ~(c = d /\ s = n)
    <3>1. s \in wire[c]
      BY <2>3, <2>8
    <3>2. c # d \/ s.from # w
      BY <2>5, <3>1
    <3> QED BY <2>2, <2>3, <2>6, <3>1, <3>2 DEF Wired
  <2> QED BY <2>7, <2>8
<1>13. ASSUME NEW d \in Companies, NEW w \in Callers, NoAnswer(d, w) PROVE Goal
  <2>1. /\ wire' = [wire EXCEPT ![d] = {IF r.from = w THEN [r EXCEPT !.from = None] ELSE r : r \in @}]
        /\ call' = [call EXCEPT ![d][w] = None]
    BY <1>13 DEF NoAnswer, Ended
  <2>2. /\ \A c \in Companies \ {d} : wire'[c] = wire[c]
        /\ \A c \in Companies, x \in Callers : c # d \/ x # w => call'[c][x] = call[c][x]
    BY <2>1 DEF SeatTypeOK
  <2>3. \A s \in wire'[d] : s.from # None => s \in wire[d] /\ s.from # w
    <3>1. wire'[d] = {IF r.from = w THEN [r EXCEPT !.from = None] ELSE r : r \in wire[d]}
      BY <2>1 DEF SeatTypeOK
    <3>2. \A r \in wire[d] : [r EXCEPT !.from = None].from = None
      BY DEF SeatTypeOK, Sent
    <3> QED BY <3>1, <3>2
  <2>4. \A c \in Companies : \A r \in wire[c] : r.from # None => r.from \in Callers
    BY DEF SeatTypeOK, Sent
  <2> SUFFICES ASSUME NEW c \in Companies, NEW s \in wire'[c], s.from # None
               PROVE  /\ call'[c][s.from] # None /\ call'[c][s.from].at = "sent"
                      /\ \A t \in wire'[c] : t.from = s.from => t = s
    BY DEF Wired
  <2>5. s \in wire[c] /\ (c # d \/ s.from # w)
    BY <2>2, <2>3
  <2>6. \A t \in wire'[c] : t.from = s.from => t \in wire[c]
    BY <2>2, <2>3
  <2> QED BY <2>2, <2>4, <2>5, <2>6 DEF Wired
<1>14. ASSUME NEW d \in Companies, StripeBegins(d) PROVE Goal
  <2>1. PICK r \in wire[d] : /\ wire' = [wire EXCEPT ![d] = (@ \ {r}) \cup {[r EXCEPT !.at = "running"]}]
                             /\ UNCHANGED call
    BY <1>14 DEF StripeBegins
  <2> DEFINE n == [r EXCEPT !.at = "running"]
  <2>2. n.from = r.from
    BY DEF SeatTypeOK, Sent
  <2>3. wire' = [wire EXCEPT ![d] = (@ \ {r}) \cup {n}]
    BY <2>1
  <2> HIDE DEF n
  <2>4. wire'[d] = (wire[d] \ {r}) \cup {n} /\ \A c \in Companies \ {d} : wire'[c] = wire[c]
    BY <2>3 DEF SeatTypeOK
  <2> QED BY <2>1, <2>2, <2>4 DEF Wired
<1>15. ASSUME NEW d \in Companies, RequestLost(d) PROVE Goal
  <2>1. PICK r \in wire[d] : /\ r.from = None /\ wire' = [wire EXCEPT ![d] = @ \ {r}] /\ UNCHANGED call
    BY <1>15 DEF RequestLost
  <2>2. Answers(d, r, "success")
    BY <2>1 DEF Answers
  <2> QED BY <1>4, <2>1, <2>2
<1> HIDE DEF Goal
<1>16. ASSUME Next PROVE Goal
  <2>1. CASE People
    BY <1>2, <2>1 DEF People
  <2> QED
    BY <1>5, <1>6, <1>7, <1>8, <1>9, <1>10, <1>11, <1>12, <1>13, <1>14, <1>15, <1>16, <2>1
    DEF Next, CallerStep, StripeStep
<1>17. ASSUME UNCHANGED vars PROVE Goal
  BY <1>2, <1>17 DEF vars, seatVars
<1> QED BY <1>16, <1>17 DEF Goal

-----------------------------------------------------------------------------
(* Together. *)

Kept == Sound /\ SeatTypeOK /\ Wired /\ Begun

LEMMA KeptInit == Init => Kept
<1> SUFFICES ASSUME Init PROVE Kept
  OBVIOUS
<1> USE DEF Init
<1>1. Sound /\ TypeOK
  BY SoundInit DEF Sound
<1>2. SeatTypeOK
  BY <1>1, FaultsAreBounded DEF SeatTypeOK
<1>3. Wired /\ Begun
  BY DEF Wired, Begun, Callers
<1> QED BY <1>1, <1>2, <1>3 DEF Kept

LEMMA KeptStep == Kept /\ [Next]_vars => Kept'
<1> SUFFICES ASSUME Kept, [Next]_vars PROVE Kept'
  OBVIOUS
<1> USE DEF Kept
<1>1. CallsOK
  BY SeatTypeParts
<1>2. Sound'
  BY <1>1, StepsAreCompanySteps, SoundStep
<1>3. SeatTypeOK'
  BY SeatTypeStep DEF Sound
<1>4. Wired' /\ Begun'
  BY WiredStep, BegunStep
<1> QED BY <1>2, <1>3, <1>4

LEMMA AlwaysKept == Spec => []Kept
BY KeptInit, KeptStep, PTL DEF Spec

\* The callers and Stripe keep to their shapes: an answer reaches a caller
\* that waits, and no caller waits for two.
THEOREM CallersKeepTheirTypes == Spec => []SeatTypeOK
<1>1. Kept => SeatTypeOK
  BY DEF Kept
<1> QED BY <1>1, AlwaysKept, PTL

\* Reservations, retries, lost answers and refusals do nothing to the object
\* that Company does not allow: the composition implements Company.
THEOREM ImplementsCompany == Spec => CompanySpec
<1>1. Kept => CallsOK
  BY SeatTypeParts DEF Kept
<1>2. Init => CompanyInit
  BY DEF Init
<1> QED BY <1>1, <1>2, StepsAreCompanySteps, AlwaysKept, PTL DEF Spec, CompanySpec

\* Seats are not oversold while a change is carried out at Stripe.
THEOREM SeatsFitWhileTheyChange == Spec => []SeatsNeverOversold
BY ImplementsCompany, SeatsAreNeverOversold, PTL

-----------------------------------------------------------------------------
(* One caller at a time. *)

\* Without an earlier call that is still alive, one caller at a time looks after
\* the company's pending change, with at most one request, and what it is about
\* to settle is what Stripe bills.
Looks(c, w) ==
    /\ call[c][w].op = sub[c].op /\ call[c][w].target = sub[c].pending
    /\ \A x \in Callers : call[c][x] # None => x = w
    /\ \A r \in wire[c] : r.from = w /\ call[c][w].at = "sent"

Asked(c, r) ==
    /\ r.op = sub[c].op /\ r.target = sub[c].pending
    /\ \A s \in wire[c] : s = r
    /\ r.at = "running" => r.op \notin used[c]

Knows(c, k) ==
    k.at = "settle" => IF k.verdict = "success" THEN k.op \in used[c] \/ billed[c] = k.target
                       ELSE k.op \notin used[c] \/ billed[c] # k.target

Calm(c) ==
    /\ sub[c] = None \/ sub[c].op = None => Quiet(c)
    /\ \A w \in Callers : call[c][w] # None => Looks(c, w) /\ Knows(c, call[c][w])
    /\ \A r \in wire[c] : Asked(c, r)
    /\ \A o \in used[c] : op[c][o] # "unused"

LEMMA MovedEffect ==
    ASSUME SeatTypeOK, NEW c \in Companies, NEW w \in Callers, call[c][w] # None,
           NEW p \in {"read", "ask", "sent", "settle"}, Moved(c, w, p)
    PROVE  /\ call'[c][w] # None /\ call'[c][w].op = call[c][w].op
           /\ call'[c][w].target = call[c][w].target /\ call'[c][w].at = p
           /\ \A d \in Companies, x \in Callers : d # c \/ x # w => call'[d][x] = call[d][x]
<1>1. call[c][w] \in Call
  BY CallFields
<1>2. /\ call'[c][w] = [call[c][w] EXCEPT !.at = p]
      /\ \A d \in Companies, x \in Callers : d # c \/ x # w => call'[d][x] = call[d][x]
  BY DEF Moved, SeatTypeOK
<1>3. call'[c][w] \in Call
  BY <1>1, <1>2 DEF Call
<1>4. /\ call'[c][w].op = call[c][w].op /\ call'[c][w].target = call[c][w].target
      /\ call'[c][w].at = p
  BY <1>1, <1>2 DEF Call
<1> QED BY <1>2, <1>3, <1>4, NoneIsNoCall

LEMMA VerdictEffect ==
    ASSUME SeatTypeOK, NEW c \in Companies, NEW w \in Callers, call[c][w] # None,
           NEW v \in {"success", "failure"}, Verdict(c, w, v)
    PROVE  /\ call'[c][w] # None /\ call'[c][w].op = call[c][w].op
           /\ call'[c][w].target = call[c][w].target
           /\ call'[c][w].at = "settle" /\ call'[c][w].verdict = v
           /\ \A d \in Companies, x \in Callers : d # c \/ x # w => call'[d][x] = call[d][x]
<1> DEFINE r == [call[c][w] EXCEPT !.at = "settle"]
           g == [call EXCEPT ![c][w].at = "settle"]
<1>1. call[c][w] \in Call /\ r \in Call
  BY CallFields DEF Call
<1>2. /\ r.op = call[c][w].op /\ r.target = call[c][w].target /\ r.at = "settle"
  BY <1>1 DEF Call
<1>3. /\ g[c][w] = r /\ g \in [Companies -> [Callers -> Call \cup {None}]]
      /\ \A d \in Companies, x \in Callers : d # c \/ x # w => g[d][x] = call[d][x]
  <2>1. g = [call EXCEPT ![c][w] = r] /\ g[c][w] = r
    BY DEF SeatTypeOK
  <2>2. g \in [Companies -> [Callers -> Call \cup {None}]]
    BY <1>1, <2>1, OneCell DEF SeatTypeOK
  <2>3. \A d \in Companies, x \in Callers : d # c \/ x # w => g[d][x] = call[d][x]
    BY DEF SeatTypeOK
  <2> QED BY <2>1, <2>2, <2>3
<1>4. call' = [g EXCEPT ![c][w].verdict = v]
  BY DEF Verdict
<1> HIDE DEF g, r
<1>5. /\ call'[c][w] = [r EXCEPT !.verdict = v]
      /\ \A d \in Companies, x \in Callers : d # c \/ x # w => call'[d][x] = call[d][x]
  BY <1>3, <1>4
<1>6. call'[c][w] \in Call
  BY <1>1, <1>5 DEF Call
<1>7. /\ call'[c][w].op = r.op /\ call'[c][w].target = r.target
      /\ call'[c][w].at = "settle" /\ call'[c][w].verdict = v
  BY <1>1, <1>2, <1>5 DEF Call
<1> QED BY <1>2, <1>5, <1>6, <1>7, NoneIsNoCall

LEMMA EndedEffect ==
    ASSUME SeatTypeOK, NEW c \in Companies, NEW w \in Callers, Ended(c, w)
    PROVE  /\ call'[c][w] = None
           /\ \A d \in Companies, x \in Callers : d # c \/ x # w => call'[d][x] = call[d][x]
BY DEF Ended, SeatTypeOK

\* A company whose rows, callers and requests stay.
LEMMA CalmElsewhere ==
    ASSUME SeatTypeOK, NEW d \in Companies, Calm(d),
           sub'[d] = sub[d], wire'[d] = wire[d], used'[d] = used[d], billed'[d] = billed[d],
           \A x \in Callers : call'[d][x] = call[d][x],
           \A o \in Ops : op[d][o] # "unused" => op'[d][o] # "unused"
    PROVE  Calm(d)'
<1>1. used[d] \subseteq Ops
  BY DEF SeatTypeOK
<1>2. (sub[d] = None \/ sub[d].op = None => Quiet(d))'
  BY DEF Calm, Quiet
<1>3. \A w \in Callers : call'[d][w] # None => Looks(d, w)'
  BY DEF Calm, Looks
<1>4. \A w \in Callers : call'[d][w] # None => Knows(d, call[d][w])'
  BY DEF Calm, Knows
<1>5. \A r \in wire'[d] : Asked(d, r)'
  BY DEF Calm, Asked
<1>6. \A o \in used'[d] : op'[d][o] # "unused"
  BY <1>1 DEF Calm
<1> QED BY <1>2, <1>3, <1>4, <1>5, <1>6 DEF Calm

\* Nobody looks after the company any more, and nothing is at Stripe.
LEMMA CalmQuiet ==
    ASSUME NEW c \in Companies, \A x \in Callers : call'[c][x] = None, wire'[c] = {},
           \A o \in used'[c] : op'[c][o] # "unused"
    PROVE  Calm(c)'
BY DEF Calm, Quiet

LEMMA CalmFacts ==
    ASSUME SeatTypeOK, Sound, NEW c \in Companies, Calm(c)
    PROVE  /\ \A w \in Callers : call[c][w] # None =>
                /\ sub[c] # None /\ sub[c].op # None
                /\ \A x \in Callers \ {w} : call[c][x] = None
                /\ call[c][w].at # "sent" => wire[c] = {}
           /\ \A r \in wire[c] :
                /\ sub[c] # None /\ sub[c].op = r.op /\ sub[c].pending = r.target
                /\ r.op \in Ops /\ op[c][r.op] = "pending"
                /\ \A s \in wire[c] : s = r
                /\ \A w \in Callers : call[c][w] # None => w = r.from
<1>1. ASSUME NEW w \in Callers, call[c][w] # None
      PROVE  /\ sub[c] # None /\ sub[c].op # None
             /\ \A x \in Callers \ {w} : call[c][x] = None
             /\ call[c][w].at # "sent" => wire[c] = {}
  BY <1>1 DEF Calm, Quiet, Looks
<1>2. ASSUME NEW r \in wire[c]
      PROVE  /\ sub[c] # None /\ sub[c].op = r.op /\ sub[c].pending = r.target
             /\ r.op \in Ops /\ op[c][r.op] = "pending"
             /\ \A s \in wire[c] : s = r
             /\ \A w \in Callers : call[c][w] # None => w = r.from
  <2>1. sub[c] # None /\ sub[c].op = r.op /\ sub[c].pending = r.target /\ \A s \in wire[c] : s = r
    BY <1>2 DEF Calm, Quiet, Asked
  <2>2. r.op \in Ops /\ r.target \in Seats /\ r.target # None
    BY NoneIsNothing DEF SeatTypeOK, Sent
  <2>3. op[c][r.op] = "pending"
    BY <2>1, <2>2 DEF Sound, OnePendingChange
  <2>4. \A w \in Callers : call[c][w] # None => w = r.from
    BY DEF Calm, Looks
  <2> QED BY <2>1, <2>2, <2>3, <2>4
<1> QED BY <1>1, <1>2

\* The only caller moves on before it has asked.
LEMMA CalmMoved ==
    ASSUME SeatTypeOK, Sound, NEW c \in Companies, NEW w \in Callers, Calm(c),
           call[c][w] # None, call[c][w].at # "sent", Moved(c, w, "ask"),
           UNCHANGED <<sub, wire, used, billed, op>>
    PROVE  Calm(c)'
<1>1. /\ call'[c][w] # None /\ call'[c][w].op = call[c][w].op
      /\ call'[c][w].target = call[c][w].target /\ call'[c][w].at = "ask"
      /\ \A x \in Callers : x # w => call'[c][x] = call[c][x]
  BY MovedEffect
<1>2. /\ sub[c] # None /\ sub[c].op # None /\ wire[c] = {}
      /\ \A x \in Callers \ {w} : call[c][x] = None
  BY CalmFacts
<1>3. call[c][w].op = sub[c].op /\ call[c][w].target = sub[c].pending
  BY DEF Calm, Looks
<1>4. Looks(c, w)'
  BY <1>1, <1>2, <1>3 DEF Looks
<1>5. Knows(c, call[c][w])'
  BY <1>1 DEF Knows
<1> QED BY <1>1, <1>2, <1>4, <1>5 DEF Calm

\* The only caller gets its verdict, and has no request at Stripe.
LEMMA CalmVerdict ==
    ASSUME SeatTypeOK, Sound, NEW c \in Companies, NEW w \in Callers, Calm(c),
           call[c][w] # None, NEW v \in {"success", "failure"}, Verdict(c, w, v),
           wire'[c] = {}, UNCHANGED <<sub, op>>, \A o \in used'[c] : op[c][o] # "unused",
           IF v = "success" THEN call[c][w].op \in used'[c] \/ billed'[c] = call[c][w].target
           ELSE call[c][w].op \notin used'[c] \/ billed'[c] # call[c][w].target
    PROVE  Calm(c)'
<1>1. /\ call'[c][w] # None /\ call'[c][w].op = call[c][w].op
      /\ call'[c][w].target = call[c][w].target
      /\ call'[c][w].at = "settle" /\ call'[c][w].verdict = v
      /\ \A x \in Callers : x # w => call'[c][x] = call[c][x]
  BY VerdictEffect
<1>2. sub[c] # None /\ sub[c].op # None /\ \A x \in Callers \ {w} : call[c][x] = None
  BY CalmFacts
<1>3. call[c][w].op = sub[c].op /\ call[c][w].target = sub[c].pending
  BY DEF Calm, Looks
<1>4. Looks(c, w)'
  BY <1>1, <1>2, <1>3 DEF Looks
<1>5. Knows(c, call[c][w])'
  BY <1>1 DEF Knows
<1> QED BY <1>1, <1>2, <1>4, <1>5 DEF Calm

LEMMA CalmAnswered ==
    ASSUME SeatTypeOK, Sound, Wired, NEW c \in Companies, Calm(c), NEW r \in wire[c],
           NEW v \in {"success", "failure"}, Answers(c, r, v),
           wire' = [wire EXCEPT ![c] = @ \ {r}], UNCHANGED <<sub, op>>,
           \A o \in used'[c] : op[c][o] # "unused",
           IF v = "success" THEN r.op \in used'[c] ELSE r.op \notin used'[c]
    PROVE  Calm(c)' /\ \A d \in Companies \ {c} : wire'[d] = wire[d] /\ \A x \in Callers : call'[d][x] = call[d][x]
<1>1. wire'[c] = {} /\ \A d \in Companies \ {c} : wire'[d] = wire[d]
  BY CalmFacts DEF SeatTypeOK
<1>2. CASE r.from = None
  <2>1. call' = call
    BY <1>2 DEF Answers
  <2>2. \A x \in Callers : call[c][x] = None
    BY <1>2, CalmFacts, CronIsNoOperation, NoneIsNothing DEF Callers
  <2> QED BY <1>1, <2>1, <2>2, CalmQuiet
<1>3. CASE r.from # None
  <2> DEFINE w == r.from
  <2>1. w \in Callers /\ call[c][w] # None /\ Verdict(c, w, v)
    BY <1>3 DEF SeatTypeOK, Sent, Wired, Answers
  <2>2. call[c][w].op = r.op
    BY <2>1, CalmFacts DEF Calm, Looks
  <2>3. IF v = "success" THEN call[c][w].op \in used'[c] \/ billed'[c] = call[c][w].target
        ELSE call[c][w].op \notin used'[c] \/ billed'[c] # call[c][w].target
    BY <2>2
  <2> HIDE DEF w
  <2>4. Calm(c)'
    BY <1>1, <2>1, <2>3, CalmVerdict
  <2> QED BY <1>1, <2>1, <2>4, VerdictEffect
<1> QED BY <1>2, <1>3

\* What people do to a subscription: it is made, or keeps its seats.
SubArrives(c) == /\ sub[c] = None /\ sub'[c] # None /\ sub'[c].op = None
                 /\ sub'[c].pending = None /\ sub'[c].quantity \in Seats

SubStays(c) == /\ sub[c] = None <=> sub'[c] = None
               /\ sub[c] # None => /\ sub'[c].op = sub[c].op /\ sub'[c].pending = sub[c].pending
                                   /\ sub'[c].quantity = sub[c].quantity

LEMMA PeopleEffect ==
    ASSUME TypeOK, PeopleNext
    PROVE  /\ op' = op
           /\ \/ \A c \in Companies : SubStays(c)
              \/ \E d \in Companies : SubArrives(d) /\ \A c \in Companies \ {d} : SubStays(c)
<1> DEFINE Goal == /\ op' = op
                   /\ \/ \A c \in Companies : SubStays(c)
                      \/ \E d \in Companies : SubArrives(d) /\ \A c \in Companies \ {d} : SubStays(c)
<1>1. ASSUME NEW d \in Companies,
             InvoiceSettled(d) \/ FirstPaid(d) \/ \E st \in Statuses : SubscriptionState(d, st)
      PROVE  Goal
  <2>1. \A c \in Companies \ {d} : SubStays(c)
    BY <1>1, BillsEffect DEF SubStays
  <2>2. op' = op /\ sub'[d] \in Subscription
    BY <1>1, BillsEffect
  <2>3. /\ sub[d] = None => sub'[d].op = None /\ sub'[d].pending = None
        /\ sub[d] # None => /\ sub'[d].op = sub[d].op /\ sub'[d].pending = sub[d].pending
                            /\ sub'[d].quantity = sub[d].quantity
    BY <1>1, BillsEffect
  <2>4. SubStays(d) \/ SubArrives(d)
    BY <2>2, <2>3, SubscriptionFields DEF SubStays, SubArrives
  <2> QED BY <2>1, <2>2, <2>4
<1>2. ASSUME UNCHANGED <<sub, op>> PROVE Goal
  BY <1>2 DEF SubStays
<1> HIDE DEF Goal
<1>3. ASSUME NEW a \in Accounts,
             AskCreate(a) \/ CreateCompany(a) \/ MintInvite(a) \/ EraseAccount(a)
      PROVE  Goal
  BY <1>2, <1>3 DEF AskCreate, CreateCompany, MintInvite, EraseAccount
<1>4. ASSUME NEW a \in Accounts, NEW b \in Accounts, NEW c \in Companies,
             RevokeMember(a, b, c) \/ TransferOwnership(a, b, c) \/ DisableCompany(a, c)
      PROVE  Goal
  BY <1>2, <1>4 DEF RevokeMember, TransferOwnership, DisableCompany
<1>5. ASSUME NEW a \in Accounts, NEW c \in Companies, NEW i \in Invites, NEW r \in InviteRoles,
             AskMint(a, c, i, r) \/ RevokeInvite(a, i) \/ RedeemInvite(a, i) \/ ExpireInvite(i)
      PROVE  Goal
  BY <1>2, <1>5 DEF AskMint, RevokeInvite, RedeemInvite, ExpireInvite
<1>6. ASSUME NEW c \in Companies, CustomerReady(c) \/ ApproveInvoice(c) \/ InvoiceFailed(c)
      PROVE  Goal
  BY <1>2, <1>6 DEF CustomerReady, ApproveInvoice, InvoiceFailed
<1>7. ASSUME NEW a \in Accounts, NEW i \in Invites, RevokeInvite(a, i) \/ RedeemInvite(a, i)
      PROVE  Goal
  BY <1>2, <1>7 DEF RevokeInvite, RedeemInvite
<1>8. ASSUME NEW i \in Invites, ExpireInvite(i) PROVE Goal
  BY <1>2, <1>8 DEF ExpireInvite
<1>9. Goal
  BY <1>1, <1>3, <1>4, <1>5, <1>6, <1>7, <1>8 DEF PeopleNext
<1> QED BY <1>9 DEF Goal

\* What an action at c leaves alone at every other company.
Apart(c) ==
    \A d \in Companies \ {c} :
        /\ sub'[d] = sub[d] /\ wire'[d] = wire[d] /\ used'[d] = used[d] /\ billed'[d] = billed[d]
        /\ \A x \in Callers : call'[d][x] = call[d][x]

LEMMA CallerCalm ==
    ASSUME SeatTypeOK, Sound, Wired, NEW c \in Companies, NEW w \in Callers, Calm(c),
           \/ Asks(c, w) \/ Settles(c, w) \/ ReadFails(c, w) \/ NoAnswer(c, w) \/ WorkerDies(c, w)
    PROVE  Calm(c)' /\ Apart(c)
<1>a. TypeOK /\ OnePendingChange /\ call[c][w] # None
  BY DEF Sound, Asks, Settles, ReadFails, NoAnswer, WorkerDies, At
<1>0. /\ sub[c] # None /\ sub[c].op # None /\ \A x \in Callers \ {w} : call[c][x] = None
      /\ call[c][w].at # "sent" => wire[c] = {}
      /\ call[c][w].op = sub[c].op /\ call[c][w].target = sub[c].pending
  BY <1>a, CalmFacts DEF Calm, Looks
<1>b. used[c] \subseteq Ops /\ \A o \in used[c] : op[c][o] # "unused"
  BY DEF Calm, SeatTypeOK
<1>1. CASE Asks(c, w)
  <2>0. PICK n : n = [op |-> call[c][w].op, target |-> call[c][w].target, from |-> w, at |-> "waiting"]
    OBVIOUS
  <2>1. /\ call[c][w].at = "ask" /\ Moved(c, w, "sent") /\ wire' = [wire EXCEPT ![c] = @ \cup {n}]
        /\ UNCHANGED <<sub, op, used, billed>>
    BY <1>1, <2>0 DEF Asks, At, companyVars
  <2>2. n.op = call[c][w].op /\ n.target = call[c][w].target /\ n.from = w /\ n.at = "waiting"
    BY <2>0
  <2>3. wire'[c] = {n} /\ \A d \in Companies \ {c} : wire'[d] = wire[d]
    BY <1>0, <2>1 DEF SeatTypeOK
  <2>4. /\ call'[c][w] # None /\ call'[c][w].op = call[c][w].op
        /\ call'[c][w].target = call[c][w].target /\ call'[c][w].at = "sent"
        /\ \A d \in Companies, x \in Callers : d # c \/ x # w => call'[d][x] = call[d][x]
    BY <1>a, <2>1, MovedEffect
  <2>5. Looks(c, w)' /\ Knows(c, call[c][w])'
    BY <1>0, <2>1, <2>2, <2>3, <2>4 DEF Looks, Knows
  <2>6. Asked(c, n)'
    BY <1>0, <2>1, <2>2, <2>3 DEF Asked
  <2>7. Calm(c)'
    BY <1>0, <1>b, <2>1, <2>3, <2>4, <2>5, <2>6 DEF Calm
  <2> QED BY <2>1, <2>3, <2>4, <2>7 DEF Apart
<1>2. CASE ReadFails(c, w) \/ WorkerDies(c, w)
  <2>1. Ended(c, w) /\ UNCHANGED <<sub, op, used, billed, wire>> /\ call[c][w].at # "sent"
    BY <1>2 DEF ReadFails, WorkerDies, At, companyVars
  <2>2. \A x \in Callers : call'[c][x] = None
    BY <1>0, <2>1, EndedEffect
  <2>3. Calm(c)'
    BY <1>0, <1>b, <2>1, <2>2, CalmQuiet
  <2> QED BY <2>1, <2>3, EndedEffect DEF Apart
<1>3. CASE Settles(c, w)
  <2>1. Ended(c, w) /\ UNCHANGED <<used, billed, wire>> /\ call[c][w].at = "settle"
    BY <1>3 DEF Settles, At
  <2>2. \A x \in Callers : call'[c][x] = None
    BY <1>0, <2>1, EndedEffect
  <2>3. CASE UNCHANGED companyVars
    <3>1. Calm(c)'
      BY <1>0, <1>b, <2>1, <2>2, <2>3, CalmQuiet DEF companyVars
    <3> QED BY <2>1, <2>3, <3>1, EndedEffect DEF Apart, companyVars
  <2>4. CASE SettleSeatChange(c, call[c][w].op) \/ ReleaseSeatChange(c, call[c][w].op)
    <3>1. PICK o \in Ops : SettleSeatChange(c, o) \/ ReleaseSeatChange(c, o)
      BY <1>a, <2>4, CallFields
    <3>2. /\ \A d \in Companies \ {c} : sub'[d] = sub[d]
          /\ \A p \in Ops \ {o} : op'[c][p] = op[c][p]
      BY <1>a, <3>1, SettleEffect
    <3>3. op'[c][o] # "unused"
      <4>1. \E v \in {"succeeded", "failed"} : op' = [op EXCEPT ![c][o] = v]
        BY <3>1 DEF SettleSeatChange, ReleaseSeatChange
      <4> QED BY <1>a, <3>1, <4>1 DEF TypeOK
    <3>4. Calm(c)'
      BY <1>0, <1>b, <2>1, <2>2, <3>2, <3>3, CalmQuiet
    <3> QED BY <2>1, <3>2, <3>4, EndedEffect DEF Apart
  <2> QED BY <1>3, <2>3, <2>4 DEF Settles, Settled
<1>4. CASE NoAnswer(c, w)
  <2>1. /\ Ended(c, w) /\ UNCHANGED <<sub, op, used, billed>>
        /\ wire' = [wire EXCEPT ![c] = {IF r.from = w THEN [r EXCEPT !.from = None] ELSE r : r \in @}]
    BY <1>4 DEF NoAnswer, companyVars
  <2>2. \A x \in Callers : call'[c][x] = None
    BY <1>0, <2>1, EndedEffect
  <2>3. /\ wire'[c] = {IF r.from = w THEN [r EXCEPT !.from = None] ELSE r : r \in wire[c]}
        /\ \A d \in Companies \ {c} : wire'[d] = wire[d]
    BY <2>1 DEF SeatTypeOK
  <2>4. ASSUME NEW r \in wire'[c]
        PROVE  Asked(c, r)'
    <3>1. PICK s \in wire[c] : r = IF s.from = w THEN [s EXCEPT !.from = None] ELSE s
      BY <2>3
    <3>2. r.op = s.op /\ r.target = s.target /\ r.at = s.at
      BY <3>1 DEF SeatTypeOK, Sent
    <3>3. Asked(c, s)
      BY DEF Calm
    <3>4. \A t \in wire'[c] : t = r
      BY <2>3, <3>1, <3>3 DEF Asked
    <3> QED BY <2>1, <3>2, <3>3, <3>4 DEF Asked
  <2>5. Calm(c)'
    BY <1>0, <1>b, <2>1, <2>2, <2>4 DEF Calm
  <2> QED BY <2>1, <2>3, <2>5, EndedEffect DEF Apart
<1> QED BY <1>1, <1>2, <1>3, <1>4

LEMMA StripeCalm ==
    ASSUME SeatTypeOK, Sound, Wired, NEW c \in Companies, Calm(c), StripeStep(c) \/ StripeRefuses(c)
    PROVE  Calm(c)' /\ Apart(c)
<1>b. used[c] \subseteq Ops /\ \A o \in used[c] : op[c][o] # "unused"
  BY DEF Calm, SeatTypeOK
<1>c. UNCHANGED <<sub, op>>
  BY DEF StripeStep, StripeBegins, StripeExecutes, StripeReplays, RequestLost, StripeRefuses, companyVars
<1>1. CASE StripeBegins(c)
  <2>1. PICK r \in wire[c] : /\ r.op \notin used[c]
                             /\ wire' = [wire EXCEPT ![c] = (@ \ {r}) \cup {[r EXCEPT !.at = "running"]}]
                             /\ UNCHANGED <<call, used, billed>>
    BY <1>1 DEF StripeBegins
  <2> DEFINE n == [r EXCEPT !.at = "running"]
  <2>2. n.from = r.from /\ n.op = r.op /\ n.target = r.target
    BY DEF SeatTypeOK, Sent
  <2>3. wire' = [wire EXCEPT ![c] = (@ \ {r}) \cup {n}]
    BY <2>1
  <2> HIDE DEF n
  <2>4. wire'[c] = {n} /\ \A d \in Companies \ {c} : wire'[d] = wire[d]
    BY <2>3, CalmFacts DEF SeatTypeOK
  <2>5. Asked(c, n)'
    BY <1>c, <2>1, <2>2, <2>4 DEF Calm, Asked
  <2>6. \A w \in Callers : call'[c][w] # None => Looks(c, w)' /\ Knows(c, call[c][w])'
    BY <1>c, <2>1, <2>2, <2>4 DEF Calm, Looks, Knows
  <2>7. sub[c] # None /\ sub[c].op # None
    BY NoneIsNothing, CalmFacts
  <2>8. Calm(c)'
    BY <1>b, <1>c, <2>1, <2>4, <2>5, <2>6, <2>7 DEF Calm
  <2> QED BY <1>c, <2>1, <2>4, <2>8 DEF Apart
<1>2. CASE StripeExecutes(c)
  <2>1. PICK r \in wire[c] : /\ wire' = [wire EXCEPT ![c] = @ \ {r}]
                             /\ billed' = [billed EXCEPT ![c] = r.target]
                             /\ used' = [used EXCEPT ![c] = @ \cup {r.op}]
                             /\ Answers(c, r, "success")
    BY <1>2 DEF StripeExecutes
  <2>2. used'[c] = used[c] \cup {r.op} /\ \A d \in Companies \ {c} : used'[d] = used[d] /\ billed'[d] = billed[d]
    BY <2>1 DEF SeatTypeOK
  <2>3. op[c][r.op] # "unused"
    BY CalmFacts
  <2>4. r.op \in used'[c] /\ \A o \in used'[c] : op[c][o] # "unused"
    BY <1>b, <2>2, <2>3
  <2>5. /\ Calm(c)'
        /\ \A d \in Companies \ {c} : wire'[d] = wire[d] /\ \A x \in Callers : call'[d][x] = call[d][x]
    BY <1>c, <2>1, <2>4, CalmAnswered
  <2> QED BY <1>c, <2>2, <2>5 DEF Apart
<1>3. CASE StripeReplays(c)
  <2>1. PICK r \in wire[c] : /\ r.op \in used[c] /\ wire' = [wire EXCEPT ![c] = @ \ {r}]
                             /\ UNCHANGED <<billed, used>> /\ Answers(c, r, "success")
    BY <1>3 DEF StripeReplays
  <2> QED BY <1>b, <1>c, <2>1, CalmAnswered DEF Apart
<1>4. CASE StripeRefuses(c)
  <2>1. PICK r \in wire[c] : /\ r.op \notin used[c] /\ wire' = [wire EXCEPT ![c] = @ \ {r}]
                             /\ UNCHANGED <<billed, used>> /\ Answers(c, r, "failure")
    BY <1>4 DEF StripeRefuses
  <2> QED BY <1>b, <1>c, <2>1, CalmAnswered DEF Apart
<1>5. CASE RequestLost(c)
  <2>1. PICK r \in wire[c] : /\ r.from = None /\ wire' = [wire EXCEPT ![c] = @ \ {r}]
                             /\ UNCHANGED <<call, used, billed>>
    BY <1>5 DEF RequestLost
  <2>2. \A x \in Callers : call[c][x] = None
    BY <2>1, CalmFacts, CronIsNoOperation, NoneIsNothing DEF Callers
  <2>3. wire'[c] = {} /\ \A d \in Companies \ {c} : wire'[d] = wire[d]
    BY <2>1, CalmFacts DEF SeatTypeOK
  <2>4. Calm(c)'
    BY <1>b, <1>c, <2>1, <2>2, <2>3, CalmQuiet
  <2> QED BY <1>c, <2>1, <2>3, <2>4 DEF Apart
<1> QED BY <1>1, <1>2, <1>3, <1>4, <1>5 DEF StripeStep

LEMMA OthersCalm ==
    ASSUME SeatTypeOK, Sound, ~Overlap, NEW c \in Companies, Calm(c), Begun,
           \/ \E a \in Accounts, q \in Seats, o \in Ops : Reserve(a, c, q, o)
           \/ \E o \in Ops : RouteReads(c, o)
           \/ CronStarts(c) \/ CronReads(c) \/ WindowCloses(c) \/ Dashboard(c)
    PROVE  Calm(c)' /\ Apart(c)
<1>a. TypeOK /\ OnePendingChange /\ Paired
  BY DEF Sound
<1>b. used[c] \subseteq Ops /\ \A o \in used[c] : op[c][o] # "unused"
  BY DEF Calm, SeatTypeOK
<1>1. ASSUME NEW a \in Accounts, NEW q \in Seats, NEW o \in Ops, Reserve(a, c, q, o)
      PROVE  Calm(c)' /\ Apart(c)
  <2> DEFINE k == [op |-> o, target |-> q, prev |-> sub[c].quantity, by |-> a, at |-> "read",
                   verdict |-> "none"]
  <2>1. /\ ReserveSeatChange(a, c, q, o) /\ call' = [call EXCEPT ![c][o] = k]
        /\ UNCHANGED <<billed, used, wire>>
    BY <1>1 DEF Reserve
  <2>2. k.op = o /\ k.target = q /\ k.at = "read"
    OBVIOUS
  <2> HIDE DEF k
  <2>3. /\ sub[c].op = None /\ op'[c][o] = "pending" /\ sub'[c].op = o /\ sub'[c].pending = q
        /\ sub'[c] # None
        /\ \A d \in Companies \ {c} : sub'[d] = sub[d]
        /\ \A p \in Ops \ {o} : op'[c][p] = op[c][p]
    BY <1>a, <2>1, ReserveEffect, SubscriptionFields
  <2>4. Quiet(c)
    BY <2>3 DEF Calm
  <2>5. o \in Callers /\ o # None
    BY NoneIsNothing DEF Callers
  <2>6. /\ call'[c][o] = k
        /\ \A d \in Companies, x \in Callers : d # c \/ x # o => call'[d][x] = call[d][x]
    BY <2>1, <2>5 DEF SeatTypeOK
  <2>7. Looks(c, o)' /\ Knows(c, call[c][o])'
    BY <2>1, <2>2, <2>3, <2>4, <2>6 DEF Looks, Knows, Quiet
  <2>8. Calm(c)'
    BY <1>b, <2>1, <2>3, <2>4, <2>5, <2>6, <2>7 DEF Calm, Quiet
  <2> QED BY <2>1, <2>3, <2>6, <2>8 DEF Apart
<1>2. ASSUME NEW o \in Ops, RouteReads(c, o) PROVE Calm(c)' /\ Apart(c)
  <2>1. /\ o \in Callers /\ call[c][o] # None /\ call[c][o].at = "read" /\ Moved(c, o, "ask")
        /\ UNCHANGED <<sub, wire, used, billed, op>>
    BY <1>2 DEF RouteReads, At, companyVars, Callers
  <2> QED BY <2>1, CalmMoved, MovedEffect DEF Apart
<1>3. CASE CronStarts(c)
  <2> DEFINE k == [op |-> sub[c].op, target |-> sub[c].pending, prev |-> sub[c].quantity,
                   by |-> None, at |-> "read", verdict |-> "none"]
  <2>1. /\ sub[c] # None /\ sub[c].op # None /\ Quiet(c) /\ call' = [call EXCEPT ![c][Cron] = k]
        /\ UNCHANGED <<sub, wire, used, billed, op>>
    BY <1>3 DEF CronStarts, companyVars
  <2>2. k.op = sub[c].op /\ k.target = sub[c].pending /\ k.at = "read"
    OBVIOUS
  <2> HIDE DEF k
  <2>3. /\ Cron \in Callers /\ call'[c][Cron] = k
        /\ \A d \in Companies, x \in Callers : d # c \/ x # Cron => call'[d][x] = call[d][x]
    BY <2>1 DEF SeatTypeOK, Callers
  <2>4. Looks(c, Cron)' /\ Knows(c, call[c][Cron])'
    BY <2>1, <2>2, <2>3 DEF Looks, Knows, Quiet
  <2>5. Calm(c)'
    BY <1>b, <2>1, <2>3, <2>4 DEF Calm, Quiet
  <2> QED BY <2>1, <2>3, <2>5 DEF Apart
<1>4. CASE CronReads(c)
  <2> DEFINE k == call[c][Cron]
  <2>1. /\ Cron \in Callers /\ k # None /\ k.at = "read"
        /\ UNCHANGED <<sub, wire, used, billed, op>>
    BY <1>4 DEF CronReads, At, companyVars, Callers
  <2>2. wire[c] = {}
    BY <2>1, CalmFacts
  <2>3. CASE Moved(c, Cron, "ask")
    BY <2>1, <2>3, CalmMoved, MovedEffect DEF Apart
  <2>4. ASSUME NEW v \in {"success", "failure"}, Verdict(c, Cron, v), v = "success" <=> billed[c] = k.target
        PROVE  Calm(c)' /\ Apart(c)
    BY <1>b, <2>1, <2>2, <2>4, CalmVerdict, VerdictEffect DEF Apart
  <2>5. \/ Moved(c, Cron, "ask")
        \/ \E v \in {"success", "failure"} : Verdict(c, Cron, v) /\ (v = "success" <=> billed[c] = k.target)
    BY <1>4 DEF CronReads, Decision
  <2> QED BY <2>3, <2>4, <2>5
<1>5. CASE WindowCloses(c) \/ Dashboard(c)
  <2>1. /\ Quiet(c) /\ UNCHANGED <<sub, wire, used, op, call>>
        /\ \A d \in Companies \ {c} : billed'[d] = billed[d]
    BY <1>5 DEF WindowCloses, Dashboard, companyVars, SeatTypeOK
  <2>2. Calm(c)'
    BY <1>b, <2>1, CalmQuiet DEF Quiet
  <2> QED BY <2>1, <2>2 DEF Apart
<1> QED BY <1>1, <1>2, <1>3, <1>4, <1>5

AllCalm == \A c \in Companies : Calm(c)

LEMMA CalmStep == ASSUME Kept, AllCalm, ~Overlap, [Next]_vars PROVE AllCalm'
<1> SUFFICES ASSUME NEW d \in Companies PROVE Calm(d)'
  BY DEF AllCalm
<1>0. /\ SeatTypeOK /\ Sound /\ Wired /\ Begun /\ TypeOK
      /\ \A c \in Companies : Calm(c)
  BY DEF Kept, Sound, AllCalm
<1>1. \A o \in Ops : op[d][o] # "unused" => op'[d][o] # "unused"
  BY <1>0, StepsAreCompanySteps, SeatTypeParts, StaysUsed
<1>2. ASSUME NEW c \in Companies, Calm(c)' /\ Apart(c) PROVE Calm(d)'
  <2>1. CASE d = c
    BY <1>2, <2>1
  <2>2. CASE d # c
    BY <1>0, <1>1, <1>2, <2>2, CalmElsewhere DEF Apart
  <2> QED BY <2>1, <2>2
<1>3. CASE People
  <2>1. PeopleNext /\ UNCHANGED <<used, call, wire>> /\ (sub[d] # None => billed'[d] = billed[d])
    BY <1>3 DEF People
  <2>2. op' = op
    BY <1>0, <2>1, PeopleEffect
  <2>3. CASE sub[d] # None
    <3>1. /\ sub'[d] # None /\ sub'[d].op = sub[d].op /\ sub'[d].pending = sub[d].pending
      BY <1>0, <2>1, <2>3, PeopleEffect DEF SubStays, SubArrives
    <3>2. \A w \in Callers : call'[d][w] # None => Looks(d, w)' /\ Knows(d, call[d][w])'
      BY <1>0, <2>1, <2>3, <3>1 DEF Calm, Looks, Knows
    <3>3. \A r \in wire'[d] : Asked(d, r)'
      BY <1>0, <2>1, <3>1 DEF Calm, Asked
    <3>4. (sub[d] = None \/ sub[d].op = None => Quiet(d))'
      BY <1>0, <2>1, <2>3, <3>1 DEF Calm, Quiet
    <3> QED BY <1>0, <2>1, <2>2, <3>2, <3>3, <3>4 DEF Calm
  <2>4. CASE sub[d] = None
    <3>1. Quiet(d)
      BY <1>0, <2>4 DEF Calm
    <3> QED BY <1>0, <2>1, <2>2, <3>1, CalmQuiet DEF Quiet, Calm
  <2> QED BY <2>3, <2>4
<1>4. CASE UNCHANGED vars
  BY <1>0, <1>4, CalmElsewhere DEF vars, companyVars, seatVars
<1>5. ASSUME NEW c \in Companies,
             \/ \E a \in Accounts, q \in Seats, o \in Ops : Reserve(a, c, q, o)
             \/ \E o \in Ops : RouteReads(c, o)
             \/ CronStarts(c) \/ CronReads(c) \/ WindowCloses(c) \/ Dashboard(c)
      PROVE  Calm(d)'
  BY <1>0, <1>2, <1>5, OthersCalm
<1>6. ASSUME NEW c \in Companies, NEW w \in Callers,
             CallerStep(c, w) \/ ReadFails(c, w) \/ NoAnswer(c, w) \/ WorkerDies(c, w)
      PROVE  Calm(d)'
  BY <1>0, <1>2, <1>6, CallerCalm DEF CallerStep
<1>7. ASSUME NEW c \in Companies, StripeStep(c) \/ StripeRefuses(c) PROVE Calm(d)'
  BY <1>0, <1>2, <1>7, StripeCalm
<1> QED BY <1>3, <1>4, <1>5, <1>6, <1>7 DEF Next

-----------------------------------------------------------------------------
(* The promise. *)

PHas == [c \in Companies |-> IF sub[c] = None THEN None ELSE sub[c].quantity]
PWants == [c \in Companies |-> IF sub[c] = None THEN None ELSE sub[c].pending]
PTaken == [c \in Companies |-> sub[c] # None /\ sub[c].op \in used[c]]

\* The promise's steps, told through its variables as functions of this state.
LEMMA PromiseSteps ==
    ASSUME NEW c \in Companies
    PROVE  /\ UNCHANGED <<PHas, PWants, PTaken, billed, drifts>> => UNCHANGED Promise!vars
           /\ (/\ PHas[c] = None
               /\ \E q \in Seats : /\ PHas' = [PHas EXCEPT ![c] = q]
                                   /\ billed' = [billed EXCEPT ![c] = q]
               /\ UNCHANGED <<PWants, PTaken, drifts>>) => Promise!Next
           /\ (/\ PHas[c] # None /\ PWants[c] = None
               /\ \E q \in Seats \ {PHas[c]} : PWants' = [PWants EXCEPT ![c] = q]
               /\ UNCHANGED <<PHas, PTaken, billed, drifts>>) => Promise!Next
           /\ (/\ PWants[c] # None /\ ~PTaken[c]
               /\ billed' = [billed EXCEPT ![c] = PWants[c]]
               /\ PTaken' = [PTaken EXCEPT ![c] = TRUE]
               /\ UNCHANGED <<PHas, PWants, drifts>>) => Promise!Next
           /\ (/\ PWants[c] # None /\ (PTaken[c] \/ billed[c] = PWants[c])
               /\ PHas' = [PHas EXCEPT ![c] = PWants[c]]
               /\ PWants' = [PWants EXCEPT ![c] = None]
               /\ PTaken' = [PTaken EXCEPT ![c] = FALSE]
               /\ UNCHANGED <<billed, drifts>>) => Promise!Next
           /\ (/\ PWants[c] # None /\ (~PTaken[c] \/ billed[c] # PWants[c])
               /\ PWants' = [PWants EXCEPT ![c] = None]
               /\ PTaken' = [PTaken EXCEPT ![c] = FALSE]
               /\ UNCHANGED <<PHas, billed, drifts>>) => Promise!Next
           /\ (/\ PHas[c] # None
               /\ \E q \in Seats : billed' = [billed EXCEPT ![c] = q]
               /\ drifts' = drifts + 1
               /\ UNCHANGED <<PHas, PWants, PTaken>>) => Promise!Next
<1>1. UNCHANGED <<PHas, PWants, PTaken, billed, drifts>> => UNCHANGED Promise!vars
  BY DEF Promise!vars, PHas, PWants, PTaken
<1>2. (/\ PHas[c] = None
       /\ \E q \in Seats : /\ PHas' = [PHas EXCEPT ![c] = q]
                           /\ billed' = [billed EXCEPT ![c] = q]
       /\ UNCHANGED <<PWants, PTaken, drifts>>) => Promise!Next
  BY DEF Promise!Next, Promise!Subscribe, PHas, PWants, PTaken
<1>3. (/\ PHas[c] # None /\ PWants[c] = None
       /\ \E q \in Seats \ {PHas[c]} : PWants' = [PWants EXCEPT ![c] = q]
       /\ UNCHANGED <<PHas, PTaken, billed, drifts>>) => Promise!Next
  BY DEF Promise!Next, Promise!Want, PHas, PWants, PTaken
<1>4. (/\ PWants[c] # None /\ ~PTaken[c]
       /\ billed' = [billed EXCEPT ![c] = PWants[c]]
       /\ PTaken' = [PTaken EXCEPT ![c] = TRUE]
       /\ UNCHANGED <<PHas, PWants, drifts>>) => Promise!Next
  BY DEF Promise!Next, Promise!Bill, PHas, PWants, PTaken
<1>5. (/\ PWants[c] # None /\ (PTaken[c] \/ billed[c] = PWants[c])
       /\ PHas' = [PHas EXCEPT ![c] = PWants[c]]
       /\ PWants' = [PWants EXCEPT ![c] = None]
       /\ PTaken' = [PTaken EXCEPT ![c] = FALSE]
       /\ UNCHANGED <<billed, drifts>>) => Promise!Next
  BY DEF Promise!Next, Promise!Record, PHas, PWants, PTaken
<1>6. (/\ PWants[c] # None /\ (~PTaken[c] \/ billed[c] # PWants[c])
       /\ PWants' = [PWants EXCEPT ![c] = None]
       /\ PTaken' = [PTaken EXCEPT ![c] = FALSE]
       /\ UNCHANGED <<PHas, billed, drifts>>) => Promise!Next
  BY DEF Promise!Next, Promise!Withdraw, PHas, PWants, PTaken
<1>7. (/\ PHas[c] # None
       /\ \E q \in Seats : billed' = [billed EXCEPT ![c] = q]
       /\ drifts' = drifts + 1
       /\ UNCHANGED <<PHas, PWants, PTaken>>) => Promise!Next
  BY DEF Promise!Next, Promise!Dashboard, PHas, PWants, PTaken
<1> QED BY <1>1, <1>2, <1>3, <1>4, <1>5, <1>6, <1>7

LEMMA PeoplePromise ==
    ASSUME Kept, AllCalm, People
    PROVE  Promise!Next \/ UNCHANGED Promise!vars
<1>0. /\ SeatTypeOK /\ TypeOK /\ PeopleNext /\ UNCHANGED <<used, drifts>>
      /\ billed' = [c \in Companies |-> IF sub[c] = None /\ sub'[c] # None
                                        THEN sub'[c].quantity ELSE billed[c]]
  BY DEF Kept, Sound, People
<1>1. CASE \A c \in Companies : SubStays(c)
  <2>1. UNCHANGED <<PHas, PWants, PTaken>>
    BY <1>0, <1>1 DEF SubStays, PHas, PWants, PTaken
  <2>2. UNCHANGED billed
    BY <1>0, <1>1 DEF SubStays, SeatTypeOK
  <2>3. CASE Companies = {}
    <3>1. UNCHANGED Promise!vars
      BY <1>0, <2>2, <2>3 DEF Promise!vars
    <3> QED BY <3>1
  <2> QED BY <1>0, <2>1, <2>2, <2>3, PromiseSteps
<1>2. ASSUME NEW d \in Companies, SubArrives(d), \A c \in Companies \ {d} : SubStays(c)
      PROVE  Promise!Next
  <2> DEFINE q == sub'[d].quantity
  <2>1. q \in Seats /\ PHas[d] = None
    BY <1>2 DEF SubArrives, PHas
  <2>2. PHas' = [PHas EXCEPT ![d] = q]
    BY <1>2 DEF SubArrives, SubStays, PHas
  <2>3. billed' = [billed EXCEPT ![d] = q]
    BY <1>0, <1>2 DEF SubArrives, SubStays, SeatTypeOK
  <2>4. UNCHANGED PWants
    BY <1>2 DEF SubArrives, SubStays, PWants
  <2>5. UNCHANGED PTaken
    <3>1. None \notin used[d]
      BY <1>0, NoneIsNothing DEF SeatTypeOK
    <3> QED BY <1>0, <1>2, <3>1 DEF SubArrives, SubStays, PTaken
  <2> QED BY <1>0, <2>1, <2>2, <2>3, <2>4, <2>5, PromiseSteps
<1> QED BY <1>0, <1>1, <1>2, PeopleEffect

\* The steps that bill, record, withdraw, want or edit.
LEMMA SeatPromiseSteps ==
    ASSUME Kept, ~Overlap, NEW c \in Companies, Calm(c),
           \/ \E a \in Accounts, q \in Seats, o \in Ops : Reserve(a, c, q, o)
           \/ \E w \in Callers : Settles(c, w)
           \/ StripeExecutes(c) \/ Dashboard(c)
    PROVE  Promise!Next \/ UNCHANGED Promise!vars
<1>0. SeatTypeOK /\ Sound /\ TypeOK /\ OnePendingChange /\ Paired /\ Wired /\ Begun
  BY DEF Kept, Sound
<1>1. ASSUME NEW a \in Accounts, NEW q \in Seats, NEW o \in Ops, Reserve(a, c, q, o)
      PROVE  Promise!Next
  <2>1. /\ ReserveSeatChange(a, c, q, o) /\ q # sub[c].quantity /\ op[c][o] = "unused"
        /\ UNCHANGED <<billed, used, drifts>>
    BY <1>1 DEF Reserve, ReserveSeatChange, SeatsAllow
  <2>2. /\ sub[c] # None /\ sub[c].op = None /\ sub'[c] # None
        /\ sub'[c].quantity = sub[c].quantity /\ sub'[c].op = o /\ sub'[c].pending = q
        /\ \A d \in Companies \ {c} : sub'[d] = sub[d]
    BY <1>0, <2>1, ReserveEffect, SubscriptionFields
  <2>3. sub[c].pending = None
    BY <1>0, <2>2 DEF Paired
  <2>4. o \notin used[c] /\ None \notin used[c]
    BY <1>0, <2>1, NoneIsNothing DEF Calm, SeatTypeOK
  <2>5. PHas[c] # None /\ PWants[c] = None /\ q \in Seats \ {PHas[c]}
    BY <1>0, <2>1, <2>2, <2>3, SubscriptionFields, NoneIsNothing DEF PHas, PWants, TypeOK
  <2>6. PWants' = [PWants EXCEPT ![c] = q]
    BY <2>2 DEF PWants
  <2>7. UNCHANGED PHas
    BY <2>2 DEF PHas
  <2>8. UNCHANGED PTaken
    BY <2>1, <2>2, <2>4 DEF PTaken
  <2> QED BY <2>1, <2>5, <2>6, <2>7, <2>8, PromiseSteps
<1>2. ASSUME NEW w \in Callers, Settles(c, w)
      PROVE  Promise!Next \/ UNCHANGED Promise!vars
  <2>1. UNCHANGED <<billed, used, drifts>> /\ call[c][w] # None /\ call[c][w].at = "settle"
    BY <1>2 DEF Settles, At
  <2>2. CASE UNCHANGED companyVars
    <3>1. UNCHANGED <<PHas, PWants, PTaken>>
      BY <2>1, <2>2 DEF PHas, PWants, PTaken, companyVars
    <3> QED BY <2>1, <3>1, PromiseSteps
  <2>3. CASE op[c][call[c][w].op] = "pending" /\ Settled(c, call[c][w])
    <3>1. PICK o \in Ops : o = call[c][w].op
      BY <1>0, <2>1, CallFields
    <3>2. /\ sub[c] \in Subscription /\ sub[c].op = o /\ sub[c].pending \in Seats
          /\ sub[c].pending # None /\ sub[c] # None /\ sub[c].pending = call[c][w].target
      BY <1>0, <2>1, <2>3, <3>1, PendingFields, SubscriptionFields DEF Calm, Looks
    <3>3. PHas[c] # None /\ PWants[c] # None /\ PWants[c] = sub[c].pending /\ (PTaken[c] <=> o \in used[c])
      BY <3>2, SubscriptionFields, NoneIsNothing DEF PHas, PWants, PTaken
    <3>4. IF call[c][w].verdict = "success" THEN PTaken[c] \/ billed[c] = PWants[c]
          ELSE ~PTaken[c] \/ billed[c] # PWants[c]
      BY <2>1, <3>1, <3>2, <3>3 DEF Calm, Knows
    <3>5. None \notin used[c]
      BY <1>0, NoneIsNothing DEF SeatTypeOK
    <3>6. ASSUME NEW n, n = sub'[c], n \in Subscription, n.op = None, n.pending = None,
                 \A d \in Companies \ {c} : sub'[d] = sub[d]
          PROVE  /\ PWants' = [PWants EXCEPT ![c] = None]
                 /\ PTaken' = [PTaken EXCEPT ![c] = FALSE]
                 /\ n.quantity = sub[c].pending => PHas' = [PHas EXCEPT ![c] = PWants[c]]
                 /\ n.quantity = sub[c].quantity => UNCHANGED PHas
      <4>1. n # None
        BY <3>6, SubscriptionFields
      <4>2. PWants' = [PWants EXCEPT ![c] = None]
        BY <3>6, <4>1 DEF PWants
      <4>3. PTaken' = [PTaken EXCEPT ![c] = FALSE]
        BY <2>1, <3>5, <3>6, <4>1 DEF PTaken
      <4>4. n.quantity = sub[c].pending => PHas' = [PHas EXCEPT ![c] = PWants[c]]
        BY <3>3, <3>6, <4>1 DEF PHas
      <4>5. n.quantity = sub[c].quantity => UNCHANGED PHas
        BY <3>2, <3>6, <4>1 DEF PHas
      <4> QED BY <4>2, <4>3, <4>4, <4>5
    <3>7. CASE call[c][w].verdict = "success"
      <4>1. sub' = [sub EXCEPT ![c].quantity = sub[c].pending, ![c].pending = None, ![c].op = None]
        BY <2>3, <3>1, <3>2, <3>7 DEF Settled, SettleSeatChange
      <4>2. /\ sub'[c] = [sub[c] EXCEPT !.quantity = sub[c].pending, !.pending = None, !.op = None]
            /\ \A d \in Companies \ {c} : sub'[d] = sub[d]
        BY <1>0, <4>1 DEF TypeOK
      <4>3. /\ sub'[c] \in Subscription /\ sub'[c].op = None /\ sub'[c].pending = None
            /\ sub'[c].quantity = sub[c].pending
        BY <3>2, <4>2 DEF Subscription
      <4>4. /\ PWants' = [PWants EXCEPT ![c] = None] /\ PTaken' = [PTaken EXCEPT ![c] = FALSE]
            /\ PHas' = [PHas EXCEPT ![c] = PWants[c]]
        BY <3>6, <4>2, <4>3
      <4> QED BY <2>1, <3>3, <3>4, <3>7, <4>4, PromiseSteps
    <3>8. CASE call[c][w].verdict # "success"
      <4>1. sub' = [sub EXCEPT ![c].pending = None, ![c].op = None]
        BY <2>3, <3>1, <3>2, <3>8 DEF Settled, ReleaseSeatChange
      <4>2. /\ sub'[c] = [sub[c] EXCEPT !.pending = None, !.op = None]
            /\ \A d \in Companies \ {c} : sub'[d] = sub[d]
        BY <1>0, <4>1 DEF TypeOK
      <4>3. /\ sub'[c] \in Subscription /\ sub'[c].op = None /\ sub'[c].pending = None
            /\ sub'[c].quantity = sub[c].quantity
        BY <3>2, <4>2 DEF Subscription
      <4>4. /\ PWants' = [PWants EXCEPT ![c] = None] /\ PTaken' = [PTaken EXCEPT ![c] = FALSE]
            /\ UNCHANGED PHas
        BY <3>6, <4>2, <4>3
      <4> QED BY <2>1, <3>3, <3>4, <3>8, <4>4, PromiseSteps
    <3> QED BY <3>7, <3>8
  <2> QED BY <1>2, <2>2, <2>3 DEF Settles
<1>3. CASE StripeExecutes(c)
  <2>1. PICK r \in wire[c] : /\ r.at = "running" /\ billed' = [billed EXCEPT ![c] = r.target]
                             /\ used' = [used EXCEPT ![c] = @ \cup {r.op}]
                             /\ UNCHANGED <<sub, drifts>>
    BY <1>3 DEF StripeExecutes, companyVars
  <2>2. /\ sub[c] # None /\ sub[c].op = r.op /\ sub[c].pending = r.target
        /\ r.op \notin used[c] /\ r.target # None
    <3>1. /\ sub[c] # None /\ sub[c].op = r.op /\ sub[c].pending = r.target
          /\ r.op \in Ops /\ op[c][r.op] = "pending"
      BY <1>0, <2>1, CalmFacts
    <3>2. sub[c].pending \in Seats /\ sub[c].pending # None
      BY <1>0, <3>1, PendingFields, NoneIsNothing
    <3>3. r.op \notin used[c]
      BY <2>1 DEF Calm, Asked
    <3> QED BY <3>1, <3>2, <3>3
  <2>3. /\ used'[c] = used[c] \cup {r.op} /\ \A d \in Companies \ {c} : used'[d] = used[d]
    BY <1>0, <2>1 DEF SeatTypeOK
  <2>4. PWants[c] # None /\ ~PTaken[c] /\ PWants[c] = r.target /\ UNCHANGED <<PHas, PWants>>
    BY <2>1, <2>2 DEF PWants, PTaken, PHas
  <2>5. PTaken' = [PTaken EXCEPT ![c] = TRUE]
    BY <2>1, <2>2, <2>3 DEF PTaken
  <2> QED BY <2>1, <2>4, <2>5, PromiseSteps
<1>4. CASE Dashboard(c)
  <2>1. /\ sub[c] # None /\ \E q \in Seats : billed' = [billed EXCEPT ![c] = q]
        /\ drifts' = drifts + 1 /\ UNCHANGED <<sub, used>>
    BY <1>4 DEF Dashboard, companyVars
  <2>2. PHas[c] # None
    BY <1>0, <2>1, SubscriptionFields, NoneIsNothing DEF PHas, TypeOK
  <2>3. UNCHANGED <<PHas, PWants, PTaken>>
    BY <2>1 DEF PHas, PWants, PTaken
  <2> QED BY <2>1, <2>2, <2>3, PromiseSteps
<1> QED BY <1>1, <1>2, <1>3, <1>4

LEMMA PromiseStep ==
    ASSUME Kept, AllCalm, ~Overlap, [Next]_vars
    PROVE  Promise!Next \/ UNCHANGED Promise!vars
<1> DEFINE Goal == Promise!Next \/ UNCHANGED Promise!vars
<1>1. ASSUME UNCHANGED <<sub, used, billed, drifts>> PROVE UNCHANGED Promise!vars
  BY <1>1 DEF Promise!vars
<1>2. ASSUME NEW c \in Companies,
             \/ \E a \in Accounts, q \in Seats, o \in Ops : Reserve(a, c, q, o)
             \/ \E w \in Callers : Settles(c, w)
             \/ StripeExecutes(c) \/ Dashboard(c)
      PROVE  Goal
  BY <1>2, SeatPromiseSteps DEF AllCalm
<1>3. ASSUME People PROVE Goal
  BY <1>3, PeoplePromise
<1>4. ASSUME NEW c \in Companies, NEW w \in Callers,
             Asks(c, w) \/ ReadFails(c, w) \/ NoAnswer(c, w) \/ WorkerDies(c, w)
      PROVE  UNCHANGED <<sub, used, billed, drifts>>
  BY <1>4 DEF Asks, ReadFails, NoAnswer, WorkerDies, companyVars
<1>5. ASSUME NEW c \in Companies,
             \/ \E o \in Ops : RouteReads(c, o)
             \/ CronStarts(c) \/ CronReads(c) \/ StripeRefuses(c) \/ WindowCloses(c)
             \/ StripeBegins(c) \/ StripeReplays(c) \/ RequestLost(c)
      PROVE  UNCHANGED <<sub, used, billed, drifts>>
  BY <1>5 DEF RouteReads, CronStarts, CronReads, StripeRefuses, WindowCloses, StripeBegins,
     StripeReplays, RequestLost, companyVars
<1>6. ASSUME UNCHANGED vars PROVE UNCHANGED <<sub, used, billed, drifts>>
  BY <1>6 DEF vars, companyVars, seatVars
<1> HIDE DEF Goal
<1>7. UNCHANGED Promise!vars => Goal
  BY DEF Goal
<1>8. Goal
  BY <1>1, <1>2, <1>3, <1>4, <1>5, <1>6, <1>7 DEF Next, CallerStep, StripeStep
<1> QED BY <1>8 DEF Goal

\* A change of seats is recorded only once Stripe bills for it and withdrawn only
\* while Stripe does not, for any number of companies, changes, faults and edits
\* in the dashboard, provided that the reconcile of a company never meets a call
\* that is still alive: the protocol implements SeatPromise.
THEOREM PromiseIsKept == ASSUME ~Overlap PROVE Spec => KeepsPromise
<1>1. Init => AllCalm
  <2> SUFFICES ASSUME Init PROVE AllCalm
    OBVIOUS
  <2> USE DEF Init
  <2>1. \A c \in Companies : Quiet(c) /\ used[c] = {}
    BY DEF Quiet
  <2> QED BY <2>1 DEF AllCalm, Calm, Quiet
<1>2. Kept /\ AllCalm /\ [Next]_vars => AllCalm'
  BY CalmStep
<1>3. Init => Promise!Init
  <2> SUFFICES ASSUME Init PROVE Promise!Init
    OBVIOUS
  <2>1. /\ \A c \in Companies : sub[c] = None
        /\ billed = [c \in Companies |-> None] /\ drifts = 0
    BY DEF Init, CompanyInit
  <2> QED BY <2>1 DEF Promise!Init
<1>4. Kept /\ AllCalm /\ [Next]_vars => [Promise!Next]_(Promise!vars)
  BY PromiseStep
<1> QED BY <1>1, <1>2, <1>3, <1>4, AlwaysKept, PTL DEF Spec, KeepsPromise, Promise!Spec

=============================================================================
