----------------------------- MODULE SeatPromise -----------------------------
(***************************************************************************)
(* What a change of seats promises the company that asked for it: the change *)
(* is recorded only once Stripe bills for it, and it is withdrawn only when  *)
(* Stripe does not.  Between two changes the company pays for what it has,   *)
(* unless somebody changed the quantity in Stripe's dashboard.               *)
(***************************************************************************)
EXTENDS Naturals

CONSTANTS Companies, Seats, None

VARIABLES
    has,     \* the seats a company has, None before it subscribes
    wants,   \* the change it waits for
    taken,   \* whether Stripe has carried out that change
    billed,  \* what Stripe bills
    drifts   \* how often somebody edited the quantity at Stripe

vars == <<has, wants, taken, billed, drifts>>

Init ==
    /\ has = [c \in Companies |-> None]
    /\ wants = [c \in Companies |-> None]
    /\ taken = [c \in Companies |-> FALSE]
    /\ billed = [c \in Companies |-> None]
    /\ drifts = 0

Subscribe(c) ==
    /\ has[c] = None
    /\ \E q \in Seats :
          /\ has' = [has EXCEPT ![c] = q]
          /\ billed' = [billed EXCEPT ![c] = q]
    /\ UNCHANGED <<wants, taken, drifts>>

Want(c) ==
    /\ has[c] # None /\ wants[c] = None
    /\ \E q \in Seats \ {has[c]} : wants' = [wants EXCEPT ![c] = q]
    /\ UNCHANGED <<has, taken, billed, drifts>>

\* The request is carried out, which a retry under its key repeats at most.
Bill(c) ==
    /\ wants[c] # None /\ ~taken[c]
    /\ billed' = [billed EXCEPT ![c] = wants[c]]
    /\ taken' = [taken EXCEPT ![c] = TRUE]
    /\ UNCHANGED <<has, wants, drifts>>

Record(c) ==
    /\ wants[c] # None /\ (taken[c] \/ billed[c] = wants[c])
    /\ has' = [has EXCEPT ![c] = wants[c]]
    /\ wants' = [wants EXCEPT ![c] = None]
    /\ taken' = [taken EXCEPT ![c] = FALSE]
    /\ UNCHANGED <<billed, drifts>>

Withdraw(c) ==
    /\ wants[c] # None /\ (~taken[c] \/ billed[c] # wants[c])
    /\ wants' = [wants EXCEPT ![c] = None]
    /\ taken' = [taken EXCEPT ![c] = FALSE]
    /\ UNCHANGED <<has, billed, drifts>>

Dashboard(c) ==
    /\ has[c] # None
    /\ \E q \in Seats : billed' = [billed EXCEPT ![c] = q]
    /\ drifts' = drifts + 1
    /\ UNCHANGED <<has, wants, taken>>

Next == \E c \in Companies :
    Subscribe(c) \/ Want(c) \/ Bill(c) \/ Record(c) \/ Withdraw(c) \/ Dashboard(c)

Spec == Init /\ [][Next]_vars

=============================================================================
