------------------------------ MODULE SeatChange ------------------------------
(***************************************************************************)
(* Who settles a change of seats.  The worker that reserved it reads the      *)
(* subscription, asks Stripe for the new quantity under the operation's       *)
(* idempotency key, and settles or releases the change by the answer, with    *)
(* its owner's session.  The daily reconcile takes up what is still pending,  *)
(* decides by what Stripe bills now, and may ask again under the same key.    *)
(***************************************************************************)
EXTENDS Company

CONSTANTS
    Cron,         \* the caller that is the reconcile; the others are operations
    Overlap,      \* whether the reconcile may meet an earlier call still alive
    MaxFaults,    \* bound: reads and calls that fail, refusals, workers that die
    MaxDrifts     \* bound: quantities changed in Stripe's dashboard

ASSUME CronIsNoOperation == Cron \notin Ops \cup {None}
ASSUME FaultsAreBounded == MaxFaults \in Nat /\ MaxDrifts \in Nat /\ Overlap \in BOOLEAN

VARIABLES
    billed,   \* the quantity of the subscription item at Stripe
    used,     \* the operations whose key Stripe has carried out
    call,     \* the callers under way
    wire,     \* the requests for a quantity that are at Stripe
    old,      \* whether the pending change is past the idempotency window
    faults, drifts

seatVars == <<billed, used, call, wire, old, faults, drifts>>
vars == <<companyVars, seatVars>>

Callers == Ops \cup {Cron}

Call == [op : Ops, target : Seats, prev : Seats, by : Accounts \cup {None},
         at : {"read", "ask", "sent", "settle"}, verdict : {"none", "success", "failure"}]

ASSUME NoneIsNoCall == None \notin Call

\* A request outlives its caller when the call times out or the worker dies.
Sent == [op : Ops, target : Seats, from : Callers \cup {None}, at : {"waiting", "running"}]

Faulty == faults < MaxFaults /\ faults' = faults + 1

\* Nothing is under way for the company.
Quiet(c) == wire[c] = {} /\ \A w \in Callers : call[c][w] = None

At(c, w, place) == call[c][w] # None /\ call[c][w].at = place

Moved(c, w, place) == call' = [call EXCEPT ![c][w].at = place]

Ended(c, w) == call' = [call EXCEPT ![c][w] = None]

Verdict(c, w, v) == call' = [call EXCEPT ![c][w].at = "settle", ![c][w].verdict = v]

Busy(c, o) == \E r \in wire[c] : r.op = o /\ r.at = "running"

-----------------------------------------------------------------------------
(* The callers. *)

\* companySeatsRoute: the object reserves, the worker takes the reservation on.
Reserve(a, c, q, o) ==
    /\ ReserveSeatChange(a, c, q, o)
    /\ call' = [call EXCEPT ![c][o] = [op |-> o, target |-> q, prev |-> sub[c].quantity,
                                       by |-> a, at |-> "read", verdict |-> "none"]]
    /\ old' = [old EXCEPT ![c] = FALSE]
    /\ UNCHANGED <<billed, used, wire, faults, drifts>>

\* Mutant: only companies that are active are looked after.
CronStarts_ActiveOnly(c) ==
    /\ company[c] = "active" /\ sub[c] # None /\ sub[c].op # None
    /\ call[c][Cron] = None
    /\ Overlap \/ Quiet(c)
    /\ call' = [call EXCEPT ![c][Cron] =
                  [op |-> sub[c].op, target |-> sub[c].pending, prev |-> sub[c].quantity,
                   by |-> None, at |-> "read", verdict |-> "none"]]
    /\ UNCHANGED <<companyVars, billed, used, wire, old, faults, drifts>>

\* The reconcile's first post lists the pending changes, of any company.
CronStarts(c) ==
    /\ sub[c] # None /\ sub[c].op # None
    /\ call[c][Cron] = None
    /\ Overlap \/ Quiet(c)
    /\ call' = [call EXCEPT ![c][Cron] =
                  [op |-> sub[c].op, target |-> sub[c].pending, prev |-> sub[c].quantity,
                   by |-> None, at |-> "read", verdict |-> "none"]]
    /\ UNCHANGED <<companyVars, billed, used, wire, old, faults, drifts>>

\* applySeatChange's read only fetches the item to change.
RouteReads(c, o) ==
    /\ At(c, o, "read")
    /\ Moved(c, o, "ask")
    /\ UNCHANGED <<companyVars, billed, used, wire, old, faults, drifts>>

\* Mutant: a change past the window is released whatever Stripe bills.
Decision_WindowFirst(k, fetched, late) ==
    IF late THEN "failure"
    ELSE IF fetched = k.target THEN "success"
    ELSE IF fetched = k.prev THEN "retry" ELSE "failure"

\* decideSeatChangeRecovery.
Decision(k, fetched, late) ==
    IF fetched = k.target THEN "success"
    ELSE IF fetched = k.prev /\ ~late THEN "retry"
    ELSE "failure"   \* released, or released as a drift

CronReads(c) ==
    /\ At(c, Cron, "read")
    /\ LET d == Decision(call[c][Cron], billed[c], old[c])
       IN IF d = "retry" THEN Moved(c, Cron, "ask") ELSE Verdict(c, Cron, d)
    /\ UNCHANGED <<companyVars, billed, used, wire, old, faults, drifts>>

\* The read fails: the outcome is unknown, which settles nothing.
ReadFails(c, w) ==
    /\ At(c, w, "read") /\ Faulty
    /\ Ended(c, w)
    /\ UNCHANGED <<companyVars, billed, used, wire, old, drifts>>

Asks(c, w) ==
    /\ At(c, w, "ask")
    /\ Moved(c, w, "sent")
    /\ wire' = [wire EXCEPT ![c] = @ \cup {[op |-> call[c][w].op, target |-> call[c][w].target,
                                            from |-> w, at |-> "waiting"]}]
    /\ UNCHANGED <<companyVars, billed, used, old, faults, drifts>>

\* No answer within ten seconds, a 5xx, or a worker that dies waiting.
NoAnswer(c, w) ==
    /\ At(c, w, "sent") /\ Faulty
    /\ Ended(c, w)
    /\ wire' = [wire EXCEPT ![c] = {IF r.from = w THEN [r EXCEPT !.from = None] ELSE r : r \in @}]
    /\ UNCHANGED <<companyVars, billed, used, old, drifts>>

\* The worker dies before it has asked, or before it has settled.
WorkerDies(c, w) ==
    /\ call[c][w] # None /\ call[c][w].at \in {"ask", "settle"} /\ Faulty
    /\ Ended(c, w)
    /\ UNCHANGED <<companyVars, billed, used, wire, old, drifts>>

\* The worker settles as its caller, who must still be a member; the
\* reconcile settles through the internal path.
MaySettle(k, c) == k.by # None => member[c][k.by] \in Roles

Settled(c, k) ==
    IF k.verdict = "success" THEN SettleSeatChange(c, k.op) ELSE ReleaseSeatChange(c, k.op)

\* A settle that comes too late is refused, and so is one without a session.
Settles(c, w) ==
    /\ At(c, w, "settle")
    /\ LET k == call[c][w]
       IN \/ MaySettle(k, c) /\ op[c][k.op] = "pending" /\ Settled(c, k)
          \/ ~(MaySettle(k, c) /\ op[c][k.op] = "pending") /\ UNCHANGED companyVars
    /\ Ended(c, w)
    /\ UNCHANGED <<billed, used, wire, old, faults, drifts>>

-----------------------------------------------------------------------------
(* Stripe and the clock. *)

\* The answer reaches the caller that still waits for it.
Answers(c, r, v) == IF r.from = None THEN UNCHANGED call ELSE Verdict(c, r.from, v)

\* The first request under a key is carried out.
StripeBegins(c) ==
    /\ \E r \in wire[c] :
          /\ r.at = "waiting" /\ r.op \notin used[c] /\ ~Busy(c, r.op)
          /\ wire' = [wire EXCEPT ![c] = (@ \ {r}) \cup {[r EXCEPT !.at = "running"]}]
    /\ UNCHANGED <<companyVars, billed, used, call, old, faults, drifts>>

StripeExecutes(c) ==
    /\ \E r \in wire[c] :
          /\ r.at = "running"
          /\ wire' = [wire EXCEPT ![c] = @ \ {r}]
          /\ billed' = [billed EXCEPT ![c] = r.target]
          /\ used' = [used EXCEPT ![c] = @ \cup {r.op}]
          /\ Answers(c, r, "success")
    /\ UNCHANGED <<companyVars, old, faults, drifts>>

\* A key that was carried out is answered as before.
StripeReplays(c) ==
    /\ \E r \in wire[c] :
          /\ r.at = "waiting" /\ r.op \in used[c]
          /\ wire' = [wire EXCEPT ![c] = @ \ {r}]
          /\ Answers(c, r, "success")
    /\ UNCHANGED <<companyVars, billed, used, old, faults, drifts>>

\* 4xx: the request is refused, or another one under its key is being carried out.
StripeRefuses(c) ==
    /\ \E r \in wire[c] :
          /\ r.at = "waiting" /\ r.op \notin used[c]
          /\ IF Busy(c, r.op) THEN UNCHANGED faults ELSE Faulty
          /\ wire' = [wire EXCEPT ![c] = @ \ {r}]
          /\ Answers(c, r, "failure")
    /\ UNCHANGED <<companyVars, billed, used, old, drifts>>

\* A request whose caller is gone never arrives.
RequestLost(c) ==
    /\ \E r \in wire[c] :
          /\ r.at = "waiting" /\ r.from = None
          /\ wire' = [wire EXCEPT ![c] = @ \ {r}]
    /\ UNCHANGED <<companyVars, billed, used, call, old, faults, drifts>>

\* Twenty-four hours pass, by far longer than any call.
WindowCloses(c) ==
    /\ sub[c] # None /\ sub[c].op # None /\ ~old[c] /\ Quiet(c)
    /\ old' = [old EXCEPT ![c] = TRUE]
    /\ UNCHANGED <<companyVars, billed, used, call, wire, faults, drifts>>

\* Somebody edits the quantity in the dashboard, while no call is under way.
Dashboard(c) ==
    /\ sub[c] # None /\ Quiet(c) /\ drifts < MaxDrifts
    /\ \E q \in Seats \ {billed[c]} : billed' = [billed EXCEPT ![c] = q]
    /\ drifts' = drifts + 1
    /\ UNCHANGED <<companyVars, used, call, wire, old, faults>>

\* A subscription made by an approved invoice bills what it was made with.
People ==
    /\ PeopleNext
    /\ billed' = [c \in Companies |-> IF sub[c] = None /\ sub'[c] # None
                                      THEN sub'[c].quantity ELSE billed[c]]
    /\ UNCHANGED <<used, call, wire, old, faults, drifts>>

-----------------------------------------------------------------------------

Init ==
    /\ CompanyInit
    /\ billed = [c \in Companies |-> None]
    /\ used = [c \in Companies |-> {}]
    /\ call = [c \in Companies |-> [w \in Callers |-> None]]
    /\ wire = [c \in Companies |-> {}]
    /\ old = [c \in Companies |-> FALSE]
    /\ faults = 0 /\ drifts = 0

CallerStep(c, w) == Asks(c, w) \/ Settles(c, w)

StripeStep(c) == StripeBegins(c) \/ StripeExecutes(c) \/ StripeReplays(c) \/ RequestLost(c)

Next ==
    \/ People
    \/ \E c \in Companies :
          \/ \E a \in Accounts, q \in Seats, o \in Ops : Reserve(a, c, q, o)
          \/ \E o \in Ops : RouteReads(c, o)
          \/ \E w \in Callers : CallerStep(c, w) \/ ReadFails(c, w) \/ NoAnswer(c, w) \/ WorkerDies(c, w)
          \/ CronStarts(c) \/ CronReads(c)
          \/ StripeStep(c) \/ StripeRefuses(c)
          \/ WindowCloses(c) \/ Dashboard(c)

\* The cron runs every day, calls end, and time passes.
Fairness ==
    \A c \in Companies :
        /\ WF_vars(CronStarts(c)) /\ WF_vars(CronReads(c))
        /\ \A o \in Ops : WF_vars(RouteReads(c, o))
        /\ \A w \in Callers : WF_vars(CallerStep(c, w))
        /\ WF_vars(StripeStep(c))
        /\ WF_vars(WindowCloses(c))

Spec == Init /\ [][Next]_vars /\ Fairness

-----------------------------------------------------------------------------
(* Properties. *)

SeatTypeOK ==
    /\ TypeOK
    /\ billed \in [Companies -> Seats \cup {None}]
    /\ used \in [Companies -> SUBSET Ops]
    /\ call \in [Companies -> [Callers -> Call \cup {None}]]
    /\ wire \in [Companies -> SUBSET Sent]
    /\ old \in [Companies -> BOOLEAN]
    /\ faults \in 0 .. MaxFaults /\ drifts \in 0 .. MaxDrifts

\* What the object records and what Stripe bills, together.
Promise == INSTANCE SeatPromise WITH
    has <- [c \in Companies |-> IF sub[c] = None THEN None ELSE sub[c].quantity],
    wants <- [c \in Companies |-> IF sub[c] = None THEN None ELSE sub[c].pending],
    taken <- [c \in Companies |-> sub[c] # None /\ sub[c].op \in used[c]]

\* A change is recorded only once Stripe bills for it and withdrawn only while
\* Stripe does not, through lost answers, dead workers, retries under one key,
\* refusals and edits in the dashboard (seatRecovery.ts:37, executor.ts:334).
KeepsPromise == Promise!Spec

\* No change stays pending for ever: the daily reconcile settles or releases
\* it, even if its worker died or its owner has left (reconcile.ts:726).
ChangesEnd ==
    \A c \in Companies : \A o \in Ops : op[c][o] = "pending" ~> op[c][o] # "pending"

=============================================================================
