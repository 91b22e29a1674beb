----------------------------- MODULE GuestEntry -----------------------------
(***************************************************************************)
(* How a guest gets in.  The room object keeps the PIN, counts the failures   *)
(* and locks the room out; the identity object keeps the guest accounts and   *)
(* their sessions, and drops those that no session holds; the worker asks one *)
(* after the other.  One room, whose deletion is three requests of the worker;*)
(* one browser that comes in by the PIN, with strangers who guess beside it.   *)
(* Time is in ticks, and ages are kept rather than times.                      *)
(***************************************************************************)
EXTENDS Integers, FiniteSets

CONSTANTS
    Slots,      \* the submissions the browser may have under way at once
    Visitors,   \* the guest accounts that may exist at once
    Nothing,    \* no window, no lock, no cookie
    Threshold,  \* GUEST_PIN_FAILURE_THRESHOLD
    Window,     \* GUEST_PIN_FAILURE_WINDOW_MS
    Lockout,    \* GUEST_PIN_LOCKOUT_DURATION_MS
    MaxLost     \* bound: answers that do not reach the browser

ASSUME PinTimes == {Threshold, Window, Lockout} \subseteq Nat \ {0} /\ Lockout >= Window
ASSUME BoundIsCount == MaxLost \in Nat

ASSUME NothingIsUnlike == Nothing \notin Visitors /\ Nothing \notin Int
ASSUME VisitorsAreUnlike == Visitors \cap {"idle", "registered", "verified", "issued", "denied"} = {}
ASSUME SlotsAreFew == IsFiniteSet(Slots)

VARIABLES
    access,     \* rooms.guest_access
    pin,        \* rooms.guest_pin: none, in force, past its twelve hours
    failed,     \* guest_failed_count
    window,     \* the age of guest_failed_window_at, Window once it is past
    lock,       \* what is left of guest_lockout_until
    wrong,      \* history: wrong guesses taken in under the PIN in force, by age
    row,        \* the room's row, and the worker's steps after its deletion
    listed,     \* account_rooms names the room
    passed,     \* history: the submissions past the PIN when the room was deleted
    guest,      \* accounts with provenance guest: with a session, or without one yet
    cookie,     \* the guest session the browser holds
    entry,      \* where each submission is
    lost        \* answers lost so far

pinVars == <<access, pin, failed, window, lock, wrong>>
roomVars == <<row, listed, passed>>
guestVars == <<guest, cookie, entry, lost>>
entryVars == <<pinVars, roomVars, guestVars>>

EntryInit ==
    /\ access = FALSE /\ pin = "none"
    /\ failed = 0 /\ window = Nothing /\ lock = Nothing
    /\ wrong = [age \in 0..Window - 1 |-> 0]
    /\ row = "open" /\ listed = TRUE /\ passed = {}
    /\ guest = [g \in Visitors |-> "none"] /\ cookie = Nothing
    /\ entry = [s \in Slots |-> "idle"] /\ lost = 0

Forgotten == [age \in 0..Window - 1 |-> 0]

-----------------------------------------------------------------------------
(* The owner's settings: applyGuestSettings. *)

\* issueGuestPin, for access switched on and for a PIN that is rotated.
IssuePin ==
    /\ row = "open"
    /\ access' = TRUE /\ pin' = "set"
    /\ failed' = 0 /\ window' = Nothing /\ lock' = Nothing
    /\ wrong' = Forgotten
    /\ UNCHANGED <<roomVars, guestVars>>

\* revokeGuestAccess: the counters stay as they are.
RevokeAccess ==
    /\ row = "open"
    /\ access' = FALSE /\ pin' = "none" /\ wrong' = Forgotten
    /\ UNCHANGED <<failed, window, lock, roomVars, guestVars>>

-----------------------------------------------------------------------------
(* Verifying a PIN. *)

\* What verifyGuestPin clears once a lock has run out.
Cleared == [failed |-> 0, window |-> Nothing, lock |-> Nothing]

Counters == IF lock = 0 THEN Cleared ELSE [failed |-> failed, window |-> window, lock |-> lock]

\* Mutant: the window starts over at every failure.
Incremented_Sliding(c) ==
    LET n == IF c.window = Nothing \/ c.window = Window THEN 1 ELSE c.failed + 1
    IN [failed |-> n, window |-> 0, lock |-> c.lock]

\* incrementFailureCounter: the window begins with the failure that opens it.
Incremented(c) ==
    LET new == c.window = Nothing \/ c.window = Window
        n == IF new THEN 1 ELSE c.failed + 1
    IN [failed |-> n,
        window |-> IF new THEN 0 ELSE c.window,
        lock |-> IF n >= Threshold THEN Lockout ELSE c.lock]

Locked == lock # Nothing /\ lock > 0

InForce == access /\ pin = "set"

\* A tombstone and a lock refuse without counting.
Refused == row # "open" \/ Locked

CountsAre(c) == failed' = c.failed /\ window' = c.window /\ lock' = c.lock

\* Mutant: a failure under the lock locks for as long again.
Fails_Renewed ==
    IF Refused
    THEN lock' = (IF Locked THEN Lockout ELSE lock) /\ UNCHANGED <<access, pin, failed, window, wrong>>
    ELSE /\ CountsAre(Incremented(Counters))
         /\ wrong' = IF InForce THEN [wrong EXCEPT ![0] = @ + 1] ELSE wrong
         /\ UNCHANGED <<access, pin>>

\* Every refusal looks the same; a guess counts whether or not a PIN is in force.
Fails ==
    IF Refused
    THEN UNCHANGED pinVars
    ELSE /\ CountsAre(Incremented(Counters))
         /\ wrong' = IF InForce THEN [wrong EXCEPT ![0] = @ + 1] ELSE wrong
         /\ UNCHANGED <<access, pin>>

StrangerGuesses ==
    /\ listed /\ Fails
    /\ UNCHANGED <<roomVars, guestVars>>

-----------------------------------------------------------------------------
(* POST /auth/guest, step by step. *)

Moves(s, from, to) == entry[s] = from /\ entry' = [entry EXCEPT ![s] = to]

\* guestSessionAuthorized: the session the browser still holds.
Reused == cookie # Nothing /\ guest[cookie] = "live"

EntryStarts(s) ==
    /\ ~Reused /\ listed
    /\ Moves(s, "idle", "registered")
    /\ UNCHANGED <<pinVars, roomVars, guest, cookie, lost>>

EntryMistyped(s) ==
    /\ Moves(s, "registered", "idle") /\ Fails
    /\ UNCHANGED <<roomVars, guest, cookie, lost>>

\* The right PIN: it fails like any other when no PIN is in force or the room is locked.
EntryVerified(s) ==
    /\ IF InForce /\ ~Refused
       THEN Moves(s, "registered", "verified") /\ CountsAre(Counters) /\ UNCHANGED <<access, pin, wrong>>
       ELSE Moves(s, "registered", "idle") /\ Fails
    /\ UNCHANGED <<roomVars, guest, cookie, lost>>

\* createGuestAccount, then the digest of a token.
GuestCreated(s, g) ==
    /\ guest[g] = "none" /\ \A r \in Slots : entry[r] # g
    /\ guest' = [guest EXCEPT ![g] = "new"]
    /\ Moves(s, "verified", g)
    /\ UNCHANGED <<pinVars, roomVars, cookie, lost>>

\* issueGuestSession: the account is read again with the insert.
GuestIssued(s, g) ==
    /\ entry[s] = g
    /\ IF guest[g] = "new"
       THEN guest' = [guest EXCEPT ![g] = "live"] /\ Moves(s, g, "issued") /\ cookie' = g /\ UNCHANGED lost
       ELSE UNCHANGED <<guest, cookie, lost>> /\ Moves(s, g, "denied")
    /\ UNCHANGED <<pinVars, roomVars>>

AnswerLost(s, g) ==
    /\ entry[s] = g /\ guest[g] = "new" /\ lost < MaxLost
    /\ guest' = [guest EXCEPT ![g] = "live"] /\ Moves(s, g, "idle") /\ lost' = lost + 1
    /\ UNCHANGED <<pinVars, roomVars, cookie>>

Answered(s) ==
    /\ \/ Moves(s, "issued", "idle")
       \/ Moves(s, "denied", "idle")
    /\ UNCHANGED <<pinVars, roomVars, guest, cookie, lost>>

\* Any request of the identity object first drops the guests no session holds.
Traffic ==
    /\ \E g \in Visitors : guest[g] = "new"
    /\ guest' = [g \in Visitors |-> IF guest[g] = "new" THEN "none" ELSE guest[g]]
    /\ UNCHANGED <<pinVars, roomVars, cookie, entry, lost>>

\* Four hours, or an idle half hour.
GuestExpires(g) ==
    /\ guest[g] = "live"
    /\ guest' = [guest EXCEPT ![g] = "none"]
    /\ cookie' = IF cookie = g THEN Nothing ELSE cookie
    /\ UNCHANGED <<pinVars, roomVars, entry, lost>>

-----------------------------------------------------------------------------
(* The room goes, and time. *)

RoomDeleted ==
    /\ row = "open"
    /\ row' = "deleted" /\ passed' = {s \in Slots : entry[s] \in Visitors \cup {"verified"}}
    /\ UNCHANGED <<pinVars, listed, guestVars>>

RoomReleased ==
    /\ row = "deleted"
    /\ row' = "released" /\ listed' = FALSE
    /\ UNCHANGED <<pinVars, passed, guestVars>>

\* purgeRoomGuests: accounts and, with them, sessions. Mutant: those alone that
\* no session holds.
PurgeGuests_Unused ==
    /\ row = "released"
    /\ row' = "purged"
    /\ guest' = [g \in Visitors |-> IF guest[g] = "new" THEN "none" ELSE guest[g]]
    /\ UNCHANGED <<pinVars, listed, passed, cookie, entry, lost>>
PurgeGuests ==
    /\ row = "released"
    /\ row' = "purged"
    /\ guest' = [g \in Visitors |-> "none"] /\ cookie' = Nothing
    /\ UNCHANGED <<pinVars, listed, passed, entry, lost>>

PinExpires ==
    /\ pin = "set"
    /\ pin' = "old"
    /\ UNCHANGED <<access, failed, window, lock, wrong, roomVars, guestVars>>

Tick ==
    /\ window' = IF window = Nothing \/ window = Window THEN window ELSE window + 1
    /\ lock' = IF Locked THEN lock - 1 ELSE lock
    /\ wrong' = [age \in 0..Window - 1 |-> IF age = 0 THEN 0 ELSE wrong[age - 1]]
    /\ UNCHANGED <<access, pin, failed, roomVars, guestVars>>

EntryStep(s) ==
    \/ EntryStarts(s) \/ EntryMistyped(s) \/ EntryVerified(s) \/ Answered(s)
    \/ \E g \in Visitors : GuestCreated(s, g) \/ GuestIssued(s, g) \/ AnswerLost(s, g)

RoomStep == IssuePin \/ RevokeAccess \/ RoomDeleted \/ RoomReleased \/ PurgeGuests

EntryNext ==
    \/ RoomStep \/ StrangerGuesses \/ PinExpires \/ Tick \/ Traffic
    \/ \E s \in Slots : EntryStep(s)
    \/ \E g \in Visitors : GuestExpires(g)

\* Time passes; nothing else is promised.
EntrySpec == EntryInit /\ [][EntryNext]_entryVars /\ WF_entryVars(Tick)

-----------------------------------------------------------------------------
(* Properties. *)

EntryTypeOK ==
    /\ access \in BOOLEAN /\ pin \in {"none", "set", "old"}
    /\ failed \in 0..Threshold
    /\ window \in 0..Window \cup {Nothing} /\ lock \in 0..Lockout \cup {Nothing}
    /\ wrong \in [0..Window - 1 -> Nat]
    /\ row \in {"open", "deleted", "released", "purged"} /\ listed \in BOOLEAN
    /\ passed \subseteq Slots
    /\ guest \in [Visitors -> {"none", "new", "live"}] /\ cookie \in Visitors \cup {Nothing}
    /\ entry \in [Slots -> {"idle", "registered", "verified", "issued", "denied"} \cup Visitors]
    /\ lost \in 0..MaxLost

\* The wrong guesses of one stretch, each as its age and its number at that age.
Guesses == UNION {{age} \X (1..wrong[age]) : age \in 0..Window - 1}

\* Whatever the guesses and their times, no stretch as long as the window sees
\* more than twice the threshold less one held against one PIN: the windows are
\* fixed, so two of them may meet (guestPin.ts:335).
GuessesAreRationed ==
    Cardinality(Guesses) <= 2 * Threshold - 1

\* Guessing on does not keep the room locked: the lock is a fixed penalty
\* (guestPin.ts:216).
LockEnds == Locked ~> ~Locked

\* A room's deletion takes its guests with it, in three requests of the worker
\* between which submissions go on: none that was found in the registry before
\* its release becomes a guest after the purge, but those past the PIN already
\* (worker.ts:2060, RoomDO.ts:619).
GuestsGoWithTheRoom ==
    row = "purged" => Cardinality({g \in Visitors : guest[g] = "live"}) <= Cardinality(passed)

=============================================================================
