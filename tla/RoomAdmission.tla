---------------------------- MODULE RoomAdmission ----------------------------
(***************************************************************************)
(* Who may be in a room.  One RoomDO keeps the membership rows, the waiting   *)
(* and presence rows, and the signaling sockets, each stamped with the grant  *)
(* version it was opened at.  Requests purge what has run out of time, then   *)
(* read or write the rows; moderation cuts sockets after its handler; the     *)
(* alarm asks the identity object which sessions still live and closes the    *)
(* rest.  One room: the objects share nothing but the identity object.        *)
(***************************************************************************)
EXTENDS Integers, FiniteSets

CONSTANTS
    Accounts,     \* the accounts that meet in the room
    Owner,        \* the account that created it
    Guests,       \* the accounts that came in by the room's PIN
    Sockets,      \* the WebSockets the object may hold at once
    None,         \* no socket, no pass
    QueueCap,     \* accessQueueCap: who may be asking at once
    PlanCap,      \* maxUsersPerRoom of the owner's plan
    PerAccount,   \* SIGNALING_MAX_SOCKETS_PER_ACCOUNT
    MaxSessions,  \* bound: sessions an account goes through
    MaxVersion,   \* bound: changes of the grant version
    MaxEnding     \* bound: requests at once that close the room to guests

ASSUME AccountsAreKnown == Owner \in Accounts /\ Guests \subseteq Accounts \ {Owner}
ASSUME NoneIsNothing == \A S \in SUBSET Sockets : None # S
ASSUME CapsAreCounts == {QueueCap, PlanCap, PerAccount, MaxSessions, MaxVersion, MaxEnding} \subseteq Nat

VARIABLES
    role,         \* room_members.role, "none" without a row
    late,         \* the editors and the pending whose rows are past their time
    waiting,      \* the accounts with a row in waiting_peers
    present,      \* the accounts with a row in room_presence
    guestAccess,  \* rooms.guest_access
    ending,       \* closings of the guests' sockets that are still owed
    version,      \* rooms.grant_version
    due,          \* what a handler that has answered still owes an account's sockets
    counted,      \* the approvals that were counted against the plan
    room,         \* the room's row, its deletion, its tombstone
    sock,         \* the open sockets
    lapsed,       \* history: the sockets whose account has lacked a grant
    session,      \* the session that is alive, of those an account goes through
    alarm,        \* the pending alarm
    pass          \* the sockets that the revocation pass under way asked about

rows == <<role, late, waiting, present>>
socketVars == <<sock, lapsed>>
handling == <<due, counted, ending>>
vars == <<rows, guestAccess, handling, version, room, socketVars, session, alarm, pass>>

Roles == {"none", "owner", "editor", "viewer", "pending", "banned"}
Socket == [of : Accounts, session : 0..MaxSessions, version : 0..MaxVersion]

\* The owner's own rows are left out: its role never changes, nobody admits it,
\* and a moderation names somebody else.
Others == Accounts \ {Owner}

Init ==
    /\ role = [a \in Accounts |-> IF a = Owner THEN "owner" ELSE "none"]
    /\ late = {} /\ waiting = {} /\ present = {}
    /\ guestAccess \in BOOLEAN /\ ending = 0
    /\ version = 0
    /\ due = [a \in Accounts |-> "nothing"] /\ counted = {}
    /\ room = "open"
    /\ sock = [s \in Sockets |-> None] /\ lapsed = {}
    /\ session = [a \in Accounts |-> 0]
    /\ alarm = "none" /\ pass = None

-----------------------------------------------------------------------------
(* Reading the rows. *)

GrantedRole(r) == r \in {"owner", "editor", "viewer"}

\* getGrantRole: an editor's grant that ran out is no role, purged or not.
Granted(a) == GrantedRole(role[a]) /\ a \notin late

\* purgeExpiredGrants and purgeExpiredRoomLifecycle, before every handler.
Purged == [a \in Accounts |-> IF a \in late THEN "none" ELSE role[a]]

QueueFull(r, w) ==
    \/ Cardinality({a \in Accounts : r[a] = "pending"}) >= QueueCap
    \/ Cardinality(w) >= QueueCap

\* Members the plan counts: the owner and the grants that have not run out.
Held == Cardinality({a \in Accounts : Granted(a)})

Open == {s \in Sockets : sock[s] # None}

SocketsOf(a) == {s \in Open : sock[s].of = a}

\* What the purge leaves of the waiting rows: any may be past its 24 hours.
Unexpired == {waiting \ old : old \in SUBSET waiting}

\* What sweepExpiredPresence leaves: any may have missed its ten seconds.
Unswept == {present \ aged : aged \in SUBSET present}

\* authorize: what a role may ask for; the handlers read the role again.
Authorized(r, a, section) ==
    CASE section \in {"requests", "presence"} -> r[a] # "banned"
      [] section = "leave" -> GrantedRole(r[a])
      [] section = "erasure" -> r[a] # "none"
      [] section = "moderate" -> r[a] = "owner"

\* A request that finds the room leaves rows that are all within their time.
Rows(r, w, p) ==
    /\ room = "open"
    /\ role' = r /\ late' = {}
    /\ waiting' = w
    /\ present' = p

\* A grant that ends leaves its mark on the sockets of the account.
Marked == lapsed' = {s \in Sockets : /\ sock'[s] # None
                                     /\ \/ s \in lapsed
                                        \/ ~GrantedRole(role'[sock'[s].of])
                                        \/ sock'[s].of \in late'}

Closing(S) == sock' = [s \in Sockets |-> IF s \in S THEN None ELSE sock[s]]

QuietDoor == UNCHANGED <<guestAccess, ending, version, room, session, alarm, pass>>
QuietSockets == UNCHANGED sock /\ Marked

-----------------------------------------------------------------------------
(* What a participant asks for. *)

\* requestAccess: none becomes pending, unless the queue is full.
Asking(r, a, w) ==
    IF r[a] = "none" /\ ~QueueFull(r, w) THEN [r EXCEPT ![a] = "pending"] ELSE r

\* POST /requests.
RequestAccess(a) ==
    /\ Authorized(Purged, a, "requests")
    /\ \E w \in Unexpired : Rows(Asking(Purged, a, w), w, present)
    /\ UNCHANGED <<due, counted>> /\ QuietDoor /\ QuietSockets

\* POST /presence without an action: the join and the heartbeat.
Heartbeat(a) ==
    LET r == Purged IN
    /\ Authorized(r, a, "presence") /\ (a \in Guests => guestAccess)
    /\ \E w \in Unexpired, p \in Unswept :
          \/ GrantedRole(r[a]) /\ Rows(r, w \ {a}, p \cup {a})
          \/ Asking(r, a, w)[a] = "pending" /\ Rows(Asking(r, a, w), w \cup {a}, p)
          \/ Asking(r, a, w)[a] = "none" /\ Rows(r, w, p)
    /\ UNCHANGED <<due, counted>> /\ QuietDoor /\ QuietSockets

\* DELETE /presence: a member takes its own row away.
LeavePresence(a) ==
    /\ Authorized(Purged, a, "leave") /\ a \in present \cup waiting
    /\ \E w \in Unexpired, p \in Unswept : Rows(Purged, w \ {a}, p \ {a})
    /\ UNCHANGED <<due, counted>> /\ QuietDoor /\ QuietSockets

\* DELETE /waiting by the account itself or the owner: pending to none.
Withdraw(a) ==
    /\ \E w \in Unexpired :
          /\ a \in present \cup w
          /\ Rows([Purged EXCEPT ![a] = IF @ = "pending" THEN "none" ELSE @], w \ {a}, present)
    /\ UNCHANGED <<due, counted>> /\ QuietDoor /\ QuietSockets

-----------------------------------------------------------------------------
(* What the owner decides. *)

\* resolveModerationTarget: the account has a row somewhere.
KnownTarget(a, w) == Purged[a] # "none" \/ a \in present \cup w

\* banAccount never takes the room from its owner.
Banned(r, a) == [r EXCEPT ![a] = IF @ = "owner" THEN "owner" ELSE "banned"]

\* Mutant: a suspension forgives a ban.
Suspended_Forgives(r, a) == IF r[a] \in {"none", "owner"} THEN r ELSE [r EXCEPT ![a] = "pending"]

\* suspendAccount: who has a role goes back to asking; a ban stays a ban.
Suspended(r, a) == IF r[a] \in {"none", "owner", "banned"} THEN r ELSE [r EXCEPT ![a] = "pending"]

\* A reject or a kick: clearAccountPeers too; the sockets are cut once it answered.
Ban(a) ==
    /\ Authorized(role, Owner, "moderate") /\ due[a] = "nothing"
    /\ \E w \in Unexpired :
          KnownTarget(a, w) /\ Rows(Banned(Purged, a), w \ {a}, present \ {a})
    /\ due' = [due EXCEPT ![a] = "cut"]
    /\ UNCHANGED counted /\ QuietDoor /\ QuietSockets

\* The presence rows of a suspended account become waiting rows.
Suspend(a) ==
    /\ Authorized(role, Owner, "moderate") /\ Purged[a] # "owner" /\ due[a] = "nothing"
    /\ \E w \in Unexpired, p \in Unswept :
          /\ KnownTarget(a, w)
          /\ Rows(Suspended(Purged, a), w \cup (p \cap {a}), p \ {a})
    /\ due' = [due EXCEPT ![a] = "cut"]
    /\ UNCHANGED counted /\ QuietDoor /\ QuietSockets

\* POST /requests/:id deny: a ban, which cuts no socket and leaves presence rows.
Deny(a) ==
    /\ Authorized(role, Owner, "moderate") /\ Purged[a] = "pending"
    /\ \E w \in Unexpired : Rows(Banned(Purged, a), w \ {a}, present)
    /\ UNCHANGED <<due, counted>> /\ QuietDoor /\ QuietSockets

\* admitWithinOwnerPlan: the members are counted, then the handler is called.
CountForApproval(a) ==
    /\ Authorized(role, Owner, "moderate") /\ Held < PlanCap
    /\ \E w \in Unexpired : Rows(Purged, w, present)
    /\ counted' = counted \cup {a}
    /\ UNCHANGED due /\ QuietDoor /\ QuietSockets

\* approveAccount: only who is still pending is admitted.
Admitted(a, as) ==
    IF role[a] = "pending" THEN role' = [role EXCEPT ![a] = as] /\ late' = late \ {a}
    ELSE UNCHANGED <<role, late>>

\* handleWaitingPost approve: an editor for 12 hours, waiting rows become present.
ApproveWaiting(a) ==
    /\ a \in counted /\ counted' = counted \ {a}
    /\ Admitted(a, "editor")
    /\ IF role[a] = "pending"
       THEN present' = present \cup (waiting \cap {a}) /\ waiting' = waiting \ {a}
       ELSE UNCHANGED <<present, waiting>>
    /\ UNCHANGED due /\ QuietDoor /\ QuietSockets

\* handleRequestsIdPost approve: an editor or a viewer; waiting rows stay.
ApproveRequest(a, as) ==
    /\ a \in counted /\ counted' = counted \ {a}
    /\ Admitted(a, as)
    /\ UNCHANGED <<due, present, waiting>> /\ QuietDoor /\ QuietSockets

\* restampRoomSockets: who still holds a grant gets the new version.
Restamped(S) ==
    [s \in Sockets |->
        IF sock[s] = None \/ s \in S THEN None
        ELSE IF Granted(sock[s].of) THEN [sock[s] EXCEPT !.version = version + 1]
        ELSE sock[s]]

\* After a kick, a suspension or a reject: bump, close the account's, re-stamp.
Cut(a) ==
    /\ due[a] = "cut" /\ version < MaxVersion
    /\ due' = [due EXCEPT ![a] = "nothing"]
    /\ version' = version + 1
    /\ sock' = Restamped(SocketsOf(a))
    /\ UNCHANGED <<rows, guestAccess, ending, counted, room, session, alarm, pass>> /\ Marked

\* handleRoomSettings with guestAccess: the row now, the guests' sockets after.
OpenToGuests ==
    /\ \E w \in Unexpired : Rows(Purged, w, present)
    /\ guestAccess' = TRUE
    /\ UNCHANGED <<handling, version, room, session, alarm, pass>> /\ QuietSockets

CloseToGuests ==
    /\ \E w \in Unexpired : Rows(Purged, w, present)
    /\ ending < MaxEnding
    /\ guestAccess' = FALSE /\ ending' = ending + 1
    /\ UNCHANGED <<due, counted, version, room, session, alarm, pass>> /\ QuietSockets

CloseGuestSockets ==
    /\ ending > 0 /\ ending' = ending - 1
    /\ Closing({s \in Open : sock[s].of \in Guests})
    /\ UNCHANGED <<rows, guestAccess, due, counted, version, room, session, alarm, pass>> /\ Marked

-----------------------------------------------------------------------------
(* Erasure and deletion. *)

\* POST /erasure of a member: eraseAccountFromRoom, then its sockets.
EraseMember(a) ==
    /\ room = "open" /\ Authorized(role, a, "erasure") /\ due[a] = "nothing"
    /\ role' = [role EXCEPT ![a] = "none"] /\ late' = late \ {a}
    /\ waiting' = waiting \ {a} /\ present' = present \ {a}
    /\ due' = [due EXCEPT ![a] = "close"]
    /\ UNCHANGED counted /\ QuietDoor /\ QuietSockets

CloseErased(a) ==
    /\ due[a] = "close" /\ due' = [due EXCEPT ![a] = "nothing"]
    /\ Closing(SocketsOf(a))
    /\ UNCHANGED <<rows, counted, ending, guestAccess, version, room, session, alarm, pass>> /\ Marked

NoRows ==
    /\ role' = [a \in Accounts |-> "none"] /\ guestAccess' = FALSE
    /\ late' = {} /\ waiting' = {} /\ present' = {}

\* DELETE of the room, or the erasure of its owner: the rows, then the sockets.
DeleteRoom ==
    /\ room = "open" /\ room' = "deleting" /\ NoRows
    /\ UNCHANGED <<handling, version, session, alarm, pass>> /\ QuietSockets

DeleteSockets ==
    /\ room = "deleting" /\ room' = "gone"
    /\ Closing(Sockets)
    /\ UNCHANGED <<rows, guestAccess, handling, version, session, alarm, pass>> /\ Marked

-----------------------------------------------------------------------------
(* Sockets. *)

\* Mutant: the guest's session alone lets it in.
Upgrade_AnyGuest(s, a) ==
    /\ sock[s] = None /\ (pass # None => s \notin pass)
    /\ room = "open" /\ Granted(a) /\ Cardinality(SocketsOf(a)) < PerAccount
    /\ \E n \in 0..session[a] :
          sock' = [sock EXCEPT ![s] = [of |-> a, session |-> n, version |-> version]]
    /\ alarm' = "check"
    /\ UNCHANGED <<rows, guestAccess, handling, version, room, session, pass>> /\ Marked

\* handleSignalingUpgrade.  The Worker saw the session alive, some time ago; the
\* object reads and writes only its storage until the check is scheduled.
Upgrade(s, a) ==
    /\ sock[s] = None /\ (pass # None => s \notin pass)
    /\ room = "open" /\ Granted(a) /\ (a \in Guests => guestAccess)
    /\ Cardinality(SocketsOf(a)) < PerAccount
    /\ \E n \in 0..session[a] :
          sock' = [sock EXCEPT ![s] = [of |-> a, session |-> n, version |-> version]]
    /\ alarm' = "check"
    /\ UNCHANGED <<rows, guestAccess, handling, version, room, session, pass>> /\ Marked

\* webSocketMessage of a socket without a grant, or with a stale stamp.
RefuseFrame(s) ==
    /\ s \in Open
    /\ ~Granted(sock[s].of) \/ sock[s].version # version
    /\ Closing({s})
    /\ UNCHANGED <<rows, guestAccess, handling, version, room, session, alarm, pass>> /\ Marked

\* The participant closes its tab.
Disconnect(s) ==
    /\ s \in Open /\ Closing({s})
    /\ UNCHANGED <<rows, guestAccess, handling, version, room, session, alarm, pass>> /\ Marked

\* Sign-out, expiry, a new epoch or the account's end: the session is dead.
EndSession(a) ==
    /\ session[a] < MaxSessions
    /\ session' = [session EXCEPT ![a] = @ + 1]
    /\ UNCHANGED <<rows, guestAccess, handling, version, room, socketVars, alarm, pass>>

Live(s) == sock[s] # None /\ sock[s].session = session[sock[s].of]

\* Twelve hours of an editor, twenty-four of a request.
RunOut(a) ==
    /\ role[a] \in {"editor", "pending"} /\ a \notin late
    /\ late' = late \cup {a}
    /\ UNCHANGED <<role, waiting, present, guestAccess, handling, version, room,
                   session, alarm, pass>>
    /\ QuietSockets

-----------------------------------------------------------------------------
(* The alarm.  Its first half flushes the board, which BoardFlush models. *)

\* An alarm purges; without sockets it comes back for the retention of the room.
AlarmPurges ==
    /\ alarm # "none" /\ pass = None
    /\ IF room # "open" THEN UNCHANGED <<rows, guestAccess, room>>
       ELSE \/ room' = "gone" /\ NoRows                 \* past its retention
            \/ /\ \E w \in Unexpired : Rows(Purged, w, present)
               /\ UNCHANGED <<guestAccess, room>>
    /\ UNCHANGED <<handling, version, session, sock>> /\ Marked

AlarmIdle ==
    /\ Open = {} /\ AlarmPurges
    /\ alarm' = IF room = "open" THEN "retention" ELSE "none"
    /\ UNCHANGED pass

\* An alarm for the board, before the interval is over, puts the check back.
AlarmEarly ==
    /\ Open # {} /\ AlarmPurges /\ alarm' = "check" /\ UNCHANGED pass

\* Which sockets are asked about is fixed before the identity object answers.
AlarmAsks == Open # {} /\ AlarmPurges /\ alarm' = "none" /\ pass' = Open

\* Mutant: a failed read leaves the next check to chance.
IdentityFails_NoAlarm ==
    /\ pass # None /\ pass' = None
    /\ UNCHANGED <<rows, guestAccess, handling, version, room, socketVars, session, alarm>>

\* A failed read leaves every socket and asks again an interval later.
IdentityFails ==
    /\ pass # None /\ pass' = None
    /\ alarm' = "check"
    /\ UNCHANGED <<rows, guestAccess, handling, version, room, socketVars, session>>

Revoked_ByGrant == {s \in pass \cap Open : ~Granted(sock[s].of)}

\* The grant is read again, after the answer, for every socket asked about.
Revoked == {s \in pass \cap Open : ~Live(s) \/ ~Granted(sock[s].of)}

\* The identity object answers which sessions live; the others are closed.
IdentityAnswers ==
    /\ pass # None /\ pass' = None
    /\ Closing(Revoked)
    /\ alarm' = IF Open \ Revoked = {} THEN alarm ELSE "check"
    /\ UNCHANGED <<rows, guestAccess, handling, version, room, session>> /\ Marked

\* The object dies: sockets and handlers go, an alarm under way is delivered again.
Restart ==
    /\ Closing(Sockets)
    /\ due' = [a \in Accounts |-> "nothing"] /\ counted' = {} /\ ending' = 0
    /\ alarm' = IF pass # None THEN "check" ELSE alarm
    /\ pass' = None
    /\ room' = IF room = "deleting" THEN "gone" ELSE room
    /\ UNCHANGED <<rows, guestAccess, version, session>> /\ Marked

-----------------------------------------------------------------------------
Next ==
    \/ \E a \in Others :
          \/ RequestAccess(a) \/ Heartbeat(a) \/ LeavePresence(a) \/ Withdraw(a)
          \/ Ban(a) \/ Suspend(a) \/ Deny(a) \/ Cut(a)
          \/ CountForApproval(a) \/ ApproveWaiting(a)
          \/ \E as \in {"editor", "viewer"} : ApproveRequest(a, as)
          \/ EraseMember(a) \/ CloseErased(a) \/ RunOut(a)
    \/ \E a \in Accounts : EndSession(a) \/ \E s \in Sockets : Upgrade(s, a)
    \/ OpenToGuests \/ CloseToGuests \/ CloseGuestSockets
    \/ DeleteRoom \/ DeleteSockets
    \/ \E s \in Sockets : RefuseFrame(s) \/ Disconnect(s)
    \/ AlarmIdle \/ AlarmEarly \/ AlarmAsks \/ IdentityAnswers \/ IdentityFails
    \/ Restart

Spec == Init /\ [][Next]_vars

\* Alarms are delivered, an interval ends, and the identity object answers in time.
Fairness ==
    /\ WF_vars(AlarmAsks) /\ SF_vars(IdentityAnswers) /\ WF_vars(IdentityFails)

FairSpec == Spec /\ Fairness

-----------------------------------------------------------------------------
(* Properties. *)

\* Rows, stamps and passes stay within what the tables and attachments hold.
TypeOK ==
    /\ role \in [Accounts -> Roles] /\ room \in {"open", "deleting", "gone"}
    /\ \A a \in late : role[a] \in {"editor", "pending"}
    /\ waiting \subseteq Others /\ present \subseteq Others
    /\ guestAccess \in BOOLEAN /\ ending \in 0..MaxEnding /\ version \in 0..MaxVersion
    /\ due \in [Accounts -> {"nothing", "cut", "close"}]
    /\ counted \subseteq Others
    /\ sock \in [Sockets -> Socket \cup {None}]
    /\ lapsed \subseteq Open
    /\ session \in [Accounts -> 0..MaxSessions]
    /\ alarm \in {"none", "check", "retention"} /\ pass \in (SUBSET Sockets) \cup {None}

\* A ban lasts: whatever is asked for, decided or purged afterwards, only the
\* account's erasure or the end of the room takes a banned row away.
BansLast ==
    [][\A a \in Accounts : role[a] = "banned" =>
          role'[a] = "banned" \/ room' # "open" \/ due'[a] = "close"]_vars

\* "Every path that leaves an open socket must arrange the next alarm": an open
\* socket is due for a check, or a pass is under way that arranges it.
SocketsAreWatched == Open = {} \/ alarm = "check" \/ pass # None

\* Once the owner's request to close the room to guests has been answered, no
\* guest holds a socket, whatever was opened while it ran.
GuestsLeaveWithTheDoor ==
    ~guestAccess /\ ending = 0 /\ room = "open" => \A s \in Open : sock[s].of \notin Guests

\* A moderation of somebody else makes nobody reconnect: a stamp is stale only on
\* a socket whose account has been without its grant since the socket opened.
BystandersStayCurrent == \A s \in Open : sock[s].version # version => s \in lapsed

\* A socket whose session has ended is closed: signing out reaches open sockets.
EndedSessionsClose == \A s \in Sockets : (s \in Open /\ ~Live(s)) ~> ~(s \in Open /\ ~Live(s))

=============================================================================
