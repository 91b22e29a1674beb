------------------------------ MODULE RoomLife ------------------------------
(***************************************************************************)
(* The life of a room and of the account that owns it.  Four stores take     *)
(* part and nothing spans them: the identity object (account, sessions, the   *)
(* list of owned rooms, erasures owed, backup registry), the room object, the *)
(* bucket (board files, exports), and the worker whose requests walk from one *)
(* to the next, a step at a time, and may die in between.  One account, one   *)
(* room.                                                                      *)
(***************************************************************************)
EXTENDS Integers, FiniteSets

CONSTANTS
    Tokens,     \* the session tokens the account may hold
    None,       \* no token, no session
    AtOnce,     \* bound: requests under way at once
    MaxEpoch,   \* bound: changes of the authorization epoch
    MaxFaults   \* bound: workers that die, calls that fail

ASSUME NoneIsNoToken == None \notin Tokens
ASSUME BoundsAreCounts == {AtOnce, MaxEpoch, MaxFaults} \subseteq Nat

VARIABLES
    account,    \* accounts: state and authorization_epoch
    subject,    \* whether an Access subject is bound to the account
    session,    \* the rows of sessions that are neither revoked nor expired, by token
    listed,     \* whether account_rooms names the room
    owed,       \* whether pending_erasures names the room
    registry,   \* whether backup_registry names the room, active of late
    room,       \* the room's row, or its tombstone and what left it
    files,      \* what the room's files prefix holds: put before or after the room went
    exports,    \* the same of its backups prefix, "empty" for a dump without the room
    purges,     \* the prefixes a delete still has to empty after its answer
    at, by,     \* where each kind of request is, and with whose token
    seen,       \* the rooms the erasure listed before it waited
    lost,       \* history: a create died, or could not undo, and left its room
    faults

identity == <<account, subject, session, listed, owed, registry>>
stores == <<room, files, exports, purges>>
request == <<at, by, seen>>
vars == <<identity, stores, request, lost, faults>>

Kinds == {"signin", "create", "delete", "settings", "erase", "upload", "backup"}

Places == {"idle", "resolved", "checked", "made", "refused", "release", "sync",
           "listed", "rooms", "files", "exports", "clear", "reserved", "due", "full", "empty"}

\* created_at and confirmed_at against the five minutes of a destructive action.
Session == [epoch : 0..MaxEpoch, fresh : {"new", "confirmed", "stale"}]

Init ==
    /\ account = [state |-> "active", epoch |-> 0] /\ subject = TRUE
    /\ session = [t \in Tokens |-> None]
    /\ listed = FALSE /\ owed = FALSE /\ registry = FALSE
    /\ room = "none" /\ files = "none" /\ exports = "none" /\ purges = {}
    /\ at = [k \in Kinds |-> "idle"] /\ by = [k \in Kinds |-> None] /\ seen = FALSE
    /\ lost = FALSE /\ faults = 0

Faulty == faults < MaxFaults /\ faults' = faults + 1

Begins(k, t, place) ==
    /\ at[k] = "idle" /\ Cardinality({j \in Kinds : at[j] # "idle"}) < AtOnce
    /\ at' = [at EXCEPT ![k] = place]
    /\ by' = [by EXCEPT ![k] = t]

Goes(k, from, place) ==
    /\ at[k] = from
    /\ at' = [at EXCEPT ![k] = place]
    /\ by' = [by EXCEPT ![k] = IF place = "idle" THEN None ELSE @]

-----------------------------------------------------------------------------
(* Sessions. *)

\* isActiveAt, as validateSession asks it.
Valid(t) ==
    /\ t # None /\ session[t] # None
    /\ account.state = "active" /\ session[t].epoch = account.epoch

\* authorizeSessionForPrincipal: and the Access subject still leads to the account.
MayCall(t) == Valid(t) /\ subject

\* sessionAllowsDestructiveAction.
Fresh(t) == session[t].fresh # "stale"

\* issueSessionForVerifiedPrincipal: the subject is resolved, then a token is hashed.
SignInResolves ==
    /\ subject
    /\ Begins("signin", None, "resolved")
    /\ UNCHANGED <<identity, stores, seen, lost, faults>>

\* Mutant: the account is not read again with the insert.
Issued_Unchecked == TRUE

\* The insert reads the account again, in its transaction.
Issued == account.state = "active"

\* A token that nobody has held: no request under way carries it.
Unused(t) == session[t] = None /\ \A k \in Kinds : by[k] # t

SignInInserts(t) ==
    /\ Unused(t)
    /\ session' = IF Issued
                  THEN [session EXCEPT ![t] = [epoch |-> account.epoch, fresh |-> "new"]]
                  ELSE session
    /\ Goes("signin", "resolved", "idle")
    /\ UNCHANGED <<account, subject, listed, owed, registry, stores, seen, lost, faults>>

SessionsOnly == UNCHANGED <<account, subject, listed, owed, registry, stores, request, lost, faults>>

\* rotateSession: the new token inherits the sign-in, not the confirmation.
Rotate(t, u) ==
    /\ Valid(t) /\ Unused(u)
    /\ session' = [session EXCEPT
                     ![t] = None,
                     ![u] = [session[t] EXCEPT !.fresh = IF @ = "new" THEN "new" ELSE "stale"]]
    /\ SessionsOnly

\* confirmSession.
Confirm(t) ==
    /\ Valid(t)
    /\ session' = [session EXCEPT ![t].fresh = "confirmed"]
    /\ SessionsOnly

\* logoutSession, or the idle and the absolute expiry: every read obeys them.
Ends(t) ==
    /\ session[t] # None
    /\ session' = [session EXCEPT ![t] = None]
    /\ SessionsOnly

Ages(t) ==
    /\ session[t] # None /\ session[t].fresh # "stale"
    /\ session' = [session EXCEPT ![t].fresh = "stale"]
    /\ SessionsOnly

Revoked == [t \in Tokens |-> None]

\* changeAccountAuthorization: revoke-all, disable and enable, by the operator.
ChangeAuthorization(state, step) ==
    /\ account.epoch + step <= MaxEpoch
    /\ account' = [state |-> state, epoch |-> account.epoch + step]
    /\ session' = Revoked
    /\ UNCHANGED <<subject, listed, owed, registry, stores, request, lost, faults>>

RevokeAll == ChangeAuthorization(account.state, 1)
Disable == ChangeAuthorization("disabled", 1)
Enable == ChangeAuthorization("active", 0)

-----------------------------------------------------------------------------
(* Creating a room: the room object first, the owner's list second. *)

CreateStarts(t) ==
    /\ MayCall(t)
    /\ Begins("create", t, "checked")
    /\ UNCHANGED <<identity, stores, seen, lost, faults>>

\* handleRoomPost: the row and the grant in one transaction; on a room that is
\* there it saves a scene, on a tombstone it is refused.
CreateMakes ==
    /\ room' = IF room = "none" THEN "live" ELSE room
    /\ Goes("create", "checked", IF room = "none" THEN "made" ELSE "idle")
    /\ UNCHANGED <<identity, files, exports, purges, seen, lost, faults>>

\* Where a create goes that the plan or the session refuses.
Refusal == "refused"

\* recordOwnedRoom, if the session lives and the plan has a slot.
CreateReserves ==
    /\ \/ Valid(by["create"]) /\ listed' = TRUE /\ Goes("create", "made", "idle")
       \/ UNCHANGED listed /\ Goes("create", "made", Refusal)
    /\ UNCHANGED <<account, subject, session, owed, registry, stores, seen, lost, faults>>

\* The compensating DELETE leaves a tombstone and looks at no prefix.
CreateUndoes ==
    /\ room' = IF room = "live" THEN "undone" ELSE room
    /\ Goes("create", "refused", "idle")
    /\ UNCHANGED <<identity, files, exports, purges, seen, lost, faults>>

\* The worker dies before the list knows, or its compensation fails.
CreateDies ==
    /\ \E place \in {"made", "refused"} : Goes("create", place, "idle")
    /\ Faulty /\ lost' = TRUE
    /\ UNCHANGED <<identity, stores, seen>>

\* syncOwnedRoomNameFromSettings writes the list once the answer is out.
SettingsStart(t) ==
    /\ MayCall(t)
    /\ Begins("settings", t, "checked")
    /\ UNCHANGED <<identity, stores, seen, lost, faults>>

SettingsStored ==
    /\ Goes("settings", "checked", IF room = "live" THEN "sync" ELSE "idle")
    /\ UNCHANGED <<identity, stores, seen, lost, faults>>

\* Mutant: the worker's own check of the session is taken for good.
Recorded_OnTrust(t) == TRUE

\* POST /accounts/rooms: recordOwnedRoom inserts as well as updates.
Recorded(t) == Valid(t)

SettingsSync ==
    /\ \/ Recorded(by["settings"]) /\ listed' = TRUE
       \/ UNCHANGED listed    \* no session, no slot in the plan, no answer
    /\ Goes("settings", "sync", "idle")
    /\ UNCHANGED <<account, subject, session, owed, registry, stores, seen, lost, faults>>

-----------------------------------------------------------------------------
(* Deleting a room. *)

DeleteStarts(t) ==
    /\ MayCall(t) /\ Fresh(t)
    /\ Begins("delete", t, "checked")
    /\ UNCHANGED <<identity, stores, seen, lost, faults>>

\* handleRoomDelete; a tombstone answers 410 and the worker does no more.
DeleteRoom ==
    /\ room' = IF room = "live" THEN "gone" ELSE room
    /\ Goes("delete", "checked", IF room = "live" THEN "release" ELSE "idle")
    /\ UNCHANGED <<identity, files, exports, purges, seen, lost, faults>>

\* Mutant: the exports are left where they are.
AfterDelete_FilesOnly == {"files"}

\* What a delete purges once it has answered.
AfterDelete == {"files", "exports"}

\* releaseOwnedRoomSlot takes a failure for an answer; the purges outlive it.
DeleteReleases ==
    /\ \/ Valid(by["delete"]) /\ listed' = FALSE /\ UNCHANGED faults
       \/ ~Valid(by["delete"]) /\ UNCHANGED <<listed, faults>>
       \/ Faulty /\ UNCHANGED listed
    /\ purges' = purges \cup AfterDelete
    /\ Goes("delete", "release", "idle")
    /\ UNCHANGED <<account, subject, session, owed, registry, room, files, exports, seen, lost>>

DeleteDies ==
    /\ Goes("delete", "release", "idle") /\ Faulty
    /\ UNCHANGED <<identity, stores, seen, lost>>

\* purgeBoardFiles and purgeRoomBackups, under waitUntil; a failure is logged.
Purges(prefix) ==
    /\ prefix \in purges
    /\ purges' = purges \ {prefix}
    /\ \/ /\ files' = IF prefix = "files" THEN "none" ELSE files
          /\ exports' = IF prefix = "exports" THEN "none" ELSE exports
          /\ UNCHANGED faults
       \/ Faulty /\ UNCHANGED <<files, exports>>
    /\ UNCHANGED <<identity, room, request, lost>>

\* The alarm after ninety idle days: purgeExpiredRoomsAndTombstones, purgeRoomFiles.
\* No backup is due after as many days.
RoomExpires ==
    /\ room = "live" /\ \A k \in Kinds : at[k] = "idle"
    /\ room' = "expired" /\ files' = "none" /\ registry' = FALSE
    /\ UNCHANGED <<account, subject, session, listed, owed, exports, purges, request, lost, faults>>

-----------------------------------------------------------------------------
(* Erasing the account. *)

EraseStarts(t) ==
    /\ MayCall(t) /\ Fresh(t)
    /\ Begins("erase", t, "checked")
    /\ UNCHANGED <<identity, stores, seen, lost, faults>>

\* The identity object lists the rooms to answer with, then waits for two digests.
EraseLists ==
    /\ IF Valid(by["erase"]) /\ Fresh(by["erase"])
       THEN seen' = listed /\ Goes("erase", "checked", "listed")
       ELSE seen' = FALSE /\ Goes("erase", "checked", "idle")
    /\ UNCHANGED <<identity, stores, lost, faults>>

\* Mutant: what is owed is what was listed before the wait.
Owing_Seen == owed \/ seen

\* persistErasureTargets lists again, in the transaction.
Owing == owed \/ listed

\* eraseOwnAccount: one transaction.
EraseCommits ==
    /\ IF Valid(by["erase"])
       THEN /\ account.epoch < MaxEpoch
            /\ owed' = Owing /\ listed' = FALSE
            /\ account' = [state |-> "disabled", epoch |-> account.epoch + 1]
            /\ session' = Revoked
            /\ subject' = FALSE
            /\ Goes("erase", "listed", IF seen THEN "rooms" ELSE "idle")
       ELSE UNCHANGED <<account, subject, session, listed, owed>> /\ Goes("erase", "listed", "idle")
    /\ UNCHANGED <<registry, stores, seen, lost, faults>>

\* handleRoomAccountErasure; the worker does not look at the answer, but a call
\* that throws ends this room's cleaning.
EraseRoom ==
    /\ \/ room' = (IF room = "live" THEN "gone" ELSE room) /\ Goes("erase", "rooms", "files") /\ UNCHANGED faults
       \/ UNCHANGED room /\ Goes("erase", "rooms", "idle") /\ Faulty
    /\ UNCHANGED <<identity, files, exports, purges, seen, lost>>

EraseFiles ==
    /\ \/ files' = "none" /\ UNCHANGED faults
       \/ UNCHANGED files /\ Faulty
    /\ Goes("erase", "files", "exports")
    /\ UNCHANGED <<identity, room, exports, purges, seen, lost>>

EraseExports ==
    /\ \/ exports' = "none" /\ UNCHANGED faults
       \/ UNCHANGED exports /\ Faulty
    /\ Goes("erase", "exports", "clear")
    /\ UNCHANGED <<identity, room, files, purges, seen, lost>>

\* POST /accounts/clear-erasure with the cookie of the session that was erased.
EraseClears ==
    /\ owed' = (owed /\ ~Valid(by["erase"]))
    /\ Goes("erase", "clear", "idle")
    /\ UNCHANGED <<account, subject, session, listed, registry, stores, seen, lost, faults>>

-----------------------------------------------------------------------------
(* What fills the bucket. *)

\* The room object has reserved the bytes and the body is on its way.
UploadReserves(t) ==
    /\ MayCall(t) /\ room = "live"
    /\ Begins("upload", t, "reserved")
    /\ UNCHANGED <<identity, stores, seen, lost, faults>>

UploadPuts ==
    /\ files' = IF room = "live" THEN "before" ELSE "after"
    /\ Goes("upload", "reserved", "idle")
    /\ UNCHANGED <<identity, room, exports, purges, seen, lost, faults>>

\* A flush touches the owner's list and registers the room for backup.
Registers ==
    /\ room = "live"
    /\ registry' = TRUE
    /\ UNCHANGED <<account, subject, session, listed, owed, stores, request, lost, faults>>

\* runBackupCycle, one due target.
BackupDue ==
    /\ registry
    /\ Begins("backup", None, "due")
    /\ UNCHANGED <<identity, stores, seen, lost, faults>>

\* /room/backup/export asks neither for a session nor for a tombstone.
BackupReads ==
    /\ Goes("backup", "due", IF room = "live" THEN "full" ELSE "empty")
    /\ UNCHANGED <<identity, stores, seen, lost, faults>>

BackupPuts ==
    /\ exports' = IF at["backup"] = "empty" THEN "empty" ELSE IF room = "live" THEN "before" ELSE "after"
    /\ \E dump \in {"full", "empty"} : Goes("backup", dump, "idle")
    /\ UNCHANGED <<identity, room, files, purges, seen, lost, faults>>

-----------------------------------------------------------------------------

SessionStep ==
    \/ SignInResolves \/ RevokeAll \/ Disable \/ Enable
    \/ \E t \in Tokens : SignInInserts(t) \/ Confirm(t) \/ Ends(t) \/ Ages(t)
    \/ \E t, u \in Tokens : Rotate(t, u)

Starts == \E t \in Tokens :
    CreateStarts(t) \/ SettingsStart(t) \/ DeleteStarts(t) \/ EraseStarts(t) \/ UploadReserves(t)

RoomStep ==
    \/ CreateMakes \/ CreateReserves \/ CreateUndoes \/ CreateDies
    \/ SettingsStored \/ SettingsSync
    \/ DeleteRoom \/ DeleteReleases \/ DeleteDies \/ \E p \in {"files", "exports"} : Purges(p)
    \/ RoomExpires

EraseStep == EraseLists \/ EraseCommits \/ EraseRoom \/ EraseFiles \/ EraseExports \/ EraseClears

BucketStep == UploadPuts \/ Registers \/ BackupDue \/ BackupReads \/ BackupPuts

Next == SessionStep \/ Starts \/ RoomStep \/ EraseStep \/ BucketStep

Spec == Init /\ [][Next]_vars

-----------------------------------------------------------------------------
(* Properties. *)

TypeOK ==
    /\ account \in [state : {"active", "disabled"}, epoch : 0..MaxEpoch]
    /\ session \in [Tokens -> Session \cup {None}]
    /\ {subject, listed, owed, registry, seen, lost} \subseteq BOOLEAN
    /\ room \in {"none", "live", "gone", "undone", "expired"}
    /\ {files, exports} \subseteq {"none", "before", "after", "empty"}
    /\ purges \subseteq {"files", "exports"}
    /\ at \in [Kinds -> Places] /\ by \in [Kinds -> Tokens \cup {None}]
    /\ faults \in 0..MaxFaults

\* A token that still counts belongs to an account that is active, at its epoch,
\* however sign-ins, rotations, revocations and the erasure overlap
\* (sessionStore.ts:282, 805).
SessionsFollowAccount ==
    \A t \in Tokens : session[t] # None
        => account.state = "active" /\ session[t].epoch = account.epoch

\* A live room that its owner's list does not name is being made, or is owed to
\* an erasure, or its create died: nothing else loses a room (worker.ts:3943,
\* sessionStore.ts:704).
NoRoomIsForgotten ==
    room = "live" /\ ~listed => at["create"] \in {"made", "refused"} \/ owed \/ lost

\* An erased account gets no room back on its list, from any request that was
\* under way (IdentityDO.ts:1779).
ErasedListsNothing == ~subject => ~listed

\* A room was deleted or erased and everything that had to follow has followed.
Settled ==
    room = "gone" /\ purges = {} /\ faults = 0 /\ \A k \in Kinds : at[k] = "idle"

\* Nothing that was in the bucket when the room went is still there, whichever of
\* a delete and an erasure came first (worker.ts:1937, 3940).
BucketGoesWithRoom == Settled => "before" \notin {files, exports}

=============================================================================
