---------------------------- MODULE RoomLifeProofs ----------------------------
(***************************************************************************)
(* What RoomLife guarantees for any number of tokens, of requests under way  *)
(* at once, of faults and of changes of the authorization epoch.             *)
(*                                                                         *)
(* The argument.  An erasure ends every session and the token that asked for *)
(* it never counts again, so what is owed stays owed (Spent), and no request *)
(* that outlives it has a session to write the list with (Outlived).  A room *)
(* that a delete or an erasure took still has its files and exports only     *)
(* while that request, or a purge it left behind, is on its way to them      *)
(* (Following).                                                              *)
(***************************************************************************)
EXTENDS RoomLife, TLAPS

-----------------------------------------------------------------------------
(* The invariant. *)

\* A delete that is about to release the list has taken the room.
Taken == at["delete"] = "release" => room \notin {"none", "live"}

\* The erasure ended the session that asked for it, and nobody is issued a token
\* that a request still carries.
Spent ==
    at["erase"] \in {"rooms", "files", "exports", "clear"} =>
        \A t \in Tokens : by["erase"] = t => session[t] = None

Outlived == ~subject => \A k \in Kinds, t \in Tokens : by[k] = t => session[t] = None

FilesFollow ==
    room = "gone" /\ faults = 0 /\ files = "before" =>
        "files" \in purges \/ at["delete"] = "release" \/ at["erase"] = "files"

ExportsFollow ==
    room = "gone" /\ faults = 0 /\ exports = "before" =>
        "exports" \in purges \/ at["delete"] = "release" \/ at["erase"] \in {"files", "exports"}

Following == FilesFollow /\ ExportsFollow

Kept ==
    /\ TypeOK /\ SessionsFollowAccount /\ NoRoomIsForgotten /\ ErasedListsNothing
    /\ Taken /\ Spent /\ Outlived /\ Following

-----------------------------------------------------------------------------
(* The requests. *)

RequestsOK == at \in [Kinds -> Places] /\ by \in [Kinds -> Tokens \cup {None}]

LEMMA GoesEffect ==
    ASSUME RequestsOK, NEW k \in Kinds, NEW from, NEW place \in Places, Goes(k, from, place)
    PROVE  /\ RequestsOK' /\ at[k] = from /\ at'[k] = place
           /\ by'[k] = by[k] \/ by'[k] = None
           /\ \A j \in Kinds \ {k} : at'[j] = at[j] /\ by'[j] = by[j]
BY DEF Goes, RequestsOK

LEMMA BeginsEffect ==
    ASSUME RequestsOK, NEW k \in Kinds, NEW t \in Tokens \cup {None}, NEW place \in Places,
           Begins(k, t, place)
    PROVE  /\ RequestsOK' /\ at[k] = "idle" /\ at'[k] = place /\ by'[k] = t
           /\ \A j \in Kinds \ {k} : at'[j] = at[j] /\ by'[j] = by[j]
BY DEF Begins, RequestsOK

\* The names of the kinds and of the places, and the facts every step starts from.
LEMMA Names ==
    /\ "signin" \in Kinds /\ "create" \in Kinds /\ "delete" \in Kinds /\ "settings" \in Kinds
    /\ "erase" \in Kinds /\ "upload" \in Kinds /\ "backup" \in Kinds
    /\ "idle" \in Places /\ "resolved" \in Places /\ "checked" \in Places /\ "made" \in Places
    /\ "refused" \in Places /\ "release" \in Places /\ "sync" \in Places /\ "listed" \in Places
    /\ "rooms" \in Places /\ "files" \in Places /\ "exports" \in Places /\ "clear" \in Places
    /\ "reserved" \in Places /\ "due" \in Places /\ "full" \in Places /\ "empty" \in Places
BY DEF Kinds, Places

-----------------------------------------------------------------------------
(* Types. *)

LEMMA SessionTypes == ASSUME TypeOK, SessionStep PROVE TypeOK'
<1>0. MaxEpoch \in Nat
  BY BoundsAreCounts
<1>1. CASE SignInResolves
  BY <1>1, BeginsEffect, Names DEF SignInResolves, TypeOK, RequestsOK, identity, stores
<1>2. ASSUME NEW s \in {"active", "disabled"}, NEW n \in {0, 1}, ChangeAuthorization(s, n) PROVE TypeOK'
  BY <1>0, <1>2 DEF ChangeAuthorization, Revoked, TypeOK, stores, request
<1>3. CASE RevokeAll \/ Disable \/ Enable
  <2>1. account.state \in {"active", "disabled"}
    BY DEF TypeOK
  <2> QED BY <1>2, <1>3, <2>1 DEF RevokeAll, Disable, Enable
<1>4. ASSUME NEW t \in Tokens, SignInInserts(t) PROVE TypeOK'
  <2>1. [epoch |-> account.epoch, fresh |-> "new"] \in Session
    BY DEF TypeOK, Session
  <2> QED BY <1>4, <2>1, GoesEffect, Names DEF SignInInserts, TypeOK, RequestsOK, stores
<1>5. ASSUME NEW t \in Tokens, Confirm(t) \/ Ends(t) \/ Ages(t) PROVE TypeOK'
  <2>1. session[t] # None => /\ [session[t] EXCEPT !.fresh = "confirmed"] \in Session
                             /\ [session[t] EXCEPT !.fresh = "stale"] \in Session
    BY DEF TypeOK, Session
  <2> QED BY <1>5, <2>1 DEF Confirm, Ends, Ages, Valid, SessionsOnly, TypeOK, stores, request
<1>6. ASSUME NEW t \in Tokens, NEW u \in Tokens, Rotate(t, u) PROVE TypeOK'
  <2>1. [session[t] EXCEPT !.fresh = IF @ = "new" THEN "new" ELSE "stale"] \in Session
    BY <1>6 DEF Rotate, Valid, TypeOK, Session
  <2> QED BY <1>6, <2>1 DEF Rotate, SessionsOnly, TypeOK, stores, request
<1> QED BY <1>1, <1>3, <1>4, <1>5, <1>6 DEF SessionStep

LEMMA StartTypes == ASSUME TypeOK, Starts PROVE TypeOK'
<1>1. PICK t \in Tokens, k \in Kinds, p \in Places :
         Begins(k, t, p) /\ UNCHANGED <<identity, stores, seen, lost, faults>>
  BY Names DEF Starts, CreateStarts, SettingsStart, DeleteStarts, EraseStarts, UploadReserves
<1> QED BY <1>1, BeginsEffect DEF TypeOK, RequestsOK, identity, stores

\* A walk of a request that may be one of two ways keeps its type.
LEMMA WalkTypes ==
    ASSUME RequestsOK, NEW k \in Kinds,
           \/ \E p, q \in Places : Goes(k, p, q)
           \/ \E t \in Tokens \cup {None}, q \in Places : Begins(k, t, q)
    PROVE  RequestsOK'
BY GoesEffect, BeginsEffect

LEMMA FaultTypes == ASSUME TypeOK, Faulty PROVE faults' \in 0..MaxFaults
BY BoundsAreCounts DEF TypeOK, Faulty

LEMMA RoomTypes == ASSUME TypeOK, RoomStep PROVE TypeOK'
<1> USE DEF TypeOK, RequestsOK, identity, stores, request
<1>1. CASE CreateMakes
  <2>1. RequestsOK'
    BY <1>1, WalkTypes, Names DEF CreateMakes
  <2> QED BY <1>1, <2>1 DEF CreateMakes
<1>2. CASE CreateReserves
  <2>1. RequestsOK'
    BY <1>2, WalkTypes, Names DEF CreateReserves, Refusal
  <2> QED BY <1>2, <2>1 DEF CreateReserves
<1>3. CASE CreateUndoes
  <2>1. RequestsOK'
    BY <1>3, WalkTypes, Names DEF CreateUndoes
  <2> QED BY <1>3, <2>1 DEF CreateUndoes
<1>4. CASE CreateDies \/ DeleteDies
  <2>1. RequestsOK'
    BY <1>4, WalkTypes, Names DEF CreateDies, DeleteDies
  <2> QED BY <1>4, <2>1, FaultTypes DEF CreateDies, DeleteDies
<1>5. CASE SettingsStored \/ SettingsSync
  <2>1. RequestsOK'
    BY <1>5, WalkTypes, Names DEF SettingsStored, SettingsSync
  <2> QED BY <1>5, <2>1 DEF SettingsStored, SettingsSync
<1>6. CASE DeleteRoom
  <2>1. RequestsOK'
    BY <1>6, WalkTypes, Names DEF DeleteRoom
  <2> QED BY <1>6, <2>1 DEF DeleteRoom
<1>7. CASE DeleteReleases
  <2>1. RequestsOK'
    BY <1>7, WalkTypes, Names DEF DeleteReleases
  <2>2. faults' \in 0..MaxFaults /\ listed' \in BOOLEAN
    BY <1>7, FaultTypes DEF DeleteReleases
  <2> QED BY <1>7, <2>1, <2>2 DEF DeleteReleases, AfterDelete
<1>8. ASSUME NEW p \in {"files", "exports"}, Purges(p) PROVE TypeOK'
  <2>1. faults' \in 0..MaxFaults
    BY <1>8, FaultTypes DEF Purges
  <2> QED BY <1>8, <2>1 DEF Purges
<1>9. CASE RoomExpires
  BY <1>9 DEF RoomExpires
<1> QED BY <1>1, <1>2, <1>3, <1>4, <1>5, <1>6, <1>7, <1>8, <1>9 DEF RoomStep

LEMMA EraseTypes == ASSUME TypeOK, EraseStep PROVE TypeOK'
<1> USE DEF TypeOK, RequestsOK, identity, stores
<1>1. CASE EraseLists
  <2>1. RequestsOK'
    BY <1>1, WalkTypes, Names DEF EraseLists
  <2> QED BY <1>1, <2>1 DEF EraseLists
<1>2. CASE EraseCommits
  <2>1. RequestsOK'
    BY <1>2, WalkTypes, Names DEF EraseCommits
  <2>2. account' \in [state : {"active", "disabled"}, epoch : 0..MaxEpoch]
    <3>1. account.epoch < MaxEpoch => account.epoch + 1 \in 0..MaxEpoch
      BY BoundsAreCounts
    <3> QED BY <1>2, <3>1 DEF EraseCommits
  <2>3. session' \in [Tokens -> Session \cup {None}]
    BY <1>2 DEF EraseCommits, Revoked
  <2> QED BY <1>2, <2>1, <2>2, <2>3 DEF EraseCommits, Owing
<1>3. CASE EraseRoom
  <2>1. RequestsOK'
    BY <1>3, WalkTypes, Names DEF EraseRoom
  <2> QED BY <1>3, <2>1, FaultTypes DEF EraseRoom
<1>4. CASE EraseFiles \/ EraseExports
  <2>1. RequestsOK'
    BY <1>4, WalkTypes, Names DEF EraseFiles, EraseExports
  <2>2. faults' \in 0..MaxFaults
    BY <1>4, FaultTypes DEF EraseFiles, EraseExports
  <2> QED BY <1>4, <2>1, <2>2 DEF EraseFiles, EraseExports
<1>5. CASE EraseClears
  <2>1. RequestsOK'
    BY <1>5, WalkTypes, Names DEF EraseClears
  <2> QED BY <1>5, <2>1 DEF EraseClears
<1> QED BY <1>1, <1>2, <1>3, <1>4, <1>5 DEF EraseStep

LEMMA BucketTypes == ASSUME TypeOK, BucketStep PROVE TypeOK'
<1> USE DEF TypeOK, RequestsOK, identity, stores, request
<1>1. CASE UploadPuts
  <2>1. RequestsOK'
    BY <1>1, WalkTypes, Names DEF UploadPuts
  <2> QED BY <1>1, <2>1 DEF UploadPuts
<1>2. CASE Registers
  BY <1>2 DEF Registers
<1>3. CASE BackupDue \/ BackupReads
  <2>1. RequestsOK'
    BY <1>3, WalkTypes, Names DEF BackupDue, BackupReads
  <2> QED BY <1>3, <2>1 DEF BackupDue, BackupReads
<1>4. CASE BackupPuts
  <2>1. RequestsOK'
    BY <1>4, WalkTypes, Names DEF BackupPuts
  <2> QED BY <1>4, <2>1 DEF BackupPuts
<1> QED BY <1>1, <1>2, <1>3, <1>4 DEF BucketStep

LEMMA TypeStep == TypeOK /\ [Next]_vars => TypeOK'
<1> SUFFICES ASSUME TypeOK, [Next]_vars PROVE TypeOK'
  OBVIOUS
<1>1. CASE UNCHANGED vars
  BY <1>1 DEF vars, identity, stores, request, TypeOK
<1> QED BY <1>1, SessionTypes, StartTypes, RoomTypes, EraseTypes, BucketTypes DEF Next

-----------------------------------------------------------------------------
(* Who touches what. *)

\* The account and its sessions change in a session step or with the erasure.
LEMMA AccountElsewhere ==
    ASSUME Starts \/ RoomStep \/ EraseStep \/ BucketStep
    PROVE  EraseCommits \/ UNCHANGED <<account, subject, session>>
<1> USE DEF identity
<1>1. CASE Starts
  BY <1>1 DEF Starts, CreateStarts, SettingsStart, DeleteStarts, EraseStarts, UploadReserves
<1>2. CASE RoomStep
  BY <1>2 DEF RoomStep, CreateMakes, CreateReserves, CreateUndoes, CreateDies, SettingsStored,
     SettingsSync, DeleteRoom, DeleteReleases, DeleteDies, Purges, RoomExpires
<1>3. CASE EraseStep
  BY <1>3 DEF EraseStep, EraseLists, EraseRoom, EraseFiles, EraseExports, EraseClears
<1>4. CASE BucketStep
  BY <1>4 DEF BucketStep, UploadPuts, Registers, BackupDue, BackupReads, BackupPuts
<1> QED BY <1>1, <1>2, <1>3, <1>4

\* What a session step leaves alone, and what it does to the requests.
LEMMA SessionFrame ==
    ASSUME TypeOK, SessionStep
    PROVE  /\ UNCHANGED <<subject, listed, owed, registry, stores, seen, lost, faults>>
           /\ \A k \in Kinds : by'[k] = by[k] \/ by'[k] = None
           /\ \A k \in Kinds \ {"signin"} : at'[k] = at[k] /\ by'[k] = by[k]
<1> USE DEF TypeOK, RequestsOK, identity, request
<1>1. CASE SignInResolves
  BY <1>1, BeginsEffect, Names DEF SignInResolves
<1>2. CASE RevokeAll \/ Disable \/ Enable
  BY <1>2 DEF RevokeAll, Disable, Enable, ChangeAuthorization
<1>3. ASSUME NEW t \in Tokens, SignInInserts(t)
      PROVE  /\ UNCHANGED <<subject, listed, owed, registry, stores, seen, lost, faults>>
             /\ \A k \in Kinds : by'[k] = by[k] \/ by'[k] = None
             /\ \A k \in Kinds \ {"signin"} : at'[k] = at[k] /\ by'[k] = by[k]
  BY <1>3, GoesEffect, Names DEF SignInInserts
<1>4. ASSUME NEW t \in Tokens, NEW u \in Tokens, Confirm(t) \/ Ends(t) \/ Ages(t) \/ Rotate(t, u)
      PROVE  UNCHANGED <<subject, listed, owed, registry, stores, seen, lost, faults, at, by>>
  BY <1>4 DEF Confirm, Ends, Ages, Rotate, SessionsOnly
<1> QED BY <1>1, <1>2, <1>3, <1>4 DEF SessionStep

\* A token gets a session only when nobody carries it, and while the account is active.
LEMMA SessionGrows ==
    ASSUME TypeOK, SessionStep, NEW t \in Tokens, session'[t] # None
    PROVE  session[t] # None \/ Unused(t)
<1>1. CASE SignInResolves
  BY <1>1 DEF SignInResolves, identity
<1>2. CASE RevokeAll \/ Disable \/ Enable
  BY <1>2 DEF RevokeAll, Disable, Enable, ChangeAuthorization, Revoked
<1>3. ASSUME NEW u \in Tokens, SignInInserts(u) PROVE session[t] # None \/ Unused(t)
  BY <1>3 DEF SignInInserts, TypeOK
<1>4. ASSUME NEW u \in Tokens, Confirm(u) \/ Ends(u) \/ Ages(u) PROVE session[t] # None \/ Unused(t)
  BY <1>4 DEF Confirm, Ends, Ages, Valid, TypeOK
<1>5. ASSUME NEW u \in Tokens, NEW v \in Tokens, Rotate(u, v) PROVE session[t] # None \/ Unused(t)
  BY <1>5 DEF Rotate, Valid, TypeOK
<1> QED BY <1>1, <1>2, <1>3, <1>4, <1>5 DEF SessionStep

\* A request carries the token it was begun with, and it was begun by a caller.
LEMMA Carried ==
    ASSUME TypeOK, [Next]_vars, NEW k \in Kinds, NEW t \in Tokens, by'[k] = t
    PROVE  by[k] = t \/ (MayCall(t) /\ at[k] = "idle" /\ at'[k] \in {"checked", "reserved"})
<1>0. RequestsOK /\ t # None
  BY NoneIsNoToken DEF TypeOK, RequestsOK
<1> USE DEF request
<1>1. CASE SessionStep
  BY <1>0, <1>1, SessionFrame
<1>2. CASE Starts
  <2>1. PICK u \in Tokens, j \in Kinds, p \in {"checked", "reserved"} : MayCall(u) /\ Begins(j, u, p)
    BY <1>2, Names DEF Starts, CreateStarts, SettingsStart, DeleteStarts, EraseStarts, UploadReserves
  <2> QED BY <1>0, <2>1, BeginsEffect, Names
<1>3. CASE RoomStep
  <2>1. \/ UNCHANGED <<at, by>>
        \/ \E j \in Kinds, p, q \in Places : Goes(j, p, q)
    BY <1>3, Names DEF RoomStep, CreateMakes, CreateReserves, CreateUndoes, CreateDies,
       SettingsStored, SettingsSync, DeleteRoom, DeleteReleases, DeleteDies, Purges, RoomExpires, Refusal
  <2> QED BY <1>0, <2>1, GoesEffect
<1>4. CASE EraseStep
  <2>1. \E j \in Kinds, p, q \in Places : Goes(j, p, q)
    BY <1>4, Names DEF EraseStep, EraseLists, EraseCommits, EraseRoom, EraseFiles, EraseExports, EraseClears
  <2> QED BY <1>0, <2>1, GoesEffect
<1>5. CASE BucketStep
  <2>1. \/ UNCHANGED <<at, by>> \/ Begins("backup", None, "due")
        \/ \E j \in Kinds, p, q \in Places : Goes(j, p, q)
    BY <1>5, Names DEF BucketStep, UploadPuts, Registers, BackupDue, BackupReads, BackupPuts
  <2> QED BY <1>0, <2>1, GoesEffect, BeginsEffect, Names
<1>6. CASE UNCHANGED vars
  BY <1>6 DEF vars
<1> QED BY <1>1, <1>2, <1>3, <1>4, <1>5, <1>6 DEF Next

-----------------------------------------------------------------------------
(* Sessions. *)

LEMMA FollowStep == TypeOK /\ SessionsFollowAccount /\ [Next]_vars => SessionsFollowAccount'
<1> SUFFICES ASSUME TypeOK, SessionsFollowAccount, [Next]_vars PROVE SessionsFollowAccount'
  OBVIOUS
<1> USE DEF SessionsFollowAccount
<1>1. CASE UNCHANGED <<account, session>>
  BY <1>1
<1>2. CASE session' = Revoked
  BY <1>2 DEF Revoked
<1>3. ASSUME NEW t \in Tokens, SignInInserts(t) PROVE SessionsFollowAccount'
  BY <1>3 DEF SignInInserts, Issued, TypeOK
<1>4. ASSUME NEW t \in Tokens, Confirm(t) \/ Ends(t) \/ Ages(t) PROVE SessionsFollowAccount'
  <2>1. session[t] # None => session[t] \in Session
    BY DEF TypeOK
  <2>2. session[t] # None => /\ [session[t] EXCEPT !.fresh = "confirmed"].epoch = session[t].epoch
                             /\ [session[t] EXCEPT !.fresh = "stale"].epoch = session[t].epoch
    BY <2>1 DEF Session
  <2> QED BY <1>4, <2>2 DEF Confirm, Ends, Ages, Valid, SessionsOnly, TypeOK
<1>5. ASSUME NEW t \in Tokens, NEW u \in Tokens, Rotate(t, u) PROVE SessionsFollowAccount'
  <2>1. session[t] \in Session
    BY <1>5 DEF Rotate, Valid, TypeOK
  <2>2. PICK r : r = [session[t] EXCEPT !.fresh = IF @ = "new" THEN "new" ELSE "stale"]
    OBVIOUS
  <2>3. r.epoch = session[t].epoch
    BY <2>1, <2>2 DEF Session
  <2> QED BY <1>5, <2>2, <2>3 DEF Rotate, Valid, SessionsOnly, TypeOK
<1>6. SessionStep => SessionsFollowAccount'
  BY <1>1, <1>2, <1>3, <1>4, <1>5 DEF SessionStep, SignInResolves, RevokeAll, Disable, Enable,
     ChangeAuthorization, identity
<1>7. EraseCommits => session' = Revoked \/ UNCHANGED <<account, session>>
  BY DEF EraseCommits
<1> QED BY <1>1, <1>2, <1>6, <1>7, AccountElsewhere DEF Next, vars, identity

LEMMA OutlivedStep == TypeOK /\ Outlived /\ [Next]_vars => Outlived'
<1> SUFFICES ASSUME TypeOK, Outlived, [Next]_vars, ~subject',
                    NEW k \in Kinds, NEW t \in Tokens, by'[k] = t
             PROVE  session'[t] = None
  BY DEF Outlived
<1>1. CASE EraseCommits /\ session' = Revoked
  BY <1>1 DEF Revoked
<1>2. CASE SessionStep
  <2>1. ~subject /\ by[k] = t
    BY <1>2, SessionFrame, Carried DEF MayCall
  <2>2. session[t] = None /\ ~Unused(t)
    BY <2>1 DEF Outlived, Unused
  <2> QED BY <1>2, <2>2, SessionGrows
<1>3. CASE UNCHANGED <<subject, session>>
  <2>1. ~subject /\ by[k] = t
    BY <1>3, Carried DEF MayCall
  <2> QED BY <1>3, <2>1 DEF Outlived
<1>4. EraseCommits => session' = Revoked \/ UNCHANGED <<subject, session>>
  BY DEF EraseCommits
<1> QED BY <1>1, <1>2, <1>3, <1>4, AccountElsewhere DEF Next, vars, identity

LEMMA SpentStep == TypeOK /\ Spent /\ [Next]_vars => Spent'
<1> DEFINE After == {"rooms", "files", "exports", "clear"}
<1> SUFFICES ASSUME TypeOK, Spent, [Next]_vars, at'["erase"] \in After,
                    NEW t \in Tokens, by'["erase"] = t
             PROVE  session'[t] = None
  BY DEF Spent
<1>0. RequestsOK /\ by["erase"] = t
  BY Carried, Names DEF TypeOK, RequestsOK
<1>1. CASE EraseCommits
  <2>1. at["erase"] = "listed" /\ (session' = Revoked \/ at'["erase"] = "idle")
    BY <1>0, <1>1, GoesEffect, Names DEF EraseCommits
  <2> QED BY <2>1 DEF Revoked
<1>2. CASE SessionStep
  <2>1. at["erase"] \in After
    BY <1>2, SessionFrame, Names
  <2>2. session[t] = None /\ ~Unused(t)
    BY <1>0, <2>1, Names DEF Spent, Unused
  <2> QED BY <1>2, <2>2, SessionGrows
<1>3. CASE UNCHANGED session /\ at["erase"] \in After
  BY <1>0, <1>3 DEF Spent
<1>4. ASSUME ~EraseCommits, Starts \/ RoomStep \/ EraseStep \/ BucketStep PROVE at["erase"] \in After
  <2>1. CASE Starts
    BY <1>0, <2>1, BeginsEffect, Names
    DEF Starts, CreateStarts, SettingsStart, DeleteStarts, EraseStarts, UploadReserves
  <2>2. CASE RoomStep
    <3>1. UNCHANGED <<at, by>> \/ \E j \in Kinds \ {"erase"}, p, q \in Places : Goes(j, p, q)
      BY <2>2, Names DEF RoomStep, CreateMakes, CreateReserves, CreateUndoes, CreateDies,
         SettingsStored, SettingsSync, DeleteRoom, DeleteReleases, DeleteDies, Purges, RoomExpires,
         Refusal, request
    <3> QED BY <1>0, <3>1, GoesEffect, Names
  <2>3. CASE EraseStep
    BY <1>0, <1>4, <2>3, GoesEffect, Names
    DEF EraseStep, EraseLists, EraseRoom, EraseFiles, EraseExports, EraseClears
  <2>4. CASE BucketStep
    BY <1>0, <2>4, GoesEffect, BeginsEffect, Names
    DEF BucketStep, UploadPuts, Registers, BackupDue, BackupReads, BackupPuts, request
  <2> QED BY <1>4, <2>1, <2>2, <2>3, <2>4
<1>5. CASE UNCHANGED vars
  BY <1>3, <1>5 DEF vars, identity, request
<1> QED BY <1>1, <1>2, <1>3, <1>4, <1>5, AccountElsewhere DEF Next

-----------------------------------------------------------------------------
(* The list and the room. *)

\* The list changes with a create, a settings sync, a delete or the erasure.
LEMMA ListElsewhere ==
    ASSUME TypeOK, [Next]_vars
    PROVE  \/ UNCHANGED <<subject, listed>> \/ CreateReserves \/ SettingsSync
           \/ DeleteReleases \/ EraseCommits
<1> USE DEF identity
<1>1. CASE SessionStep
  BY <1>1, SessionFrame
<1>2. CASE Starts
  BY <1>2 DEF Starts, CreateStarts, SettingsStart, DeleteStarts, EraseStarts, UploadReserves
<1>3. CASE RoomStep
  BY <1>3 DEF RoomStep, CreateMakes, CreateUndoes, CreateDies, SettingsStored, DeleteRoom,
     DeleteDies, Purges, RoomExpires
<1>4. CASE EraseStep
  BY <1>4 DEF EraseStep, EraseLists, EraseRoom, EraseFiles, EraseExports, EraseClears
<1>5. CASE BucketStep
  BY <1>5 DEF BucketStep, UploadPuts, Registers, BackupDue, BackupReads, BackupPuts
<1>6. CASE UNCHANGED vars
  BY <1>6 DEF vars
<1> QED BY <1>1, <1>2, <1>3, <1>4, <1>5, <1>6 DEF Next

LEMMA ListStep ==
    TypeOK /\ Outlived /\ ErasedListsNothing /\ [Next]_vars => ErasedListsNothing'
<1> SUFFICES ASSUME TypeOK, Outlived, ErasedListsNothing, [Next]_vars PROVE ErasedListsNothing'
  OBVIOUS
<1>1. ASSUME NEW k \in Kinds, Valid(by[k]) PROVE subject
  BY <1>1 DEF Valid, Outlived, TypeOK
<1>2. CASE UNCHANGED <<subject, listed>>
  BY <1>2 DEF ErasedListsNothing
<1>3. CASE CreateReserves
  BY <1>1, <1>3, Names DEF CreateReserves, ErasedListsNothing
<1>4. CASE SettingsSync
  BY <1>1, <1>4, Names DEF SettingsSync, Recorded, ErasedListsNothing
<1>5. CASE DeleteReleases
  BY <1>5 DEF DeleteReleases, ErasedListsNothing
<1>6. CASE EraseCommits
  BY <1>6 DEF EraseCommits, ErasedListsNothing
<1> QED BY <1>2, <1>3, <1>4, <1>5, <1>6, ListElsewhere

\* The room is there once it was made, and no longer once it was taken.
LEMMA RoomMoves ==
    ASSUME TypeOK, [Next]_vars
    PROVE  \/ room' = room
           \/ CreateMakes \/ (room' \notin {"none", "live"} /\ room = "live")
<1> USE DEF stores
<1>1. CASE SessionStep
  BY <1>1, SessionFrame
<1>2. CASE Starts
  BY <1>2 DEF Starts, CreateStarts, SettingsStart, DeleteStarts, EraseStarts, UploadReserves
<1>3. CASE RoomStep
  BY <1>3 DEF RoomStep, CreateReserves, CreateUndoes, CreateDies, SettingsStored, SettingsSync,
     DeleteRoom, DeleteReleases, DeleteDies, Purges, RoomExpires
<1>4. CASE EraseStep
  BY <1>4 DEF EraseStep, EraseLists, EraseCommits, EraseRoom, EraseFiles, EraseExports, EraseClears
<1>5. CASE BucketStep
  BY <1>5 DEF BucketStep, UploadPuts, Registers, BackupDue, BackupReads, BackupPuts
<1>6. CASE UNCHANGED vars
  BY <1>6 DEF vars
<1> QED BY <1>1, <1>2, <1>3, <1>4, <1>5, <1>6 DEF Next

\* Only its own steps move a create, a delete or an erasure that is under way.
LEMMA OthersRequests ==
    ASSUME TypeOK, [Next]_vars
    PROVE  /\ at'["create"] = at["create"] \/ at["create"] = "idle"
              \/ CreateMakes \/ CreateReserves \/ CreateUndoes \/ CreateDies
           /\ at'["delete"] = at["delete"] \/ (at["delete"] = "idle" /\ at'["delete"] # "release")
              \/ DeleteRoom \/ DeleteReleases \/ DeleteDies
           /\ at'["erase"] = at["erase"] \/ at["erase"] = "idle" \/ EraseStep
<1> DEFINE Still(k) == at'[k] = at[k]
           Begun(k) == at[k] = "idle" /\ at'[k] # "release"
<1>0. RequestsOK
  BY DEF TypeOK, RequestsOK
<1>1. ASSUME SessionStep PROVE Still("create") /\ Still("delete") /\ Still("erase")
  BY <1>1, SessionFrame, Names
<1>2. ASSUME Starts PROVE \A k \in Kinds : Still(k) \/ Begun(k)
  <2>1. PICK u \in Tokens, j \in Kinds, p \in {"checked", "reserved"} : Begins(j, u, p)
    BY <1>2, Names DEF Starts, CreateStarts, SettingsStart, DeleteStarts, EraseStarts, UploadReserves
  <2>2. /\ at[j] = "idle" /\ at'[j] = p /\ \A k \in Kinds \ {j} : at'[k] = at[k]
    BY <1>0, <2>1, BeginsEffect, Names
  <2> QED BY <2>2
<1>3. ASSUME CreateMakes \/ CreateReserves \/ CreateUndoes \/ CreateDies
      PROVE  Still("delete") /\ Still("erase")
  BY <1>0, <1>3, GoesEffect, Names DEF CreateMakes, CreateReserves, CreateUndoes, CreateDies, Refusal
<1>4. ASSUME SettingsStored \/ SettingsSync PROVE Still("create") /\ Still("delete") /\ Still("erase")
  BY <1>0, <1>4, GoesEffect, Names DEF SettingsStored, SettingsSync
<1>5. ASSUME DeleteRoom \/ DeleteReleases \/ DeleteDies PROVE Still("create") /\ Still("erase")
  BY <1>0, <1>5, GoesEffect, Names DEF DeleteRoom, DeleteReleases, DeleteDies
<1>6. ASSUME RoomExpires \/ \E p \in {"files", "exports"} : Purges(p)
      PROVE  Still("create") /\ Still("delete") /\ Still("erase")
  BY <1>6 DEF Purges, RoomExpires, request
<1>7. ASSUME EraseStep PROVE Still("create") /\ Still("delete")
  <2>1. PICK p \in Places, q \in Places : Goes("erase", p, q)
    BY <1>7, Names DEF EraseStep, EraseLists, EraseCommits, EraseRoom, EraseFiles, EraseExports, EraseClears
  <2> QED BY <1>0, <2>1, GoesEffect, Names
<1>8. ASSUME BucketStep PROVE Still("create") /\ Still("delete") /\ Still("erase")
  <2>1. CASE UploadPuts
    BY <1>0, <2>1, GoesEffect, Names DEF UploadPuts
  <2>2. CASE Registers
    BY <2>2 DEF Registers, request
  <2>3. CASE BackupDue
    <3>1. Begins("backup", None, "due")
      BY <2>3 DEF BackupDue
    <3> QED BY <1>0, <3>1, BeginsEffect, Names
  <2>4. CASE BackupReads \/ BackupPuts
    <3>1. PICK p \in Places, q \in Places : Goes("backup", p, q)
      BY <2>4, Names DEF BackupReads, BackupPuts
    <3> QED BY <1>0, <3>1, GoesEffect, Names
  <2> QED BY <1>8, <2>1, <2>2, <2>3, <2>4 DEF BucketStep
<1>9. ASSUME UNCHANGED vars PROVE Still("create") /\ Still("delete") /\ Still("erase")
  BY <1>9 DEF vars, request
<1>10. "create" \in Kinds /\ "delete" \in Kinds /\ "erase" \in Kinds
  BY Names
<1> HIDE DEF Still, Begun
<1>11. /\ Still("create") \/ Begun("create") \/ CreateMakes \/ CreateReserves \/ CreateUndoes \/ CreateDies
       /\ Still("delete") \/ Begun("delete") \/ DeleteRoom \/ DeleteReleases \/ DeleteDies
       /\ Still("erase") \/ Begun("erase") \/ EraseStep
  BY <1>1, <1>2, <1>3, <1>4, <1>5, <1>6, <1>7, <1>8, <1>9, <1>10 DEF Next, RoomStep
<1> QED BY <1>11 DEF Still, Begun

LEMMA TakenStep == TypeOK /\ Taken /\ [Next]_vars => Taken'
<1> SUFFICES ASSUME TypeOK, Taken, [Next]_vars, at'["delete"] = "release"
             PROVE  room' \notin {"none", "live"}
  BY DEF Taken
<1>0. RequestsOK
  BY DEF TypeOK, RequestsOK
<1>1. CASE DeleteRoom
  BY <1>0, <1>1, GoesEffect, Names DEF DeleteRoom
<1>2. CASE DeleteReleases \/ DeleteDies
  BY <1>0, <1>2, GoesEffect, Names DEF DeleteReleases, DeleteDies
<1>3. CASE at["delete"] = "release"
  <2>1. CreateMakes => room' = room \/ room = "none"
    BY DEF CreateMakes
  <2> QED BY <1>3, <2>1, RoomMoves DEF Taken
<1> QED BY <1>1, <1>2, <1>3, OthersRequests

\* What is owed is owed for good: the session that could clear it has ended.
LEMMA OwedStays == ASSUME TypeOK, Spent, [Next]_vars, owed PROVE owed'
<1> USE DEF identity
<1>1. CASE SessionStep
  BY <1>1, SessionFrame
<1>2. CASE Starts
  BY <1>2 DEF Starts, CreateStarts, SettingsStart, DeleteStarts, EraseStarts, UploadReserves
<1>3. CASE RoomStep
  BY <1>3 DEF RoomStep, CreateMakes, CreateReserves, CreateUndoes, CreateDies, SettingsStored,
     SettingsSync, DeleteRoom, DeleteReleases, DeleteDies, Purges, RoomExpires
<1>4. CASE EraseStep
  <2>1. ~EraseClears => owed'
    BY <1>4 DEF EraseStep, EraseLists, EraseCommits, Owing, EraseRoom, EraseFiles, EraseExports
  <2>2. EraseClears => ~Valid(by["erase"])
    BY NoneIsNoToken, Names DEF EraseClears, Goes, Spent, Valid, TypeOK
  <2> QED BY <2>1, <2>2 DEF EraseClears
<1>5. CASE BucketStep
  BY <1>5 DEF BucketStep, UploadPuts, Registers, BackupDue, BackupReads, BackupPuts
<1>6. CASE UNCHANGED vars
  BY <1>6 DEF vars
<1> QED BY <1>1, <1>2, <1>3, <1>4, <1>5, <1>6 DEF Next

\* A create that died is remembered.
LEMMA LostStays == ASSUME TypeOK, [Next]_vars, lost PROVE lost'
<1>1. CASE SessionStep
  BY <1>1, SessionFrame
<1>2. CASE Starts
  BY <1>2 DEF Starts, CreateStarts, SettingsStart, DeleteStarts, EraseStarts, UploadReserves
<1>3. CASE RoomStep
  BY <1>3 DEF RoomStep, CreateMakes, CreateReserves, CreateUndoes, CreateDies, SettingsStored,
     SettingsSync, DeleteRoom, DeleteReleases, DeleteDies, Purges, RoomExpires
<1>4. CASE EraseStep
  BY <1>4 DEF EraseStep, EraseLists, EraseCommits, EraseRoom, EraseFiles, EraseExports, EraseClears
<1>5. CASE BucketStep
  BY <1>5 DEF BucketStep, UploadPuts, Registers, BackupDue, BackupReads, BackupPuts
<1>6. CASE UNCHANGED vars
  BY <1>6 DEF vars
<1> QED BY <1>1, <1>2, <1>3, <1>4, <1>5, <1>6 DEF Next

LEMMA ForgottenStep ==
    TypeOK /\ Taken /\ Spent /\ NoRoomIsForgotten /\ [Next]_vars => NoRoomIsForgotten'
<1> SUFFICES ASSUME TypeOK, Taken, Spent, NoRoomIsForgotten, [Next]_vars,
                    room' = "live", ~listed', ~lost', ~owed'
             PROVE  at'["create"] \in {"made", "refused"}
  BY DEF NoRoomIsForgotten
<1>0. RequestsOK /\ ~owed /\ ~lost
  BY OwedStays, LostStays DEF TypeOK, RequestsOK
<1>1. CASE CreateMakes
  <2>1. CASE room = "none"
    BY <1>0, <1>1, <2>1, GoesEffect, Names DEF CreateMakes
  <2>2. CASE room # "none"
    BY <1>0, <1>1, <2>2, GoesEffect, Names DEF CreateMakes, NoRoomIsForgotten, identity
  <2> QED BY <2>1, <2>2
<1>2. CASE ~CreateMakes
  <2>1. room = "live"
    BY <1>2, RoomMoves
  <2>2. ~listed
    <3>1. CASE DeleteReleases
      BY <1>0, <2>1, <3>1, GoesEffect, Names DEF DeleteReleases, Taken
    <3>2. CASE EraseCommits
      BY <1>0, <3>2 DEF EraseCommits, Owing
    <3>3. CASE CreateReserves \/ SettingsSync
      BY <3>3 DEF CreateReserves, SettingsSync
    <3> QED BY <3>1, <3>2, <3>3, ListElsewhere
  <2>3. at["create"] \in {"made", "refused"}
    BY <1>0, <2>1, <2>2 DEF NoRoomIsForgotten
  <2>4. CASE CreateReserves
    BY <1>0, <2>4, GoesEffect, Names DEF CreateReserves, Refusal
  <2>5. ~CreateUndoes /\ ~CreateDies
    BY <2>1 DEF CreateUndoes, CreateDies
  <2> QED BY <1>2, <2>3, <2>4, <2>5, OthersRequests
<1> QED BY <1>1, <1>2

-----------------------------------------------------------------------------
(* The bucket. *)

\* The files and the exports are put while the room lives, or after it went.
LEMMA Puts ==
    ASSUME TypeOK, [Next]_vars
    PROVE  /\ files' = files \/ files' # "before" \/ (room = "live" /\ room' = "live")
           /\ exports' = exports \/ exports' # "before" \/ (room = "live" /\ room' = "live")
<1> USE DEF stores
<1>1. CASE SessionStep
  BY <1>1, SessionFrame
<1>2. CASE Starts
  BY <1>2 DEF Starts, CreateStarts, SettingsStart, DeleteStarts, EraseStarts, UploadReserves
<1>3. CASE RoomStep
  BY <1>3 DEF RoomStep, CreateMakes, CreateReserves, CreateUndoes, CreateDies, SettingsStored,
     SettingsSync, DeleteRoom, DeleteReleases, DeleteDies, Purges, RoomExpires
<1>4. CASE EraseStep
  BY <1>4 DEF EraseStep, EraseLists, EraseCommits, EraseRoom, EraseFiles, EraseExports, EraseClears
<1>5. CASE BucketStep
  BY <1>5 DEF BucketStep, UploadPuts, Registers, BackupDue, BackupReads, BackupPuts
<1>6. CASE UNCHANGED vars
  BY <1>6 DEF vars
<1> QED BY <1>1, <1>2, <1>3, <1>4, <1>5, <1>6 DEF Next

\* Nothing takes a fault back, and nothing forgets a purge that did not fail.
LEMMA Pending ==
    ASSUME TypeOK, [Next]_vars, faults' = 0
    PROVE  /\ faults = 0
           /\ "files" \in purges => "files" \in purges' \/ files' = "none"
           /\ "exports" \in purges => "exports" \in purges' \/ exports' = "none"
<1>0. ~Faulty /\ faults \in Nat
  BY BoundsAreCounts DEF TypeOK, Faulty
<1> USE DEF stores
<1>1. CASE SessionStep
  BY <1>1, SessionFrame
<1>2. CASE Starts
  BY <1>2 DEF Starts, CreateStarts, SettingsStart, DeleteStarts, EraseStarts, UploadReserves
<1>3. ASSUME NEW p \in {"files", "exports"}, Purges(p)
      PROVE  /\ faults = 0
             /\ "files" \in purges => "files" \in purges' \/ files' = "none"
             /\ "exports" \in purges => "exports" \in purges' \/ exports' = "none"
  BY <1>0, <1>3 DEF Purges
<1>4. CASE RoomStep
  BY <1>0, <1>3, <1>4 DEF RoomStep, CreateMakes, CreateReserves, CreateUndoes, CreateDies,
     SettingsStored, SettingsSync, DeleteRoom, DeleteReleases, DeleteDies, RoomExpires
<1>5. CASE EraseStep
  BY <1>0, <1>5 DEF EraseStep, EraseLists, EraseCommits, EraseRoom, EraseFiles, EraseExports, EraseClears
<1>6. CASE BucketStep
  BY <1>6 DEF BucketStep, UploadPuts, Registers, BackupDue, BackupReads, BackupPuts
<1>7. CASE UNCHANGED vars
  BY <1>7 DEF vars
<1> QED BY <1>1, <1>2, <1>4, <1>5, <1>6, <1>7 DEF Next

\* A room goes with a delete that purges next, or with an erasure that does.
LEMMA Goners ==
    ASSUME TypeOK, [Next]_vars, room' = "gone", faults' = 0
    PROVE  \/ room = "gone" \/ at'["delete"] = "release" \/ at'["erase"] = "files"
<1>0. RequestsOK /\ ~Faulty
  <2>1. faults \in Nat
    BY BoundsAreCounts DEF TypeOK
  <2> QED BY <2>1 DEF TypeOK, RequestsOK, Faulty
<1> USE DEF stores
<1>1. CASE SessionStep
  BY <1>1, SessionFrame
<1>2. CASE Starts
  BY <1>2 DEF Starts, CreateStarts, SettingsStart, DeleteStarts, EraseStarts, UploadReserves
<1>3. CASE DeleteRoom
  <2>1. CASE room = "live"
    BY <1>0, <1>3, <2>1, GoesEffect, Names DEF DeleteRoom
  <2> QED BY <1>3, <2>1 DEF DeleteRoom
<1>4. CASE RoomStep /\ ~DeleteRoom
  BY <1>4 DEF RoomStep, CreateMakes, CreateReserves, CreateUndoes, CreateDies, SettingsStored,
     SettingsSync, DeleteReleases, DeleteDies, Purges, RoomExpires
<1>5. CASE EraseRoom
  BY <1>0, <1>5, GoesEffect, Names DEF EraseRoom
<1>6. CASE EraseStep /\ ~EraseRoom
  BY <1>6 DEF EraseStep, EraseLists, EraseCommits, EraseFiles, EraseExports, EraseClears
<1>7. CASE BucketStep
  BY <1>7 DEF BucketStep, UploadPuts, Registers, BackupDue, BackupReads, BackupPuts
<1>8. CASE UNCHANGED vars
  BY <1>8 DEF vars
<1> QED BY <1>1, <1>2, <1>3, <1>4, <1>5, <1>6, <1>7, <1>8 DEF Next

\* A delete on its way to its purges leaves them behind it.
LEMMA DeleteFollows ==
    ASSUME TypeOK, [Next]_vars, faults' = 0, at["delete"] = "release"
    PROVE  at'["delete"] = "release" \/ {"files", "exports"} \subseteq purges'
<1>0. RequestsOK /\ ~Faulty
  <2>1. faults \in Nat
    BY BoundsAreCounts DEF TypeOK
  <2> QED BY <2>1 DEF TypeOK, RequestsOK, Faulty
<1>1. ~DeleteDies
  BY <1>0 DEF DeleteDies
<1>2. DeleteRoom => at["delete"] = "checked"
  BY DEF DeleteRoom, Goes
<1>3. DeleteReleases => {"files", "exports"} \subseteq purges'
  BY DEF DeleteReleases, AfterDelete
<1> QED BY <1>1, <1>2, <1>3, OthersRequests

\* An erasure empties the files and then the exports, unless it fails.
LEMMA EraseFollows ==
    ASSUME TypeOK, [Next]_vars, faults' = 0
    PROVE  /\ at["erase"] = "files" => at'["erase"] = "files" \/ (at'["erase"] = "exports" /\ files' = "none")
           /\ at["erase"] = "exports" => at'["erase"] = "exports" \/ exports' = "none"
<1>0. RequestsOK /\ ~Faulty
  <2>1. faults \in Nat
    BY BoundsAreCounts DEF TypeOK
  <2> QED BY <2>1 DEF TypeOK, RequestsOK, Faulty
<1>1. CASE EraseFiles
  BY <1>0, <1>1, GoesEffect, Names DEF EraseFiles
<1>2. CASE EraseExports
  BY <1>0, <1>2, GoesEffect, Names DEF EraseExports
<1>3. EraseLists => at["erase"] = "checked"
  BY DEF EraseLists, Goes
<1>4. EraseCommits => at["erase"] = "listed"
  BY DEF EraseCommits, Goes
<1>5. EraseRoom => at["erase"] = "rooms"
  BY DEF EraseRoom, Goes
<1>6. EraseClears => at["erase"] = "clear"
  BY DEF EraseClears, Goes
<1> QED BY <1>1, <1>2, <1>3, <1>4, <1>5, <1>6, OthersRequests DEF EraseStep

LEMMA FollowingStep == TypeOK /\ Following /\ [Next]_vars => Following'
<1> SUFFICES ASSUME TypeOK, Following, [Next]_vars, room' = "gone", faults' = 0
             PROVE  /\ files' = "before" =>
                         "files" \in purges' \/ at'["delete"] = "release" \/ at'["erase"] = "files"
                    /\ exports' = "before" =>
                         \/ "exports" \in purges' \/ at'["delete"] = "release"
                         \/ at'["erase"] \in {"files", "exports"}
  BY DEF Following, FilesFollow, ExportsFollow
<1>1. /\ files' = "before" => files = "before"
      /\ exports' = "before" => exports = "before"
  BY Puts
<1>2. CASE room # "gone"
  BY <1>2, Goners
<1>3. CASE room = "gone"
  <2>1. faults = 0
    BY Pending
  <2>2. /\ files = "before" =>
             "files" \in purges \/ at["delete"] = "release" \/ at["erase"] = "files"
        /\ exports = "before" =>
             "exports" \in purges \/ at["delete"] = "release" \/ at["erase"] \in {"files", "exports"}
    BY <1>3, <2>1 DEF Following, FilesFollow, ExportsFollow
  <2> QED BY <1>1, <2>2, Pending, DeleteFollows, EraseFollows
<1> QED BY <1>2, <1>3

-----------------------------------------------------------------------------
(* The theorems. *)

LEMMA InitKept == Init => Kept
<1> SUFFICES ASSUME Init PROVE Kept
  OBVIOUS
<1>1. TypeOK
  <2>1. account \in [state : {"active", "disabled"}, epoch : 0..MaxEpoch] /\ faults \in 0..MaxFaults
    BY BoundsAreCounts DEF Init
  <2>2. at \in [Kinds -> Places] /\ by \in [Kinds -> Tokens \cup {None}]
    BY Names DEF Init
  <2> QED BY <2>1, <2>2 DEF Init, TypeOK
<1> QED BY <1>1, Names DEF Init, Kept, SessionsFollowAccount, NoRoomIsForgotten, ErasedListsNothing,
     Taken, Spent, Outlived, Following, FilesFollow, ExportsFollow

LEMMA AlwaysKept == Spec => []Kept
<1>1. Kept /\ [Next]_vars => Kept'
  BY TypeStep, FollowStep, ForgottenStep, ListStep, TakenStep, SpentStep, OutlivedStep, FollowingStep
  DEF Kept
<1> QED BY <1>1, InitKept, PTL DEF Spec

\* Every store, list and request keeps its shape, and the epoch and the faults
\* their bounds.
THEOREM StoresKeepTheirTypes == Spec => []TypeOK
BY AlwaysKept, PTL DEF Kept

\* A session that counts belongs to an active account at its epoch, for any
\* number of tokens, rotations and sign-ins that overlap a revocation or the
\* erasure (sessionStore.ts:282, 805).
THEOREM SessionsAreTheAccounts == Spec => []SessionsFollowAccount
BY AlwaysKept, PTL DEF Kept

\* A live room that no list names is being made, is owed to an erasure, or its
\* create died (worker.ts:3943, sessionStore.ts:704).
THEOREM RoomsAreRemembered == Spec => []NoRoomIsForgotten
BY AlwaysKept, PTL DEF Kept

\* No request that outlives an erasure puts a room on the erased account's list
\* (IdentityDO.ts:1779).
THEOREM ErasedStaysEmpty == Spec => []ErasedListsNothing
BY AlwaysKept, PTL DEF Kept

\* Once a delete or an erasure has ended without a fault, nothing that was in the
\* bucket before the room went is still there (worker.ts:1937, 3940).
THEOREM BucketIsEmptied == Spec => []BucketGoesWithRoom
<1>1. Kept => BucketGoesWithRoom
  BY Names DEF Kept, Following, FilesFollow, ExportsFollow, BucketGoesWithRoom, Settled
<1> QED BY <1>1, AlwaysKept, PTL

=============================================================================
