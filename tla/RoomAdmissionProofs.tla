------------------------- MODULE RoomAdmissionProofs -------------------------
(***************************************************************************)
(* What RoomAdmission guarantees for any number of accounts, guests, sockets *)
(* and sessions, and for every cap.                                          *)
(*                                                                         *)
(* The argument.  A step either moves the rows and no socket, or closes      *)
(* sockets and no row, and only an upgrade opens one; so what relates the    *)
(* two (a guest's socket and the door, a stamp and the grant behind it, a     *)
(* socket and the alarm that watches it) has few steps to survive.  A purge   *)
(* takes only the rows of editors and of requests, never a ban.              *)
(*                                                                         *)
(* And what GuestEntry guarantees for every threshold, window and lockout:   *)
(* the ration of guesses at a PIN, and that no guest outlives the room but by *)
(* a submission that was past the PIN: each such submission is spent on one.  *)
(***************************************************************************)
EXTENDS RoomAdmission, GuestEntry, FiniteSetTheorems, TLAPS

-----------------------------------------------------------------------------
(* The steps, by what they move. *)

\* The rows move and the sockets stay.
RowStep ==
    \E a \in Others :
        \/ RequestAccess(a) \/ Heartbeat(a) \/ LeavePresence(a) \/ Withdraw(a)
        \/ Ban(a) \/ Suspend(a) \/ Deny(a) \/ CountForApproval(a)
        \/ ApproveWaiting(a) \/ ApproveRequest(a, "editor") \/ ApproveRequest(a, "viewer")
        \/ EraseMember(a) \/ RunOut(a)

\* Sockets close and the rows stay.
ClosingStep ==
    \/ \E a \in Others : CloseErased(a)
    \/ CloseGuestSockets \/ DeleteSockets
    \/ \E s \in Sockets : RefuseFrame(s) \/ Disconnect(s)

DoorStep == OpenToGuests \/ CloseToGuests \/ DeleteRoom

AlarmStep == AlarmIdle \/ AlarmEarly \/ AlarmAsks

SessionStep == \E a \in Accounts : EndSession(a)

UpgradeStep == \E a \in Accounts, s \in Sockets : Upgrade(s, a)

CutStep == \E a \in Others : Cut(a)

LEMMA NextSteps ==
    ASSUME [Next]_vars
    PROVE  \/ RowStep \/ ClosingStep \/ DoorStep \/ AlarmStep \/ SessionStep \/ UpgradeStep \/ CutStep
           \/ IdentityAnswers \/ IdentityFails \/ Restart \/ UNCHANGED vars
<1> DEFINE Goal ==
      \/ RowStep \/ ClosingStep \/ DoorStep \/ AlarmStep \/ SessionStep \/ UpgradeStep \/ CutStep
      \/ IdentityAnswers \/ IdentityFails \/ Restart \/ UNCHANGED vars
<1>1. ASSUME NEW a \in Others,
             \/ RequestAccess(a) \/ Heartbeat(a) \/ LeavePresence(a) \/ Withdraw(a)
             \/ Ban(a) \/ Suspend(a) \/ Deny(a) \/ CountForApproval(a) \/ ApproveWaiting(a)
             \/ ApproveRequest(a, "editor") \/ ApproveRequest(a, "viewer")
             \/ EraseMember(a) \/ RunOut(a)
      PROVE  Goal
  BY <1>1 DEF RowStep
<1>2. ASSUME NEW a \in Others, Cut(a) \/ CloseErased(a) PROVE Goal
  BY <1>2 DEF CutStep, ClosingStep
<1>3. ASSUME NEW a \in Accounts, EndSession(a) \/ \E s \in Sockets : Upgrade(s, a) PROVE Goal
  BY <1>3 DEF SessionStep, UpgradeStep
<1>4. ASSUME \/ CloseGuestSockets \/ DeleteSockets
             \/ \E s \in Sockets : RefuseFrame(s) \/ Disconnect(s)
      PROVE  Goal
  BY <1>4 DEF ClosingStep
<1>5. ASSUME OpenToGuests \/ CloseToGuests \/ DeleteRoom \/ AlarmIdle \/ AlarmEarly \/ AlarmAsks
      PROVE  Goal
  BY <1>5 DEF DoorStep, AlarmStep
<1>6. IdentityAnswers \/ IdentityFails \/ Restart \/ UNCHANGED vars => Goal
  OBVIOUS
<1> HIDE DEF Goal
<1>7. Goal
  BY <1>1, <1>2, <1>3, <1>4, <1>5, <1>6 DEF Next
<1> QED BY <1>7 DEF Goal

LEMMA RowFrame ==
    ASSUME RowStep
    PROVE  UNCHANGED <<guestAccess, ending, version, room, session, alarm, pass, sock>> /\ Marked
BY DEF RowStep, RequestAccess, Heartbeat, LeavePresence, Withdraw, Ban, Suspend, Deny,
   CountForApproval, ApproveWaiting, ApproveRequest, EraseMember, RunOut, QuietDoor, QuietSockets,
   handling

LEMMA ClosingFrame ==
    ASSUME ClosingStep
    PROVE  /\ UNCHANGED <<role, late, waiting, present, guestAccess, counted, version, session, alarm, pass>>
           /\ Marked /\ \A s \in Sockets : sock'[s] = None \/ sock'[s] = sock[s]
           /\ DOMAIN sock' = Sockets
<1> USE DEF Closing, rows, handling
<1>1. CASE \E a \in Others : CloseErased(a)
  BY <1>1 DEF CloseErased
<1>2. CASE CloseGuestSockets \/ DeleteSockets
  BY <1>2 DEF CloseGuestSockets, DeleteSockets
<1>3. CASE \E s \in Sockets : RefuseFrame(s) \/ Disconnect(s)
  BY <1>3 DEF RefuseFrame, Disconnect
<1> QED BY <1>1, <1>2, <1>3 DEF ClosingStep

LEMMA DoorFrame ==
    ASSUME DoorStep
    PROVE  UNCHANGED <<version, session, alarm, pass, sock, due, counted>> /\ Marked
BY DEF DoorStep, OpenToGuests, CloseToGuests, DeleteRoom, QuietSockets, handling

LEMMA AlarmFrame ==
    ASSUME AlarmStep
    PROVE  UNCHANGED <<due, counted, ending, version, session, sock>> /\ Marked
BY DEF AlarmStep, AlarmIdle, AlarmEarly, AlarmAsks, AlarmPurges, handling

\* Only an upgrade opens a socket.
LEMMA OpenShrinks ==
    ASSUME [Next]_vars, ~UpgradeStep
    PROVE  Open' \subseteq Open
<1>1. CASE RowStep \/ DoorStep \/ AlarmStep
  BY <1>1, RowFrame, DoorFrame, AlarmFrame DEF Open
<1>2. CASE ClosingStep
  BY <1>2, ClosingFrame DEF Open
<1>3. CASE SessionStep \/ IdentityFails \/ UNCHANGED vars
  BY <1>3 DEF SessionStep, EndSession, IdentityFails, vars, socketVars, Open
<1>4. CASE CutStep
  BY <1>4 DEF CutStep, Cut, Restamped, Open
<1>5. CASE IdentityAnswers \/ Restart
  BY <1>5 DEF IdentityAnswers, Restart, Closing, Open
<1> QED BY <1>1, <1>2, <1>3, <1>4, <1>5, NextSteps

-----------------------------------------------------------------------------
(* Types. *)

RowsOK ==
    /\ role \in [Accounts -> Roles] /\ late \subseteq Accounts
    /\ \A a \in late : role[a] \in {"editor", "pending"}
    /\ waiting \subseteq Others /\ present \subseteq Others

DueOK == due \in [Accounts -> {"nothing", "cut", "close"}] /\ counted \subseteq Others

SocketsOK == sock \in [Sockets -> Socket \cup {None}] /\ lapsed \subseteq Open

DoorOK ==
    /\ guestAccess \in BOOLEAN /\ ending \in 0..MaxEnding /\ version \in 0..MaxVersion
    /\ session \in [Accounts -> 0..MaxSessions] /\ room \in {"open", "deleting", "gone"}
    /\ alarm \in {"none", "check", "retention"} /\ pass \in (SUBSET Sockets) \cup {None}

Shapes == RowsOK /\ DueOK /\ SocketsOK /\ DoorOK

LEMMA PurgedType ==
    ASSUME RowsOK
    PROVE  /\ Purged \in [Accounts -> Roles]
           /\ \A a \in Accounts : role[a] \notin {"editor", "pending"} => Purged[a] = role[a]
BY DEF RowsOK, Purged, Roles

\* A request writes rows of the right shapes, all within their time.
LEMMA RowsType ==
    ASSUME NEW r \in [Accounts -> Roles], NEW w \in SUBSET Others, NEW p \in SUBSET Others, Rows(r, w, p)
    PROVE  RowsOK'
BY DEF Rows, RowsOK

LEMMA Subsets ==
    ASSUME RowsOK
    PROVE  /\ \A w \in Unexpired : w \subseteq Others
           /\ \A p \in Unswept : p \subseteq Others
           /\ waiting \in SUBSET Others /\ present \in SUBSET Others
BY DEF RowsOK, Unexpired, Unswept

LEMMA AskingRows ==
    ASSUME RowsOK, NEW a \in Others,
           RequestAccess(a) \/ Heartbeat(a) \/ LeavePresence(a) \/ Withdraw(a)
    PROVE  RowsOK' /\ UNCHANGED <<due, counted>>
<1>0. a \in Accounts /\ "pending" \in Roles /\ "none" \in Roles
  BY DEF Others, Roles
<1>1. CASE RequestAccess(a)
  <2>1. PICK w \in Unexpired : Rows(Asking(Purged, a, w), w, present)
    BY <1>1 DEF RequestAccess
  <2>2. Asking(Purged, a, w) \in [Accounts -> Roles]
    BY <1>0, PurgedType DEF Asking
  <2>3. w \in SUBSET Others /\ present \in SUBSET Others
    BY Subsets
  <2> QED BY <1>1, <2>1, <2>2, <2>3, RowsType DEF RequestAccess
<1>2. CASE Heartbeat(a)
  <2>1. PICK r \in [Accounts -> Roles], w \in SUBSET Others, p \in SUBSET Others : Rows(r, w, p)
    <3>1. PICK w \in Unexpired, p \in Unswept :
             \/ Rows(Purged, w \ {a}, p \cup {a})
             \/ Rows(Asking(Purged, a, w), w \cup {a}, p)
             \/ Rows(Purged, w, p)
      BY <1>2 DEF Heartbeat
    <3>2. /\ w \in SUBSET Others /\ p \in SUBSET Others /\ w \ {a} \in SUBSET Others
          /\ w \cup {a} \in SUBSET Others /\ p \cup {a} \in SUBSET Others
      BY Subsets
    <3>3. Purged \in [Accounts -> Roles] /\ Asking(Purged, a, w) \in [Accounts -> Roles]
      BY <1>0, PurgedType DEF Asking
    <3> QED BY <3>1, <3>2, <3>3
  <2> QED BY <1>2, <2>1, RowsType DEF Heartbeat
<1>3. CASE LeavePresence(a)
  <2>1. PICK w \in Unexpired, p \in Unswept : Rows(Purged, w \ {a}, p \ {a})
    BY <1>3 DEF LeavePresence
  <2>2. w \ {a} \in SUBSET Others /\ p \ {a} \in SUBSET Others
    BY Subsets
  <2> QED BY <1>3, <2>1, <2>2, PurgedType, RowsType DEF LeavePresence
<1>4. CASE Withdraw(a)
  <2>1. PICK w \in Unexpired :
           Rows([Purged EXCEPT ![a] = IF @ = "pending" THEN "none" ELSE @], w \ {a}, present)
    BY <1>4 DEF Withdraw
  <2>2. w \ {a} \in SUBSET Others /\ present \in SUBSET Others
    BY Subsets
  <2>3. [Purged EXCEPT ![a] = IF @ = "pending" THEN "none" ELSE @] \in [Accounts -> Roles]
    BY <1>0, PurgedType
  <2> QED BY <1>4, <2>1, <2>2, <2>3, RowsType DEF Withdraw
<1> QED BY <1>1, <1>2, <1>3, <1>4

LEMMA DecidedRows ==
    ASSUME RowsOK, DueOK, NEW a \in Others, Ban(a) \/ Suspend(a) \/ Deny(a) \/ CountForApproval(a)
    PROVE  RowsOK' /\ DueOK'
<1>0. a \in Accounts /\ "pending" \in Roles /\ "banned" \in Roles
  BY DEF Others, Roles
<1>1. /\ Banned(Purged, a) \in [Accounts -> Roles] /\ Suspended(Purged, a) \in [Accounts -> Roles]
      /\ Purged \in [Accounts -> Roles]
  BY <1>0, PurgedType DEF Banned, Suspended, Roles
<1>2. CASE Ban(a)
  <2>1. PICK w \in Unexpired : Rows(Banned(Purged, a), w \ {a}, present \ {a})
    BY <1>2 DEF Ban
  <2>2. w \ {a} \in SUBSET Others /\ present \ {a} \in SUBSET Others
    BY Subsets
  <2> QED BY <1>0, <1>1, <1>2, <2>1, <2>2, RowsType DEF Ban, DueOK
<1>3. CASE Suspend(a)
  <2>1. PICK w \in Unexpired, p \in Unswept : Rows(Suspended(Purged, a), w \cup (p \cap {a}), p \ {a})
    BY <1>3 DEF Suspend
  <2>2. w \cup (p \cap {a}) \in SUBSET Others /\ p \ {a} \in SUBSET Others
    BY Subsets
  <2> QED BY <1>0, <1>1, <1>3, <2>1, <2>2, RowsType DEF Suspend, DueOK
<1>4. CASE Deny(a)
  <2>1. PICK w \in Unexpired : Rows(Banned(Purged, a), w \ {a}, present)
    BY <1>4 DEF Deny
  <2>2. w \ {a} \in SUBSET Others /\ present \in SUBSET Others
    BY Subsets
  <2> QED BY <1>1, <1>4, <2>1, <2>2, RowsType DEF Deny, DueOK
<1>5. CASE CountForApproval(a)
  <2>1. PICK w \in Unexpired : Rows(Purged, w, present)
    BY <1>5 DEF CountForApproval
  <2>2. w \in SUBSET Others /\ present \in SUBSET Others
    BY Subsets
  <2> QED BY <1>1, <1>5, <2>1, <2>2, RowsType DEF CountForApproval, DueOK
<1> QED BY <1>2, <1>3, <1>4, <1>5

LEMMA OtherRows ==
    ASSUME RowsOK, DueOK, NEW a \in Others,
           \/ ApproveWaiting(a) \/ ApproveRequest(a, "editor") \/ ApproveRequest(a, "viewer")
           \/ EraseMember(a) \/ RunOut(a)
    PROVE  RowsOK' /\ DueOK'
<1>0. a \in Accounts /\ {"editor", "viewer", "none"} \subseteq Roles
  BY DEF Others, Roles
<1>1. ASSUME NEW as \in {"editor", "viewer"}, Admitted(a, as)
      PROVE  /\ role' \in [Accounts -> Roles] /\ late' \subseteq Accounts
             /\ \A b \in late' : role'[b] \in {"editor", "pending"}
  BY <1>0, <1>1 DEF Admitted, RowsOK
<1>2. CASE ApproveWaiting(a)
  BY <1>1, <1>2 DEF ApproveWaiting, RowsOK, DueOK
<1>3. CASE ApproveRequest(a, "editor") \/ ApproveRequest(a, "viewer")
  BY <1>1, <1>3 DEF ApproveRequest, RowsOK, DueOK
<1>4. CASE EraseMember(a)
  <2>1. role' = [role EXCEPT ![a] = "none"] /\ late' = late \ {a}
    BY <1>4 DEF EraseMember
  <2>2. role' \in [Accounts -> Roles] /\ \A b \in late' : role'[b] \in {"editor", "pending"}
    BY <1>0, <2>1 DEF RowsOK
  <2> QED BY <1>0, <1>4, <2>1, <2>2 DEF EraseMember, RowsOK, DueOK
<1>5. CASE RunOut(a)
  BY <1>0, <1>5 DEF RunOut, RowsOK, DueOK, handling
<1> QED BY <1>2, <1>3, <1>4, <1>5

LEMMA RowStepShapes == ASSUME Shapes, RowStep PROVE Shapes'
<1>1. RowsOK' /\ DueOK'
  <2>1. PICK a \in Others :
           \/ RequestAccess(a) \/ Heartbeat(a) \/ LeavePresence(a) \/ Withdraw(a)
           \/ Ban(a) \/ Suspend(a) \/ Deny(a) \/ CountForApproval(a)
           \/ ApproveWaiting(a) \/ ApproveRequest(a, "editor") \/ ApproveRequest(a, "viewer")
           \/ EraseMember(a) \/ RunOut(a)
    BY DEF RowStep
  <2> QED BY <2>1, AskingRows, DecidedRows, OtherRows DEF Shapes, DueOK
<1>2. SocketsOK'
  BY RowFrame DEF Shapes, SocketsOK, Marked, Open
<1>3. DoorOK'
  BY RowFrame DEF Shapes, DoorOK
<1> QED BY <1>1, <1>2, <1>3 DEF Shapes

LEMMA NoRowsType == ASSUME NoRows PROVE RowsOK' /\ guestAccess' = FALSE
BY DEF NoRows, RowsOK, Roles

LEMMA DoorShapes == ASSUME Shapes, DoorStep PROVE Shapes'
<1>1. RowsOK' /\ DoorOK'
  <2>1. CASE OpenToGuests \/ CloseToGuests
    <3>1. PICK w \in Unexpired : Rows(Purged, w, present)
      BY <2>1 DEF OpenToGuests, CloseToGuests
    <3>2. w \in SUBSET Others /\ present \in SUBSET Others /\ Purged \in [Accounts -> Roles]
      BY Subsets, PurgedType DEF Shapes
    <3>3. RowsOK'
      BY <3>1, <3>2, RowsType
    <3>4. ending' \in 0..MaxEnding /\ guestAccess' \in BOOLEAN
      <4>1. ending \in 0..MaxEnding /\ MaxEnding \in Nat
        BY CapsAreCounts DEF Shapes, DoorOK
      <4>2. OpenToGuests => ending' = ending /\ guestAccess' = TRUE
        BY DEF OpenToGuests, handling
      <4>3. CloseToGuests => ending' = ending + 1 /\ ending < MaxEnding /\ guestAccess' = FALSE
        BY DEF CloseToGuests
      <4>4. CASE OpenToGuests
        BY <4>1, <4>2, <4>4
      <4>5. CASE CloseToGuests
        <5>1. ending + 1 \in 0..MaxEnding
          BY <4>1, <4>3, <4>5
        <5> QED BY <4>3, <4>5, <5>1
      <4> QED BY <2>1, <4>4, <4>5
    <3>5. UNCHANGED <<version, room, session, alarm, pass>>
      BY <2>1 DEF OpenToGuests, CloseToGuests
    <3> QED BY <3>3, <3>4, <3>5 DEF Shapes, DoorOK
  <2>2. CASE DeleteRoom
    BY <2>2, NoRowsType DEF DeleteRoom, Shapes, DoorOK, handling
  <2> QED BY <2>1, <2>2 DEF DoorStep
<1>2. SocketsOK' /\ DueOK'
  BY DoorFrame DEF Shapes, SocketsOK, DueOK, Marked, Open
<1> QED BY <1>1, <1>2 DEF Shapes

LEMMA ClosingShapes == ASSUME Shapes, ClosingStep PROVE Shapes'
<1>1. RowsOK'
  BY ClosingFrame DEF Shapes, RowsOK
<1>2. DueOK'
  <2>1. due' = due \/ \E a \in Others : due' = [due EXCEPT ![a] = "nothing"]
    BY DEF ClosingStep, CloseErased, CloseGuestSockets, DeleteSockets, RefuseFrame, Disconnect, handling
  <2> QED BY <2>1, ClosingFrame DEF Shapes, DueOK
<1>3. SocketsOK'
  <2>1. sock' = [s \in Sockets |-> sock'[s]]
    BY DEF ClosingStep, CloseErased, CloseGuestSockets, DeleteSockets, RefuseFrame, Disconnect, Closing
  <2>2. \A s \in Sockets : sock'[s] \in Socket \cup {None}
    BY ClosingFrame DEF Shapes, SocketsOK
  <2> QED BY <2>1, <2>2, ClosingFrame DEF SocketsOK, Marked, Open
<1>4. DoorOK'
  <2>1. ending \in 0..MaxEnding /\ MaxEnding \in Nat /\ room \in {"open", "deleting", "gone"}
    BY CapsAreCounts DEF Shapes, DoorOK
  <2>2. /\ ending' = ending \/ (ending > 0 /\ ending' = ending - 1)
        /\ room' = room \/ room' = "gone"
    BY DEF ClosingStep, CloseErased, CloseGuestSockets, DeleteSockets, RefuseFrame, Disconnect, handling
  <2>3. ending' \in 0..MaxEnding /\ room' \in {"open", "deleting", "gone"}
    BY <2>1, <2>2
  <2> QED BY <2>3, ClosingFrame DEF Shapes, DoorOK
<1> QED BY <1>1, <1>2, <1>3, <1>4 DEF Shapes

LEMMA AlarmShapes == ASSUME Shapes, AlarmStep PROVE Shapes'
<1>1. AlarmPurges /\ room' \in {"open", "deleting", "gone"} /\ guestAccess' \in BOOLEAN
  BY NoRowsType DEF AlarmStep, AlarmIdle, AlarmEarly, AlarmAsks, AlarmPurges, Shapes, DoorOK
<1>2. RowsOK'
  <2>1. CASE UNCHANGED rows
    BY <2>1 DEF Shapes, RowsOK, rows
  <2>2. CASE NoRows
    BY <2>2, NoRowsType
  <2>3. ASSUME NEW w \in Unexpired, Rows(Purged, w, present) PROVE RowsOK'
    <3>1. w \in SUBSET Others /\ present \in SUBSET Others /\ Purged \in [Accounts -> Roles]
      BY Subsets, PurgedType DEF Shapes
    <3> QED BY <2>3, <3>1, RowsType
  <2> QED BY <1>1, <2>1, <2>2, <2>3 DEF AlarmPurges
<1>3. SocketsOK' /\ DueOK'
  BY AlarmFrame DEF Shapes, SocketsOK, DueOK, Marked, Open
<1>4. alarm' \in {"none", "check", "retention"} /\ pass' \in (SUBSET Sockets) \cup {None}
  BY DEF AlarmStep, AlarmIdle, AlarmEarly, AlarmAsks, Shapes, DoorOK, Open
<1>5. DoorOK'
  BY <1>1, <1>4, AlarmFrame DEF Shapes, DoorOK
<1> QED BY <1>2, <1>3, <1>5 DEF Shapes

LEMMA UpgradeShapes == ASSUME Shapes, UpgradeStep PROVE Shapes'
<1>1. PICK a \in Accounts, s \in Sockets : Upgrade(s, a)
  BY DEF UpgradeStep
<1>2. PICK n \in 0..session[a] :
         sock' = [sock EXCEPT ![s] = [of |-> a, session |-> n, version |-> version]]
  BY <1>1 DEF Upgrade
<1>3. [of |-> a, session |-> n, version |-> version] \in Socket
  <2>1. n \in 0..MaxSessions /\ version \in 0..MaxVersion
    BY CapsAreCounts DEF Shapes, DoorOK
  <2> QED BY <2>1 DEF Socket
<1>4. SocketsOK'
  BY <1>1, <1>2, <1>3 DEF Upgrade, Shapes, SocketsOK, Marked, Open
<1>5. RowsOK' /\ DueOK' /\ DoorOK'
  BY <1>1 DEF Upgrade, Shapes, RowsOK, DueOK, DoorOK, rows, handling
<1> QED BY <1>4, <1>5 DEF Shapes

LEMMA CutShapes == ASSUME Shapes, CutStep PROVE Shapes'
<1>1. PICK a \in Others : Cut(a)
  BY DEF CutStep
<1>2. version + 1 \in 0..MaxVersion
  BY <1>1, CapsAreCounts DEF Cut, Shapes, DoorOK
<1>3. \A s \in Sockets : sock[s] # None => [sock[s] EXCEPT !.version = version + 1] \in Socket
  BY <1>2 DEF Shapes, SocketsOK, Socket
<1>4. SocketsOK'
  BY <1>1, <1>3 DEF Cut, Restamped, Shapes, SocketsOK, Marked, Open
<1>5. RowsOK' /\ DueOK' /\ DoorOK'
  BY <1>1, <1>2 DEF Cut, Shapes, RowsOK, DueOK, DoorOK, rows
<1> QED BY <1>4, <1>5 DEF Shapes

LEMMA RestShapes ==
    ASSUME Shapes, SessionStep \/ IdentityAnswers \/ IdentityFails \/ Restart \/ UNCHANGED vars
    PROVE  Shapes'
<1>1. CASE SessionStep
  <2>1. PICK a \in Accounts : EndSession(a)
    BY <1>1 DEF SessionStep
  <2>2. session' \in [Accounts -> 0..MaxSessions]
    BY <2>1, CapsAreCounts DEF EndSession, Shapes, DoorOK
  <2> QED BY <2>1, <2>2 DEF EndSession, Shapes, RowsOK, DueOK, SocketsOK, DoorOK, rows, handling,
          socketVars, Open
<1>2. CASE IdentityAnswers
  <2>1. SocketsOK'
    BY <1>2 DEF IdentityAnswers, Closing, Marked, Shapes, SocketsOK, Open
  <2> QED BY <1>2, <2>1 DEF IdentityAnswers, Shapes, RowsOK, DueOK, DoorOK, rows, handling
<1>3. CASE IdentityFails
  BY <1>3 DEF IdentityFails, Shapes, RowsOK, DueOK, SocketsOK, DoorOK, rows, handling, socketVars, Open
<1>4. CASE Restart
  <2>1. SocketsOK' /\ RowsOK'
    BY <1>4 DEF Restart, Closing, Marked, Shapes, SocketsOK, RowsOK, Open, rows
  <2>2. DueOK' /\ DoorOK'
    BY <1>4, CapsAreCounts DEF Restart, Shapes, DueOK, DoorOK
  <2> QED BY <2>1, <2>2 DEF Shapes
<1>5. CASE UNCHANGED vars
  BY <1>5 DEF vars, Shapes, RowsOK, DueOK, SocketsOK, DoorOK, rows, handling, socketVars, Open
<1> QED BY <1>1, <1>2, <1>3, <1>4, <1>5

LEMMA ShapesStep == Shapes /\ [Next]_vars => Shapes'
BY NextSteps, RowStepShapes, ClosingShapes, DoorShapes, AlarmShapes, UpgradeShapes, CutShapes, RestShapes

-----------------------------------------------------------------------------
(* The sockets. *)

LEMMA WatchedStep == SocketsAreWatched /\ [Next]_vars => SocketsAreWatched'
<1> SUFFICES ASSUME SocketsAreWatched, [Next]_vars PROVE SocketsAreWatched'
  OBVIOUS
<1> USE DEF SocketsAreWatched
<1>1. CASE UpgradeStep
  BY <1>1 DEF UpgradeStep, Upgrade
<1>2. ~UpgradeStep => Open' \subseteq Open
  BY OpenShrinks
<1>3. CASE ~UpgradeStep /\ UNCHANGED <<alarm, pass>>
  BY <1>2, <1>3
<1>4. CASE AlarmStep
  <2>1. Open' = Open
    BY <1>4, AlarmFrame DEF Open
  <2> QED BY <1>4, <2>1, NoneIsNothing DEF AlarmStep, AlarmIdle, AlarmEarly, AlarmAsks, Open
<1>5. CASE IdentityAnswers
  <2>1. Open' = Open \ Revoked
    BY <1>5 DEF IdentityAnswers, Closing, Open, Revoked
  <2> QED BY <1>5, <2>1 DEF IdentityAnswers
<1>6. CASE IdentityFails
  BY <1>6 DEF IdentityFails
<1>7. CASE Restart
  <2>1. Open' = {}
    BY <1>7 DEF Restart, Closing, Open
  <2> QED BY <2>1
<1>8. RowStep \/ ClosingStep \/ DoorStep => UNCHANGED <<alarm, pass>>
  BY RowFrame, ClosingFrame, DoorFrame
<1>9. SessionStep \/ CutStep \/ UNCHANGED vars => UNCHANGED <<alarm, pass>>
  BY DEF SessionStep, EndSession, CutStep, Cut, vars
<1> QED BY <1>1, <1>3, <1>4, <1>5, <1>6, <1>7, <1>8, <1>9, NextSteps

\* A socket that stays open stays the account's.
LEMMA SocketsKeepTheirAccount ==
    ASSUME Shapes, [Next]_vars, NEW s \in Sockets, sock[s] # None, sock'[s] # None, ~UpgradeStep
    PROVE  sock'[s].of = sock[s].of
<1>0. sock[s] \in Socket
  BY DEF Shapes, SocketsOK
<1>1. CASE RowStep \/ DoorStep \/ AlarmStep \/ ClosingStep
  BY <1>1, RowFrame, DoorFrame, AlarmFrame, ClosingFrame
<1>2. CASE CutStep
  <2>1. [sock[s] EXCEPT !.version = version + 1].of = sock[s].of
    BY <1>0 DEF Socket
  <2> QED BY <1>2, <2>1 DEF CutStep, Cut, Restamped
<1>3. CASE SessionStep \/ IdentityFails \/ UNCHANGED vars
  BY <1>3 DEF SessionStep, EndSession, IdentityFails, vars, socketVars
<1>4. CASE IdentityAnswers \/ Restart
  BY <1>4 DEF IdentityAnswers, Restart, Closing
<1> QED BY <1>1, <1>2, <1>3, <1>4, NextSteps

\* The door closes to guests with an ending owed, and an ending is paid by
\* closing the guests' sockets.
LEMMA DoorMoves ==
    ASSUME Shapes, [Next]_vars, ~guestAccess', ending' = 0, room' = "open"
    PROVE  \/ ~guestAccess /\ ending = 0 /\ room = "open"
           \/ \A s \in Open' : sock'[s].of \notin Guests
<1>0. ending \in Nat /\ guestAccess \in BOOLEAN
  BY CapsAreCounts DEF Shapes, DoorOK
<1>1. CASE UNCHANGED <<guestAccess, ending, room>>
  BY <1>1
<1>2. CASE DoorStep
  <2>1. ~CloseToGuests
    BY <1>0 DEF CloseToGuests
  <2> QED BY <1>2, <2>1 DEF DoorStep, OpenToGuests, DeleteRoom
<1>3. CASE CloseGuestSockets
  BY <1>3 DEF CloseGuestSockets, Closing, Open
<1>4. CASE ClosingStep /\ ~CloseGuestSockets
  BY <1>4 DEF ClosingStep, CloseErased, DeleteSockets, RefuseFrame, Disconnect, handling
<1>5. CASE AlarmStep
  BY <1>5 DEF AlarmStep, AlarmIdle, AlarmEarly, AlarmAsks, AlarmPurges, handling
<1>6. CASE Restart
  BY <1>6 DEF Restart, Closing, Open
<1>7. RowStep => UNCHANGED <<guestAccess, ending, room>>
  BY RowFrame
<1>8. SessionStep \/ UpgradeStep \/ CutStep \/ IdentityAnswers \/ IdentityFails \/ UNCHANGED vars
        => UNCHANGED <<guestAccess, ending, room>>
  BY DEF SessionStep, EndSession, UpgradeStep, Upgrade, CutStep, Cut, IdentityAnswers,
     IdentityFails, vars, handling
<1> QED BY <1>1, <1>2, <1>3, <1>4, <1>5, <1>6, <1>7, <1>8, NextSteps

LEMMA GuestsStep ==
    Shapes /\ GuestsLeaveWithTheDoor /\ [Next]_vars => GuestsLeaveWithTheDoor'
<1> SUFFICES ASSUME Shapes, GuestsLeaveWithTheDoor, [Next]_vars,
                    ~guestAccess', ending' = 0, room' = "open", NEW s \in Open'
             PROVE  sock'[s].of \notin Guests
  BY DEF GuestsLeaveWithTheDoor
<1>1. CASE \A t \in Open' : sock'[t].of \notin Guests
  BY <1>1
<1>2. CASE ~guestAccess /\ ending = 0 /\ room = "open"
  <2>1. \A t \in Open : sock[t].of \notin Guests
    BY <1>2 DEF GuestsLeaveWithTheDoor
  <2>2. s \in Sockets /\ sock'[s] # None
    BY DEF Open
  <2>3. CASE UpgradeStep
    <3>1. PICK a \in Accounts, t \in Sockets : Upgrade(t, a)
      BY <2>3 DEF UpgradeStep
    <3>2. a \notin Guests
      BY <1>2, <3>1 DEF Upgrade
    <3>3. PICK n : sock' = [sock EXCEPT ![t] = [of |-> a, session |-> n, version |-> version]]
      BY <3>1 DEF Upgrade
    <3> QED BY <2>1, <2>2, <3>2, <3>3 DEF Shapes, SocketsOK, Open
  <2>4. CASE ~UpgradeStep
    <3>1. s \in Open
      BY <2>4, OpenShrinks
    <3> QED BY <2>1, <2>2, <2>4, <3>1, SocketsKeepTheirAccount DEF Open
  <2> QED BY <2>3, <2>4
<1> QED BY <1>1, <1>2, DoorMoves

\* A stamp goes stale with the version, which re-stamps every grant.
LEMMA CurrentStep ==
    Shapes /\ BystandersStayCurrent /\ [Next]_vars => BystandersStayCurrent'
<1> SUFFICES ASSUME Shapes, BystandersStayCurrent, [Next]_vars,
                    NEW s \in Open', sock'[s].version # version'
             PROVE  s \in lapsed'
  BY DEF BystandersStayCurrent
<1>0. s \in Sockets /\ sock'[s] # None /\ version \in Nat
  BY CapsAreCounts DEF Open, Shapes, DoorOK
<1>1. CASE sock'[s] = sock[s] /\ version' = version /\ (Marked \/ UNCHANGED socketVars)
  <2>1. s \in lapsed
    BY <1>0, <1>1 DEF BystandersStayCurrent, Open
  <2> QED BY <1>0, <1>1, <2>1 DEF Marked, socketVars
<1>2. CASE RowStep \/ DoorStep \/ AlarmStep \/ ClosingStep
  BY <1>0, <1>1, <1>2, RowFrame, DoorFrame, AlarmFrame, ClosingFrame
<1>3. CASE UpgradeStep
  <2>1. PICK a \in Accounts, t \in Sockets : Upgrade(t, a)
    BY <1>3 DEF UpgradeStep
  <2>2. PICK n : sock' = [sock EXCEPT ![t] = [of |-> a, session |-> n, version |-> version]]
    BY <2>1 DEF Upgrade
  <2>3. version' = version /\ Marked
    BY <2>1 DEF Upgrade
  <2>4. s # t
    BY <1>0, <2>2, <2>3 DEF Shapes, SocketsOK
  <2>5. sock'[s] = sock[s]
    BY <1>0, <2>2, <2>4 DEF Shapes, SocketsOK
  <2> QED BY <1>1, <2>3, <2>5
<1>4. CASE CutStep
  <2>1. PICK a \in Others : Cut(a)
    BY <1>4 DEF CutStep
  <2>2. sock[s] # None /\ sock[s] \in Socket
    BY <1>0, <2>1 DEF Cut, Restamped, Shapes, SocketsOK
  <2>3. [sock[s] EXCEPT !.version = version + 1].version = version + 1
    BY <2>2 DEF Socket
  <2>4. ~Granted(sock[s].of) /\ sock'[s] = sock[s]
    BY <1>0, <2>1, <2>2, <2>3 DEF Cut, Restamped
  <2>5. UNCHANGED <<role, late>> /\ Marked
    BY <2>1 DEF Cut, rows
  <2> QED BY <1>0, <2>4, <2>5 DEF Granted, Marked
<1>5. CASE SessionStep \/ IdentityFails \/ UNCHANGED vars
  BY <1>1, <1>5 DEF SessionStep, EndSession, IdentityFails, vars, socketVars
<1>6. CASE IdentityAnswers \/ Restart
  BY <1>0, <1>1, <1>6 DEF IdentityAnswers, Restart, Closing
<1> QED BY <1>2, <1>3, <1>4, <1>5, <1>6, NextSteps

-----------------------------------------------------------------------------
(* Bans. *)

\* What a ban is taken away by.
Forgiven(a) == role'[a] = "banned" \/ room' # "open" \/ due'[a] = "close"

LEMMA RowsKeepBans ==
    ASSUME Shapes, RowStep, NEW b \in Accounts, role[b] = "banned"
    PROVE  Forgiven(b)
<1>0. /\ Purged[b] = "banned" /\ RowsOK /\ b \notin late
      /\ role \in [Accounts -> Roles] /\ Purged \in [Accounts -> Roles]
  BY PurgedType DEF Shapes, RowsOK
<1>1. PICK a \in Others :
         \/ RequestAccess(a) \/ Heartbeat(a) \/ LeavePresence(a) \/ Withdraw(a)
         \/ Ban(a) \/ Suspend(a) \/ Deny(a) \/ CountForApproval(a)
         \/ ApproveWaiting(a) \/ ApproveRequest(a, "editor") \/ ApproveRequest(a, "viewer")
         \/ EraseMember(a) \/ RunOut(a)
  BY DEF RowStep
<1>2. CASE RequestAccess(a)
  <2>1. \/ role' = Purged
        \/ Purged[a] = "none" /\ role' = [Purged EXCEPT ![a] = "pending"]
    BY <1>2 DEF RequestAccess, Asking, Rows
  <2> QED BY <1>0, <2>1 DEF Forgiven
<1>3. CASE Heartbeat(a)
  <2>1. \/ role' = Purged
        \/ Purged[a] = "none" /\ role' = [Purged EXCEPT ![a] = "pending"]
    BY <1>3 DEF Heartbeat, Asking, Rows
  <2> QED BY <1>0, <2>1 DEF Forgiven
<1>4. CASE LeavePresence(a) \/ CountForApproval(a)
  <2>1. role' = Purged
    BY <1>4 DEF LeavePresence, CountForApproval, Rows
  <2> QED BY <1>0, <2>1 DEF Forgiven
<1>5. CASE Withdraw(a)
  <2>1. role' = [Purged EXCEPT ![a] = IF @ = "pending" THEN "none" ELSE @]
    BY <1>5 DEF Withdraw, Rows
  <2> QED BY <1>0, <2>1 DEF Forgiven
<1>6. CASE Ban(a) \/ Deny(a)
  <2>1. role' = Banned(Purged, a)
    BY <1>6 DEF Ban, Deny, Rows
  <2> QED BY <1>0, <2>1 DEF Banned, Forgiven
<1>7. CASE Suspend(a)
  <2>1. role' = Suspended(Purged, a)
    BY <1>7 DEF Suspend, Rows
  <2> QED BY <1>0, <2>1 DEF Suspended, Forgiven
<1>8. CASE ApproveWaiting(a) \/ ApproveRequest(a, "editor") \/ ApproveRequest(a, "viewer")
  <2>1. role' = role \/ \E as \in Roles : role[a] = "pending" /\ role' = [role EXCEPT ![a] = as]
    BY <1>8 DEF ApproveWaiting, ApproveRequest, Admitted, Roles
  <2> QED BY <1>0, <2>1 DEF Forgiven
<1>9. CASE EraseMember(a)
  <2>1. /\ role' = [role EXCEPT ![a] = "none"] /\ due' = [due EXCEPT ![a] = "close"]
        /\ due \in [Accounts -> {"nothing", "cut", "close"}] /\ a \in Accounts
    BY <1>9 DEF EraseMember, Shapes, DueOK, Others
  <2> QED BY <1>0, <2>1 DEF Forgiven
<1>10. CASE RunOut(a)
  BY <1>10 DEF RunOut, Forgiven
<1> QED BY <1>1, <1>2, <1>3, <1>4, <1>5, <1>6, <1>7, <1>8, <1>9, <1>10

LEMMA StepKeepsBans ==
    ASSUME Shapes, [Next]_vars, NEW b \in Accounts, role[b] = "banned"
    PROVE  Forgiven(b)
<1>0. Purged[b] = "banned"
  BY PurgedType DEF Shapes, RowsOK
<1>1. CASE DoorStep
  BY <1>0, <1>1 DEF DoorStep, OpenToGuests, CloseToGuests, DeleteRoom, Rows, Forgiven
<1>2. CASE AlarmStep
  BY <1>0, <1>2 DEF AlarmStep, AlarmIdle, AlarmEarly, AlarmAsks, AlarmPurges, Rows, rows, Forgiven
<1>3. CASE ClosingStep
  BY <1>3, ClosingFrame DEF Forgiven
<1>4. CASE \/ SessionStep \/ UpgradeStep \/ CutStep \/ IdentityAnswers \/ IdentityFails \/ Restart
           \/ UNCHANGED vars
  BY <1>4 DEF SessionStep, EndSession, UpgradeStep, Upgrade, CutStep, Cut, IdentityAnswers,
     IdentityFails, Restart, vars, rows, Forgiven
<1> QED BY <1>1, <1>2, <1>3, <1>4, RowsKeepBans, NextSteps

-----------------------------------------------------------------------------
(* The theorems. *)

LEMMA InitShapes == Init => Shapes
<1> SUFFICES ASSUME Init PROVE Shapes
  OBVIOUS
<1>1. RowsOK /\ DueOK /\ SocketsOK
  BY DEF Init, RowsOK, DueOK, SocketsOK, Roles, Open
<1>2. DoorOK
  <2>1. 0 \in 0..MaxEnding /\ 0 \in 0..MaxVersion /\ 0 \in 0..MaxSessions
    BY CapsAreCounts
  <2> QED BY <2>1 DEF Init, DoorOK
<1> QED BY <1>1, <1>2 DEF Shapes

LEMMA AlwaysShapes == Spec => []Shapes
BY InitShapes, ShapesStep, PTL DEF Spec

\* Rows, stamps, caps and passes keep their shapes.
THEOREM RoomKeepsItsTypes == Spec => []TypeOK
<1>1. Shapes => TypeOK
  BY DEF Shapes, RowsOK, DueOK, SocketsOK, DoorOK, TypeOK
<1> QED BY <1>1, AlwaysShapes, PTL

\* While a socket is open there is a check due, or a pass that arranges one, for
\* any number of sockets and restarts (RoomDO.ts, scheduleAlarm).
THEOREM AlwaysWatched == Spec => []SocketsAreWatched
<1>1. Init => SocketsAreWatched
  BY DEF Init, SocketsAreWatched, Open
<1> QED BY <1>1, WatchedStep, PTL DEF Spec

\* No guest keeps a socket once closing the room to guests has been answered.
THEOREM GuestsLeave == Spec => []GuestsLeaveWithTheDoor
<1>1. Init => GuestsLeaveWithTheDoor
  BY DEF Init, GuestsLeaveWithTheDoor, Open
<1> QED BY <1>1, AlwaysShapes, GuestsStep, PTL DEF Spec

\* A moderation makes nobody else reconnect: only a socket whose account has been
\* without its grant carries a stale stamp (RoomDO.ts, restampRoomSockets).
THEOREM StampsStayCurrent == Spec => []BystandersStayCurrent
<1>1. Init => BystandersStayCurrent
  BY DEF Init, BystandersStayCurrent, Open
<1> QED BY <1>1, AlwaysShapes, CurrentStep, PTL DEF Spec

\* A banned account stays banned, whatever is asked for, approved, suspended or
\* purged, until it is erased or the room goes.
THEOREM BansHold == Spec => BansLast
<1> DEFINE Move == \A a \in Accounts : role[a] = "banned" =>
                      role'[a] = "banned" \/ room' # "open" \/ due'[a] = "close"
<1>1. Shapes /\ [Next]_vars => [Move]_vars
  BY StepKeepsBans DEF Forgiven
<1>2. BansLast <=> [][Move]_vars
  BY DEF BansLast
<1> HIDE DEF Move
<1> QED BY <1>1, <1>2, AlwaysShapes, PTL DEF Spec

-----------------------------------------------------------------------------
(* How a guest gets in: GuestEntry.  The guesses of one stretch are those of the *)
(* window that is open, which the counter bounds, and those of the window before *)
(* it, which did not lock the room; while it is locked there are none.          *)

Ages == 0 .. Window - 1

\* The wrong guesses of the ages in S, as Guesses names them.
Of(w, S) == UNION {{age} \X (1 .. w[age]) : age \in S}

FreshAges(w) == {age \in Ages : age <= w}

StaleAges(w) == {age \in Ages : age > w}

\* The guesses of the window that is open are counted; those before it are fewer
\* than would have locked the room.
Rationed ==
    IF window = Nothing
    THEN failed = 0 /\ lock = Nothing /\ Guesses = {}
    ELSE /\ IsFiniteSet(Of(wrong, FreshAges(window)))
         /\ Cardinality(Of(wrong, FreshAges(window))) <= failed
         /\ IsFiniteSet(Of(wrong, StaleAges(window)))
         /\ Cardinality(Of(wrong, StaleAges(window))) <= Threshold - 1
         /\ window = Window => wrong[0] = 0

\* While it is locked no guess is taken in, and all are past when the lock is.
LockHolds ==
    IF lock = Nothing
    THEN failed < Threshold
    ELSE \A age \in Ages : age < Lockout - lock => wrong[age] = 0

EntryInv == EntryTypeOK /\ Rationed /\ LockHolds

-----------------------------------------------------------------------------
\* A guess is an age and a number at that age.
LEMMA OfMembers ==
    ASSUME NEW w, NEW S, NEW g
    PROVE  g \in Of(w, S) <=> \E age \in S : \E i \in 1 .. w[age] : g = <<age, i>>
<1>1. ASSUME g \in Of(w, S)
      PROVE  \E age \in S : \E i \in 1 .. w[age] : g = <<age, i>>
    <2>1. PICK age \in S : g \in {age} \X (1 .. w[age])
        BY <1>1 DEF Of
    <2>. QED BY <2>1
<1>2. ASSUME NEW age \in S, NEW i \in 1 .. w[age], g = <<age, i>>
      PROVE  g \in Of(w, S)
    <2>1. g \in {age} \X (1 .. w[age])
        BY <1>2
    <2>. QED BY <2>1 DEF Of
<1>. QED BY <1>1, <1>2

\* Where nothing was taken in there are no guesses.
LEMMA NoGuesses ==
    ASSUME NEW w \in [Ages -> Nat], NEW S, S \subseteq Ages, \A age \in S : w[age] = 0
    PROVE  Of(w, S) = {}
<1>1. ASSUME NEW g \in Of(w, S)
      PROVE  FALSE
    <2>1. PICK age \in S : \E i \in 1 .. w[age] : g = <<age, i>>
        BY OfMembers
    <2>. QED BY <2>1
<1>. QED BY <1>1

\* The guesses of two sets of ages are those of each.
LEMMA OfJoin ==
    ASSUME NEW w, NEW S, NEW T
    PROVE  Of(w, S \union T) = Of(w, S) \union Of(w, T)
BY DEF Of

\* One more guess, of age none.
LEMMA OneMore ==
    ASSUME NEW w \in [Ages -> Nat], NEW S, S \subseteq Ages, 0 \in S,
           NEW v \in [Ages -> Nat], v[0] = w[0] + 1, \A age \in Ages : age # 0 => v[age] = w[age],
           IsFiniteSet(Of(w, S))
    PROVE  IsFiniteSet(Of(v, S)) /\ Cardinality(Of(v, S)) <= Cardinality(Of(w, S)) + 1
<1>. DEFINE new == <<0, w[0] + 1>>
<1>1. 0 \in Ages /\ w[0] \in Nat /\ v[0] = w[0] + 1
    OBVIOUS
<1>2. \A age \in S : age # 0 => v[age] = w[age]
    OBVIOUS
<1>3. ASSUME NEW g
      PROVE  g \in Of(v, S) <=> g \in Of(w, S) \union {new}
    <2>1. ASSUME NEW age \in S, NEW i \in 1 .. v[age], g = <<age, i>>
          PROVE  g = new \/ \E n \in 1 .. w[age] : g = <<age, n>>
        <3>1. CASE age = 0
            <4>1. i = w[0] + 1 \/ i \in 1 .. w[0]
                BY <3>1, <1>1
            <4>. QED BY <4>1, <2>1, <3>1
        <3>2. CASE age # 0
            BY <3>2, <1>2, <2>1
        <3>. QED BY <3>1, <3>2
    <2>2. ASSUME NEW age \in S, NEW i \in 1 .. w[age], g = <<age, i>>
          PROVE  i \in 1 .. v[age]
        BY <1>1, <1>2
    <2>3. w[0] + 1 \in 1 .. v[0]
        BY <1>1
    <2>i. g \in Of(w, S) <=> \E age \in S : \E i \in 1 .. w[age] : g = <<age, i>>
        BY OfMembers
    <2>j. g \in Of(v, S) <=> \E age \in S : \E i \in 1 .. v[age] : g = <<age, i>>
        BY OfMembers
    <2>4. g = new => g \in Of(v, S)
        BY <2>3, <2>j
    <2>5. g \in Of(w, S) => g \in Of(v, S)
        BY <2>2, <2>i, <2>j
    <2>6. g \in Of(v, S) => g = new \/ g \in Of(w, S)
        BY <2>1, <2>i, <2>j
    <2>. QED BY <2>4, <2>5, <2>6
<1>4. Of(v, S) = Of(w, S) \union {new}
    BY <1>3
<1>5. IsFiniteSet(Of(w, S) \union {new}) /\ Cardinality(Of(w, S) \union {new}) <= Cardinality(Of(w, S)) + 1
    <2>1. Cardinality(Of(w, S)) \in Nat
        BY FS_CardinalityType
    <2>2. /\ IsFiniteSet(Of(w, S) \union {new})
          /\ Cardinality(Of(w, S) \union {new})
             = IF new \in Of(w, S) THEN Cardinality(Of(w, S)) ELSE Cardinality(Of(w, S)) + 1
        BY FS_AddElement
    <2>. QED BY <2>1, <2>2
<1>. QED BY <1>4, <1>5

\* A new guess is none of the older ages.
LEMMA NoneMore ==
    ASSUME NEW w \in [Ages -> Nat], NEW S, S \subseteq Ages, 0 \notin S, NEW v, v = [w EXCEPT ![0] = @ + 1]
    PROVE  Of(v, S) = Of(w, S)
<1>1. \A age \in S : v[age] = w[age]
    OBVIOUS
<1>. QED BY <1>1 DEF Of

\* A tick makes every guess one older, and leaves those that were not yet past.
LEMMA Older ==
    ASSUME NEW w \in [Ages -> Nat], NEW S, S \subseteq Ages, NEW T, T \subseteq Ages,
           \A age \in T : age # 0 => age - 1 \in S, NEW v,
           v = [age \in Ages |-> IF age = 0 THEN 0 ELSE w[age - 1]], IsFiniteSet(Of(w, S))
    PROVE  IsFiniteSet(Of(v, T)) /\ Cardinality(Of(v, T)) <= Cardinality(Of(w, S))
<1>. DEFINE before == [g \in Of(v, T) |-> <<g[1] - 1, g[2]>>]
<1>1. ASSUME NEW g \in Of(v, T)
      PROVE  /\ g = <<g[1], g[2]>> /\ g[1] \in Int
             /\ before[g] \in Of(w, S)
    <2>1. PICK age \in T : \E i \in 1 .. v[age] : g = <<age, i>>
        BY OfMembers
    <2>2. PICK i \in 1 .. v[age] : g = <<age, i>>
        BY <2>1
    <2>3. age # 0
        BY <2>2
    <2>4. v[age] = w[age - 1] /\ age - 1 \in S /\ age \in Int
        BY <2>3 DEF Ages
    <2>5. before[g] = <<age - 1, i>>
        BY <2>2
    <2>6. before[g] \in Of(w, S)
        BY <2>5, <2>4, OfMembers
    <2>. QED BY <2>2, <2>4, <2>6
<1>2. before \in [Of(v, T) -> Of(w, S)]
    BY <1>1
<1>3. ASSUME NEW g \in Of(v, T), NEW h \in Of(v, T), before[g] = before[h]
      PROVE  g = h
    <2>1. before[g] = <<g[1] - 1, g[2]>> /\ before[h] = <<h[1] - 1, h[2]>>
        OBVIOUS
    <2>2. g[1] - 1 = h[1] - 1 /\ g[2] = h[2]
        BY <1>3, <2>1
    <2>3. g = <<g[1], g[2]>> /\ g[1] \in Int
        BY <1>1
    <2>4. h = <<h[1], h[2]>> /\ h[1] \in Int
        BY <1>1
    <2>5. g[1] = h[1] /\ g[2] = h[2]
        BY <2>2, <2>3, <2>4
    <2>6. <<g[1], g[2]>> = <<h[1], h[2]>>
        BY <2>5
    <2>. QED BY <2>6, <2>3, <2>4
<1>4. before \in Injection(Of(v, T), Of(w, S))
    BY <1>2, <1>3 DEF Injection, IsInjective
<1>. HIDE DEF before
<1>. QED BY <1>4, FS_Injection

-----------------------------------------------------------------------------
\* The two windows that a stretch can meet, added up.
LEMMA RationedIs ==
    ASSUME EntryInv
    PROVE  GuessesAreRationed
<1>. USE PinTimes DEF EntryInv, EntryTypeOK
<1>1. Threshold \in Nat \ {0} /\ Guesses = Of(wrong, Ages)
    BY DEF Guesses, Of, Ages
<1>2. CASE window = Nothing
    <2>1. Guesses = {}
        BY <1>2 DEF Rationed
    <2>2. Cardinality(Guesses) = 0
        BY <2>1, FS_EmptySet
    <2>. QED BY <2>2, <1>1 DEF GuessesAreRationed
<1>3. CASE window # Nothing
    <2>. DEFINE F == Of(wrong, FreshAges(window))
                L == Of(wrong, StaleAges(window))
    <2>1. window \in 0 .. Window
        BY <1>3
    <2>2. Ages = FreshAges(window) \union StaleAges(window)
        BY <2>1 DEF FreshAges, StaleAges, Ages
    <2>3. Of(wrong, Ages) = F \union L
        BY <2>2, OfJoin
    <2>4. /\ IsFiniteSet(F) /\ Cardinality(F) <= failed
          /\ IsFiniteSet(L) /\ Cardinality(L) <= Threshold - 1
        BY <1>3 DEF Rationed
    <2>. HIDE DEF F, L
    <2>5. /\ Cardinality(F) \in Nat /\ Cardinality(L) \in Nat
          /\ Cardinality(F \intersect L) \in Nat
        BY <2>4, FS_CardinalityType, FS_Intersection
    <2>6. Cardinality(F \union L) = Cardinality(F) + Cardinality(L) - Cardinality(F \intersect L)
        BY <2>4, FS_Union
    <2>. QED BY <1>1, <2>3, <2>4, <2>5, <2>6 DEF GuessesAreRationed
<1>. QED BY <1>2, <1>3

\* A lock that has run out has no guess of the stretch behind it.
LEMMA LockPast ==
    ASSUME EntryInv, lock = 0
    PROVE  \A age \in Ages : wrong[age] = 0
<1>1. lock # Nothing
    BY NothingIsUnlike
<1>. QED BY <1>1, PinTimes DEF EntryInv, LockHolds, Ages

\* Forgetting the guesses keeps what is known of the rest.
LEMMA Forgets ==
    ASSUME EntryInv, wrong' = Forgotten,
           \/ UNCHANGED <<failed, window, lock>>
           \/ failed' = 0 /\ window' = Nothing /\ lock' = Nothing
    PROVE  Rationed' /\ LockHolds'
<1>. USE PinTimes DEF EntryInv, EntryTypeOK
<1>1. wrong' \in [Ages -> Nat] /\ \A age \in Ages : wrong'[age] = 0
    BY DEF Forgotten, Ages
<1>2. \A S : S \subseteq Ages => Of(wrong', S) = {}
    BY <1>1, NoGuesses
<1>3. Guesses' = {}
    BY <1>2 DEF Guesses, Of, Ages
<1>4. LockHolds'
    BY <1>1 DEF LockHolds
<1>5. FreshAges(window') \subseteq Ages /\ StaleAges(window') \subseteq Ages
    BY DEF FreshAges, StaleAges
<1>6. /\ Of(wrong', FreshAges(window')) = {} /\ Of(wrong', StaleAges(window')) = {}
      /\ IsFiniteSet({}) /\ Cardinality({}) = 0
    BY <1>2, <1>5, FS_EmptySet
<1>7. CASE UNCHANGED <<failed, window, lock>>
    <2>1. CASE window = Nothing
        BY <1>3, <1>4, <1>7, <2>1 DEF Rationed
    <2>2. CASE window # Nothing
        <3>1. wrong'[0] = 0
            BY <1>1 DEF Ages
        <3>. QED BY <1>4, <1>6, <1>7, <2>2, <3>1 DEF Rationed
    <2>. QED BY <2>1, <2>2
<1>8. CASE failed' = 0 /\ window' = Nothing /\ lock' = Nothing
    BY <1>3, <1>4, <1>8 DEF Rationed
<1>. QED BY <1>4, <1>7, <1>8

\* Counters that a lock had run out of are cleared.
LEMMA Clears ==
    ASSUME EntryInv, ~Locked, CountsAre(Counters), UNCHANGED wrong
    PROVE  /\ failed' \in 0 .. Threshold /\ window' \in 0 .. Window \cup {Nothing}
           /\ lock' \in 0 .. Lockout \cup {Nothing}
           /\ Rationed' /\ LockHolds'
<1>. USE PinTimes DEF EntryInv, EntryTypeOK
<1>1. CASE lock = 0
    <2>1. failed' = 0 /\ window' = Nothing /\ lock' = Nothing
        BY <1>1 DEF CountsAre, Counters, Cleared
    <2>2. Guesses = {}
        <3>1. wrong \in [Ages -> Nat]
            BY DEF Ages
        <3>2. Of(wrong, Ages) = {}
            BY <3>1, <1>1, LockPast, NoGuesses
        <3>. QED BY <3>2 DEF Guesses, Of, Ages
    <2>3. Guesses' = {}
        BY <2>2 DEF Guesses
    <2>. QED BY <2>1, <2>3 DEF Rationed, LockHolds
<1>2. CASE lock # 0
    <2>1. UNCHANGED <<failed, window, lock>>
        BY <1>2 DEF CountsAre, Counters
    <2>2. Rationed' /\ LockHolds'
        BY <2>1 DEF Rationed, LockHolds, Guesses
    <2>. QED BY <2>1, <2>2
<1>. QED BY <1>1, <1>2

\* What a failure leaves.
LEMMA FailureCounts ==
    ASSUME EntryInv, ~Locked, CountsAre(Incremented(Counters)),
           \/ wrong' = [wrong EXCEPT ![0] = @ + 1]
           \/ UNCHANGED wrong
    PROVE  /\ failed' \in 0 .. Threshold /\ window' \in 0 .. Window \cup {Nothing}
           /\ lock' \in 0 .. Lockout \cup {Nothing} /\ wrong' \in [Ages -> Nat]
           /\ Rationed' /\ LockHolds'
<1>. USE PinTimes, NothingIsUnlike DEF EntryInv, EntryTypeOK
<1>0. Lockout # Nothing /\ \A age \in Ages : ~(age < Lockout - Lockout)
    BY DEF Ages
<1>1. wrong \in [Ages -> Nat] /\ 0 \in Ages
    BY DEF Ages
<1>2. wrong' \in [Ages -> Nat]
    BY <1>1
<1>3. ASSUME NEW S, S \subseteq Ages, IsFiniteSet(Of(wrong, S))
      PROVE  /\ IsFiniteSet(Of(wrong', S)) /\ Cardinality(Of(wrong, S)) \in Nat
             /\ Cardinality(Of(wrong', S)) \in Nat
             /\ Cardinality(Of(wrong', S)) <= Cardinality(Of(wrong, S)) + 1
             /\ 0 \notin S => Of(wrong', S) = Of(wrong, S)
    <2>1. Cardinality(Of(wrong, S)) \in Nat
        BY <1>3, FS_CardinalityType
    <2>2. CASE UNCHANGED wrong
        BY <2>1, <2>2, <1>3
    <2>3. CASE wrong' = [wrong EXCEPT ![0] = @ + 1]
        <3>1. CASE 0 \in S
            <4>1. IsFiniteSet(Of(wrong', S)) /\ Cardinality(Of(wrong', S)) <= Cardinality(Of(wrong, S)) + 1
                <5>1. /\ wrong'[0] = wrong[0] + 1
                      /\ \A age \in Ages : age # 0 => wrong'[age] = wrong[age]
                    BY <1>1, <2>3
                <5>. QED BY <1>1, <1>2, <1>3, <3>1, <5>1, OneMore
            <4>2. Cardinality(Of(wrong', S)) \in Nat
                BY <4>1, FS_CardinalityType
            <4>. QED BY <2>1, <3>1, <4>1, <4>2
        <3>2. CASE 0 \notin S
            <4>1. Of(wrong', S) = Of(wrong, S)
                BY <1>1, <1>3, <2>3, <3>2, NoneMore
            <4>. QED BY <4>1, <2>1, <1>3
        <3>. QED BY <3>1, <3>2
    <2>. QED BY <2>2, <2>3
<1>4. lock = Nothing \/ lock = 0
    BY DEF Locked
<1>5. CASE lock = 0 \/ window = Nothing
    <2>1. failed' = 1 /\ window' = 0 /\ lock' = (IF 1 >= Threshold THEN Lockout ELSE Nothing)
        <3>1. CASE lock = 0
            BY <3>1 DEF CountsAre, Incremented, Counters, Cleared
        <3>2. CASE lock # 0 /\ window = Nothing
            <4>1. Counters = [failed |-> failed, window |-> Nothing, lock |-> Nothing]
                BY <3>2, <1>4 DEF Counters
            <4>. QED BY <4>1 DEF CountsAre, Incremented
        <3>. QED BY <3>1, <3>2, <1>5
    <2>2. Of(wrong, Ages) = {}
        <3>1. CASE lock = 0
            BY <3>1, <1>1, LockPast, NoGuesses
        <3>2. CASE window = Nothing
            BY <3>2 DEF Rationed, Guesses, Of, Ages
        <3>. QED BY <3>1, <3>2, <1>5
    <2>3. \A S : S \subseteq Ages => Of(wrong, S) = {}
        BY <2>2 DEF Of
    <2>4. FreshAges(0) \subseteq Ages /\ StaleAges(0) \subseteq Ages /\ 0 \notin StaleAges(0)
        BY DEF FreshAges, StaleAges
    <2>5. /\ IsFiniteSet(Of(wrong, FreshAges(0))) /\ Cardinality(Of(wrong, FreshAges(0))) = 0
          /\ IsFiniteSet(Of(wrong, StaleAges(0))) /\ Cardinality(Of(wrong, StaleAges(0))) = 0
        BY <2>3, <2>4, FS_EmptySet
    <2>6. /\ IsFiniteSet(Of(wrong', FreshAges(0))) /\ Cardinality(Of(wrong', FreshAges(0))) <= 1
          /\ IsFiniteSet(Of(wrong', StaleAges(0))) /\ Cardinality(Of(wrong', StaleAges(0))) = 0
        BY <2>4, <2>5, <1>3
    <2>7. Rationed'
        BY <2>1, <2>6 DEF Rationed
    <2>8. LockHolds'
        BY <1>0, <2>1 DEF LockHolds
    <2>. QED BY <1>2, <2>1, <2>7, <2>8
<1>6. CASE lock = Nothing /\ window = Window
    <2>1. failed' = 1 /\ window' = 0 /\ lock' = (IF 1 >= Threshold THEN Lockout ELSE Nothing)
        <3>1. Counters = [failed |-> failed, window |-> Window, lock |-> Nothing]
            BY <1>6 DEF Counters
        <3>. QED BY <3>1 DEF CountsAre, Incremented
    <2>2. FreshAges(window) = Ages /\ window # Nothing
        BY <1>6 DEF FreshAges, Ages
    <2>3. IsFiniteSet(Of(wrong, Ages)) /\ Cardinality(Of(wrong, Ages)) <= Threshold - 1
        BY <1>6, <2>2 DEF Rationed, LockHolds
    <2>4. FreshAges(0) \subseteq Ages /\ StaleAges(0) \subseteq Ages /\ 0 \notin StaleAges(0)
        BY DEF FreshAges, StaleAges
    <2>5. FreshAges(0) = {0}
        BY <1>1 DEF FreshAges, Ages
    <2>6. IsFiniteSet(Of(wrong, StaleAges(0))) /\ Cardinality(Of(wrong, StaleAges(0))) <= Threshold - 1
        <3>1. Of(wrong, StaleAges(0)) \subseteq Of(wrong, Ages)
            BY <2>4 DEF Of
        <3>. QED BY <3>1, <2>3, FS_Subset, FS_CardinalityType
    <2>7. Of(wrong, FreshAges(0)) = {}
        BY <1>1, <1>6, <2>5, NoGuesses DEF Rationed
    <2>8. /\ IsFiniteSet(Of(wrong', FreshAges(0))) /\ Cardinality(Of(wrong', FreshAges(0))) <= 1
          /\ IsFiniteSet(Of(wrong', StaleAges(0))) /\ Cardinality(Of(wrong', StaleAges(0))) <= Threshold - 1
        <3>1. IsFiniteSet(Of(wrong, FreshAges(0))) /\ Cardinality(Of(wrong, FreshAges(0))) = 0
            BY <2>7, FS_EmptySet
        <3>2. IsFiniteSet(Of(wrong', FreshAges(0))) /\ Cardinality(Of(wrong', FreshAges(0))) <= 1
            BY <3>1, <2>4, <1>3
        <3>3. Of(wrong', StaleAges(0)) = Of(wrong, StaleAges(0))
            BY <2>4, <2>6, <1>3
        <3>. QED BY <3>2, <3>3, <2>6
    <2>9. Rationed'
        BY <2>1, <2>8 DEF Rationed
    <2>10. LockHolds'
        BY <1>0, <2>1 DEF LockHolds
    <2>. QED BY <1>2, <2>1, <2>9, <2>10
<1>7. CASE lock = Nothing /\ window # Nothing /\ window # Window
    <2>1. /\ failed' = failed + 1 /\ window' = window
          /\ lock' = (IF failed + 1 >= Threshold THEN Lockout ELSE Nothing)
        <3>1. Counters = [failed |-> failed, window |-> window, lock |-> Nothing]
            BY <1>7 DEF Counters
        <3>. QED BY <3>1, <1>7 DEF CountsAre, Incremented
    <2>2. FreshAges(window) \subseteq Ages /\ StaleAges(window) \subseteq Ages /\ 0 \notin StaleAges(window)
        BY <1>7 DEF FreshAges, StaleAges
    <2>3. /\ IsFiniteSet(Of(wrong, FreshAges(window))) /\ Cardinality(Of(wrong, FreshAges(window))) <= failed
          /\ IsFiniteSet(Of(wrong, StaleAges(window))) /\ Cardinality(Of(wrong, StaleAges(window))) <= Threshold - 1
        BY <1>7 DEF Rationed
    <2>4. /\ IsFiniteSet(Of(wrong', FreshAges(window)))
          /\ Cardinality(Of(wrong', FreshAges(window))) <= failed + 1
        BY <2>2, <2>3, <1>3
    <2>5. Of(wrong', StaleAges(window)) = Of(wrong, StaleAges(window))
        BY <2>2, <2>3, <1>3
    <2>6. failed < Threshold
        BY <1>7 DEF LockHolds
    <2>7. Rationed'
        BY <1>7, <2>1, <2>3, <2>4, <2>5 DEF Rationed
    <2>8. LockHolds'
        BY <1>0, <2>1, <2>6 DEF LockHolds
    <2>. QED BY <1>2, <2>1, <2>6, <2>7, <2>8
<1>. QED BY <1>4, <1>5, <1>6, <1>7

\* A tick makes everything one older.
LEMMA TickHolds ==
    ASSUME EntryInv, Tick
    PROVE  /\ failed' \in 0 .. Threshold /\ window' \in 0 .. Window \cup {Nothing}
           /\ lock' \in 0 .. Lockout \cup {Nothing} /\ wrong' \in [Ages -> Nat]
           /\ Rationed' /\ LockHolds'
<1>. USE PinTimes, NothingIsUnlike DEF EntryInv, EntryTypeOK
<1>1. wrong \in [Ages -> Nat] /\ 0 \in Ages
    BY DEF Ages
<1>2. wrong' = [age \in Ages |-> IF age = 0 THEN 0 ELSE wrong[age - 1]]
    BY DEF Tick, Ages
<1>3. wrong' \in [Ages -> Nat] /\ wrong'[0] = 0 /\ \A age \in Ages : age # 0 => wrong'[age] = wrong[age - 1]
    BY <1>1, <1>2 DEF Ages
<1>4. failed' = failed
    BY DEF Tick
<1>5. window' = (IF window = Nothing \/ window = Window THEN window ELSE window + 1)
    BY DEF Tick
<1>6. lock' = (IF lock # Nothing /\ lock > 0 THEN lock - 1 ELSE lock)
    BY DEF Tick, Locked
<1>7. window' \in 0 .. Window \cup {Nothing} /\ (window' = Nothing <=> window = Nothing)
    BY <1>5
<1>8. lock' \in 0 .. Lockout \cup {Nothing} /\ (lock' = Nothing <=> lock = Nothing)
    BY <1>6
<1>9. LockHolds'
    <2>1. CASE lock = Nothing
        BY <2>1, <1>4, <1>8 DEF LockHolds
    <2>2. CASE lock # Nothing
        <3>1. ASSUME NEW age \in Ages, age < Lockout - lock'
              PROVE  wrong'[age] = 0
            <4>1. CASE age = 0
                BY <4>1, <1>3
            <4>2. CASE age # 0
                <5>1. age - 1 \in Ages /\ age - 1 < Lockout - lock
                    BY <4>2, <3>1, <2>2, <1>6 DEF Ages
                <5>2. wrong[age - 1] = 0
                    BY <5>1, <2>2 DEF LockHolds
                <5>. QED BY <5>2, <4>2, <1>3
            <4>. QED BY <4>1, <4>2
        <3>. QED BY <3>1, <2>2, <1>8 DEF LockHolds
    <2>. QED BY <2>1, <2>2
<1>10. Rationed'
    <2>1. CASE window = Nothing
        <3>1. Of(wrong, Ages) = {}
            BY <2>1 DEF Rationed, Guesses, Of, Ages
        <3>2. Of(wrong', Ages) = {}
            <4>1. IsFiniteSet(Of(wrong, Ages)) /\ Cardinality(Of(wrong, Ages)) = 0
                BY <3>1, FS_EmptySet
            <4>2. \A age \in Ages : age # 0 => age - 1 \in Ages
                BY DEF Ages
            <4>3. IsFiniteSet(Of(wrong', Ages)) /\ Cardinality(Of(wrong', Ages)) <= 0
                BY <4>1, <4>2, <1>1, <1>2, Older
            <4>. QED BY <4>3, FS_CardinalityType, FS_EmptySet
        <3>3. Guesses' = {}
            BY <3>2 DEF Guesses, Of, Ages
        <3>4. failed = 0 /\ lock = Nothing
            BY <2>1 DEF Rationed
        <3>. QED BY <3>3, <3>4, <2>1, <1>4, <1>7, <1>8 DEF Rationed
    <2>2. CASE window # Nothing
        <3>. DEFINE F == FreshAges(window)
                    S == StaleAges(window)
                    F2 == FreshAges(window')
                    S2 == StaleAges(window')
        <3>1. /\ IsFiniteSet(Of(wrong, F)) /\ Cardinality(Of(wrong, F)) <= failed
              /\ IsFiniteSet(Of(wrong, S)) /\ Cardinality(Of(wrong, S)) <= Threshold - 1
            BY <2>2 DEF Rationed
        <3>2. F \subseteq Ages /\ S \subseteq Ages /\ F2 \subseteq Ages /\ S2 \subseteq Ages
            BY DEF FreshAges, StaleAges
        <3>3. /\ \A age \in F2 : age # 0 => age - 1 \in F
              /\ \A age \in S2 : age # 0 => age - 1 \in S
            BY <2>2, <1>5 DEF FreshAges, StaleAges, Ages
        <3>4. window' # Nothing
            BY <2>2, <1>7
        <3>. HIDE DEF F, S, F2, S2
        <3>5. IsFiniteSet(Of(wrong', F2)) /\ Cardinality(Of(wrong', F2)) <= Cardinality(Of(wrong, F))
            BY <3>1, <3>2, <3>3, <1>1, <1>2, Older
        <3>6. IsFiniteSet(Of(wrong', S2)) /\ Cardinality(Of(wrong', S2)) <= Cardinality(Of(wrong, S))
            BY <3>1, <3>2, <3>3, <1>1, <1>2, Older
        <3>7. /\ Cardinality(Of(wrong, F)) \in Nat /\ Cardinality(Of(wrong, S)) \in Nat
              /\ Cardinality(Of(wrong', F2)) \in Nat /\ Cardinality(Of(wrong', S2)) \in Nat
            BY <3>1, <3>5, <3>6, FS_CardinalityType
        <3>8. Cardinality(Of(wrong', F2)) <= failed' /\ Cardinality(Of(wrong', S2)) <= Threshold - 1
            BY <3>1, <3>5, <3>6, <3>7, <1>4
        <3>. QED BY <3>4, <3>5, <3>6, <3>8, <1>3 DEF Rationed, F2, S2
    <2>. QED BY <2>1, <2>2
<1>. QED BY <1>3, <1>4, <1>7, <1>8, <1>9, <1>10

-----------------------------------------------------------------------------
(* The invariant, step by step. *)

\* What a step leaves of the counters and the guesses.
PinHolds ==
    /\ failed \in 0 .. Threshold /\ window \in 0 .. Window \cup {Nothing}
    /\ lock \in 0 .. Lockout \cup {Nothing} /\ wrong \in [Ages -> Nat]
    /\ Rationed /\ LockHolds

\* A step that leaves counters and guesses alone.
LEMMA PinStays ==
    ASSUME EntryInv, UNCHANGED <<failed, window, lock, wrong>>
    PROVE  PinHolds'
BY DEF EntryInv, EntryTypeOK, PinHolds, Rationed, LockHolds, Guesses, Of, Ages

\* A wrong guess, refused or counted.
LEMMA FailsHolds ==
    ASSUME EntryInv, Fails
    PROVE  PinHolds' /\ UNCHANGED <<access, pin>>
<1>1. CASE Refused
    BY <1>1, PinStays DEF Fails, pinVars
<1>2. CASE ~Refused
    <2>1. /\ ~Locked /\ CountsAre(Incremented(Counters)) /\ UNCHANGED <<access, pin>>
          /\ wrong' = [wrong EXCEPT ![0] = @ + 1] \/ wrong' = wrong
        BY <1>2 DEF Fails, Refused
    <2>. QED BY <2>1, FailureCounts DEF PinHolds
<1>. QED BY <1>1, <1>2

\* The invariant holds at first.
LEMMA EntryInitHolds ==
    ASSUME EntryInit
    PROVE  EntryInv
<1>. USE PinTimes, BoundIsCount
<1>1. wrong \in [Ages -> Nat] /\ \A age \in Ages : wrong[age] = 0
    BY DEF EntryInit, Ages
<1>2. Of(wrong, Ages) = {}
    BY <1>1, NoGuesses
<1>3. Guesses = {}
    BY <1>2 DEF Guesses, Of, Ages
<1>4. EntryTypeOK
    <2>1. wrong \in [0 .. Window - 1 -> Nat]
        BY <1>1 DEF Ages
    <2>2. 0 \in 0 .. Threshold /\ 0 \in 0 .. MaxLost
        OBVIOUS
    <2>. QED BY <2>1, <2>2 DEF EntryInit, EntryTypeOK
<1>5. Rationed /\ LockHolds
    BY <1>3 DEF EntryInit, Rationed, LockHolds
<1>. QED BY <1>4, <1>5 DEF EntryInv

\* Every step keeps it.
LEMMA EntryNextHolds ==
    ASSUME EntryInv, [EntryNext]_entryVars
    PROVE  EntryInv'
<1>. USE DEF PinHolds
<1>0. EntryTypeOK
    BY DEF EntryInv
<1>. DEFINE Rest == /\ access \in BOOLEAN /\ pin \in {"none", "set", "old"}
                    /\ row \in {"open", "deleted", "released", "purged"} /\ listed \in BOOLEAN
                    /\ passed \subseteq Slots
                    /\ guest \in [Visitors -> {"none", "new", "live"}] /\ cookie \in Visitors \cup {Nothing}
                    /\ entry \in [Slots -> {"idle", "registered", "verified", "issued", "denied"} \cup Visitors]
                    /\ lost \in 0 .. MaxLost
<1>1. PinHolds' /\ Rest'
    <2>1. CASE IssuePin
        <3>1. PinHolds'
            <4>1. Rationed' /\ LockHolds'
                BY <2>1, Forgets DEF IssuePin
            <4>2. failed' = 0 /\ window' = Nothing /\ lock' = Nothing /\ wrong' \in [Ages -> Nat]
                BY <2>1 DEF IssuePin, Forgotten, Ages
            <4>. QED BY <4>1, <4>2, PinTimes
        <3>. QED BY <3>1, <2>1, <1>0 DEF IssuePin, EntryTypeOK, roomVars, guestVars
    <2>2. CASE RevokeAccess
        <3>1. PinHolds'
            <4>1. Rationed' /\ LockHolds'
                BY <2>2, Forgets DEF RevokeAccess
            <4>2. UNCHANGED <<failed, window, lock>> /\ wrong' \in [Ages -> Nat]
                BY <2>2 DEF RevokeAccess, Forgotten, Ages
            <4>. QED BY <4>1, <4>2, <1>0 DEF EntryTypeOK
        <3>. QED BY <3>1, <2>2, <1>0 DEF RevokeAccess, EntryTypeOK, roomVars, guestVars
    <2>3. CASE RoomDeleted \/ RoomReleased \/ PurgeGuests \/ PinExpires \/ Traffic \/ UNCHANGED entryVars
        <3>1. UNCHANGED <<failed, window, lock, wrong>>
            BY <2>3 DEF RoomDeleted, RoomReleased, PurgeGuests, PinExpires, Traffic, pinVars, entryVars
        <3>2. Rest'
            BY <2>3, <1>0 DEF RoomDeleted, RoomReleased, PurgeGuests, PinExpires, Traffic, pinVars, entryVars,
                roomVars, guestVars, EntryTypeOK
        <3>. QED BY <3>1, <3>2, PinStays
    <2>4. CASE StrangerGuesses
        BY <2>4, <1>0, FailsHolds DEF StrangerGuesses, EntryTypeOK, roomVars, guestVars
    <2>5. CASE Tick
        BY <2>5, <1>0, TickHolds DEF Tick, EntryTypeOK, roomVars, guestVars
    <2>6. ASSUME NEW s \in Slots, EntryStep(s)
          PROVE  PinHolds' /\ Rest'
        <3>. USE DEF Moves
        <3>1. CASE EntryStarts(s) \/ Answered(s)
            <4>1. UNCHANGED <<failed, window, lock, wrong>>
                BY <3>1 DEF EntryStarts, Answered, pinVars
            <4>2. Rest'
                BY <3>1, <1>0 DEF EntryStarts, Answered, pinVars, roomVars, EntryTypeOK
            <4>. QED BY <4>1, <4>2, PinStays
        <3>2. CASE EntryMistyped(s)
            BY <3>2, <1>0, FailsHolds DEF EntryMistyped, roomVars, EntryTypeOK
        <3>3. CASE EntryVerified(s)
            <4>1. CASE InForce /\ ~Refused
                <5>1. ~Locked /\ CountsAre(Counters) /\ UNCHANGED <<access, pin, wrong>>
                    BY <3>3, <4>1 DEF EntryVerified, Refused
                <5>2. PinHolds'
                    BY <5>1, <1>0, Clears DEF EntryTypeOK, Ages
                <5>. QED BY <5>1, <5>2, <3>3, <4>1, <1>0 DEF EntryVerified, roomVars, EntryTypeOK
            <4>2. CASE ~(InForce /\ ~Refused)
                BY <3>3, <4>2, <1>0, FailsHolds DEF EntryVerified, roomVars, EntryTypeOK
            <4>. QED BY <4>1, <4>2
        <3>4. ASSUME NEW g \in Visitors, GuestCreated(s, g) \/ GuestIssued(s, g) \/ AnswerLost(s, g)
              PROVE  PinHolds' /\ Rest'
            <4>1. UNCHANGED <<failed, window, lock, wrong>>
                BY <3>4 DEF GuestCreated, GuestIssued, AnswerLost, pinVars
            <4>2. Rest'
                <5>1. CASE GuestCreated(s, g)
                    BY <5>1, <1>0 DEF GuestCreated, pinVars, roomVars, EntryTypeOK
                <5>2. CASE GuestIssued(s, g)
                    BY <5>2, <1>0 DEF GuestIssued, pinVars, roomVars, EntryTypeOK
                <5>3. CASE AnswerLost(s, g)
                    BY <5>3, <1>0, BoundIsCount DEF AnswerLost, pinVars, roomVars, EntryTypeOK
                <5>. QED BY <5>1, <5>2, <5>3, <3>4
            <4>. QED BY <4>1, <4>2, PinStays
        <3>. QED BY <2>6, <3>1, <3>2, <3>3, <3>4 DEF EntryStep
    <2>7. ASSUME NEW g \in Visitors, GuestExpires(g)
          PROVE  PinHolds' /\ Rest'
        <3>1. UNCHANGED <<failed, window, lock, wrong>>
            BY <2>7 DEF GuestExpires, pinVars
        <3>2. Rest'
            BY <2>7, <1>0 DEF GuestExpires, pinVars, roomVars, EntryTypeOK
        <3>. QED BY <3>1, <3>2, PinStays
    <2>. QED BY <2>1, <2>2, <2>3, <2>4, <2>5, <2>6, <2>7 DEF EntryNext, RoomStep
<1>. QED BY <1>1 DEF EntryInv, EntryTypeOK, Ages

\* The state of entry has its types.
THEOREM EntryTypes == EntrySpec => []EntryTypeOK
<1>1. EntryInv => EntryTypeOK
    BY DEF EntryInv
<1>. QED BY <1>1, EntryInitHolds, EntryNextHolds, PTL DEF EntrySpec

\* Whatever the guesses, their times, the threshold and the window, a stretch as
\* long as the window sees at most twice the threshold less one (guestPin.ts:335).
THEOREM RationOfGuesses == EntrySpec => []GuessesAreRationed
BY RationedIs, EntryInitHolds, EntryNextHolds, PTL DEF EntrySpec

-----------------------------------------------------------------------------
(* The guests and the room's deletion. *)

PastPin == {s \in Slots : entry[s] \in Visitors \cup {"verified"}}

LiveGuests == {g \in Visitors : guest[g] = "live"}

\* Once the room is deleted no further submission gets past the PIN, and each of
\* those that did is good for one guest.
Spent ==
    /\ row # "open" => PastPin \subseteq passed
    /\ row = "purged" => /\ IsFiniteSet(LiveGuests)
                         /\ Cardinality(LiveGuests) + Cardinality(PastPin) <= Cardinality(passed)

LEMMA FewSubmissions ==
    ASSUME EntryTypeOK
    PROVE  /\ IsFiniteSet(PastPin) /\ IsFiniteSet(passed)
           /\ Cardinality(PastPin) \in Nat /\ Cardinality(passed) \in Nat
<1>1. PastPin \subseteq Slots /\ passed \subseteq Slots
    BY DEF PastPin, EntryTypeOK
<1>2. IsFiniteSet(PastPin) /\ IsFiniteSet(passed)
    BY <1>1, SlotsAreFew, FS_Subset
<1>. QED BY <1>2, FS_CardinalityType

\* A step after which there are no more submissions past the PIN and no more
\* guests than before.
LEMMA SpentStays ==
    ASSUME EntryTypeOK, EntryTypeOK', Spent, UNCHANGED <<row, passed>>,
           row # "open" => PastPin' \subseteq PastPin, LiveGuests' \subseteq LiveGuests
    PROVE  Spent'
<1>1. CASE row = "purged"
    <2>1. /\ IsFiniteSet(LiveGuests) /\ Cardinality(LiveGuests) \in Nat
          /\ Cardinality(LiveGuests) + Cardinality(PastPin) <= Cardinality(passed)
        BY <1>1, FS_CardinalityType DEF Spent
    <2>2. IsFiniteSet(LiveGuests') /\ Cardinality(LiveGuests') <= Cardinality(LiveGuests)
        BY <2>1, FS_Subset
    <2>3. Cardinality(LiveGuests') \in Nat
        BY <2>2, FS_CardinalityType
    <2>4. PastPin' \subseteq PastPin /\ Cardinality(PastPin') <= Cardinality(PastPin)
        BY <1>1, FewSubmissions, FS_Subset
    <2>5. Cardinality(PastPin') \in Nat /\ Cardinality(PastPin) \in Nat /\ Cardinality(passed) \in Nat
        <3>1. IsFiniteSet(PastPin')
            BY <2>4, FewSubmissions, FS_Subset
        <3>. QED BY <3>1, FewSubmissions, FS_CardinalityType
    <2>6. Cardinality(LiveGuests') + Cardinality(PastPin') <= Cardinality(passed)
        BY <2>1, <2>2, <2>3, <2>4, <2>5
    <2>. QED BY <1>1, <2>2, <2>4, <2>6 DEF Spent
<1>2. CASE row # "purged"
    BY <1>2 DEF Spent
<1>. QED BY <1>1, <1>2

\* A guest session: the submission is spent.
LEMMA SpentOnOne ==
    ASSUME EntryTypeOK, Spent, UNCHANGED <<row, passed>>,
           NEW s \in PastPin, NEW g \in Visitors,
           PastPin' = PastPin \ {s}, LiveGuests' \subseteq LiveGuests \cup {g}
    PROVE  Spent'
<1>1. CASE row = "purged"
    <2>1. /\ IsFiniteSet(LiveGuests) /\ Cardinality(LiveGuests) \in Nat
          /\ Cardinality(LiveGuests) + Cardinality(PastPin) <= Cardinality(passed)
        BY <1>1, FS_CardinalityType DEF Spent
    <2>2. /\ IsFiniteSet(LiveGuests \cup {g})
          /\ Cardinality(LiveGuests \cup {g}) <= Cardinality(LiveGuests) + 1
        BY <2>1, FS_AddElement
    <2>3. IsFiniteSet(LiveGuests') /\ Cardinality(LiveGuests') <= Cardinality(LiveGuests \cup {g})
        BY <2>2, FS_Subset
    <2>4. Cardinality(LiveGuests') \in Nat /\ Cardinality(LiveGuests \cup {g}) \in Nat
        BY <2>2, <2>3, FS_CardinalityType
    <2>5. Cardinality(PastPin') = Cardinality(PastPin) - 1
        BY FewSubmissions, FS_RemoveElement
    <2>6. Cardinality(LiveGuests') + Cardinality(PastPin') <= Cardinality(passed)
        BY <2>1, <2>2, <2>3, <2>4, <2>5, FewSubmissions
    <2>. QED BY <1>1, <2>3, <2>5, <2>6 DEF Spent
<1>2. CASE row # "purged"
    BY <1>2 DEF Spent
<1>. QED BY <1>1, <1>2

LEMMA SpentStep ==
    ASSUME EntryTypeOK, EntryTypeOK', Spent, [EntryNext]_entryVars
    PROVE  Spent'
<1>. USE DEF EntryTypeOK, pinVars, roomVars, guestVars
<1>1. CASE IssuePin \/ RevokeAccess \/ StrangerGuesses \/ PinExpires \/ Tick \/ UNCHANGED entryVars
    <2>1. UNCHANGED <<row, passed, guest, entry>>
        BY <1>1 DEF IssuePin, RevokeAccess, StrangerGuesses, PinExpires, Tick, entryVars
    <2>. QED BY <2>1, SpentStays DEF PastPin, LiveGuests
<1>2. CASE Traffic \/ \E g \in Visitors : GuestExpires(g)
    <2>1. UNCHANGED <<row, passed, entry>> /\ LiveGuests' \subseteq LiveGuests
        BY <1>2 DEF Traffic, GuestExpires, LiveGuests
    <2>. QED BY <2>1, SpentStays DEF PastPin
<1>3. CASE RoomDeleted
    BY <1>3 DEF RoomDeleted, Spent, PastPin
<1>4. CASE RoomReleased
    BY <1>4 DEF RoomReleased, Spent, PastPin
<1>5. CASE PurgeGuests
    <2>1. row = "released" /\ row' = "purged" /\ UNCHANGED <<passed, entry>> /\ LiveGuests' = {}
        BY <1>5 DEF PurgeGuests, LiveGuests
    <2>2. PastPin' = PastPin /\ PastPin \subseteq passed
        BY <2>1 DEF Spent, PastPin
    <2>3. IsFiniteSet({}) /\ Cardinality({}) = 0 /\ Cardinality(PastPin) <= Cardinality(passed)
        BY <2>2, FewSubmissions, FS_Subset, FS_EmptySet
    <2>4. Cardinality(LiveGuests') + Cardinality(PastPin') <= Cardinality(passed')
        BY <2>1, <2>2, <2>3, FewSubmissions
    <2>. QED BY <2>1, <2>2, <2>3, <2>4 DEF Spent
<1>6. ASSUME NEW s \in Slots, EntryStarts(s) \/ EntryMistyped(s) \/ EntryVerified(s) \/ Answered(s)
      PROVE  Spent'
    <2>1. UNCHANGED <<row, passed, guest>>
        BY <1>6 DEF EntryStarts, EntryMistyped, EntryVerified, Answered
    <2>2. row # "open" => \E step \in {"idle", "registered"} : entry' = [entry EXCEPT ![s] = step]
        BY <1>6 DEF EntryStarts, EntryMistyped, EntryVerified, Answered, Moves, Refused
    <2>3. row # "open" => PastPin' \subseteq PastPin
        BY <2>2, VisitorsAreUnlike DEF PastPin
    <2>. QED BY <2>1, <2>3, SpentStays DEF LiveGuests
<1>7. ASSUME NEW s \in Slots, NEW g \in Visitors, GuestCreated(s, g)
      PROVE  Spent'
    <2>1. /\ UNCHANGED <<row, passed>> /\ entry[s] = "verified" /\ entry' = [entry EXCEPT ![s] = g]
          /\ guest' = [guest EXCEPT ![g] = "new"]
        BY <1>7 DEF GuestCreated, Moves
    <2>2. PastPin' \subseteq PastPin /\ LiveGuests' \subseteq LiveGuests
        BY <2>1 DEF PastPin, LiveGuests
    <2>. QED BY <2>1, <2>2, SpentStays
<1>8. ASSUME NEW s \in Slots, NEW g \in Visitors, GuestIssued(s, g) \/ AnswerLost(s, g)
      PROVE  Spent'
    <2>1. /\ UNCHANGED <<row, passed>> /\ entry[s] = g
          /\ \E step \in {"idle", "issued", "denied"} : entry' = [entry EXCEPT ![s] = step]
          /\ guest' = guest \/ guest' = [guest EXCEPT ![g] = "live"]
        BY <1>8 DEF GuestIssued, AnswerLost, Moves
    <2>2. s \in PastPin
        BY <2>1 DEF PastPin
    <2>3. PastPin' = PastPin \ {s}
        BY <2>1, VisitorsAreUnlike DEF PastPin
    <2>4. LiveGuests' \subseteq LiveGuests \cup {g}
        BY <2>1 DEF LiveGuests
    <2>. QED BY <2>1, <2>2, <2>3, <2>4, SpentOnOne
<1>. QED BY <1>1, <1>2, <1>3, <1>4, <1>5, <1>6, <1>7, <1>8 DEF EntryNext, EntryStep, RoomStep

\* However many submissions, strangers and guests there are, and whatever the
\* order of the deletion's three requests and theirs: once the guests are purged,
\* those alone come to be that a submission past the PIN was still to make
\* (worker.ts:2060).
THEOREM GuestsGo == EntrySpec => []GuestsGoWithTheRoom
<1>1. EntryInit => Spent
    BY DEF EntryInit, Spent
<1>2. EntryTypeOK /\ Spent => GuestsGoWithTheRoom
    <2>1. ASSUME EntryTypeOK, Spent, row = "purged"
          PROVE  Cardinality(LiveGuests) <= Cardinality(passed)
        <3>1. Cardinality(LiveGuests) \in Nat /\ Cardinality(LiveGuests) + Cardinality(PastPin) <= Cardinality(passed)
            BY <2>1, FS_CardinalityType DEF Spent
        <3>. QED BY <3>1, <2>1, FewSubmissions
    <2>. QED BY <2>1 DEF GuestsGoWithTheRoom, LiveGuests
<1>. QED BY <1>1, <1>2, SpentStep, EntryTypes, PTL DEF EntrySpec

=============================================================================
