------------------------------ MODULE BoardFlush ------------------------------
(***************************************************************************)
(* How a RoomDO keeps a board: the live document in memory, the snapshot    *)
(* that is its durable record, and the SQL row that is a projection of it.  *)
(*                                                                         *)
(* The object runs one handler at a time and its storage calls let no other *)
(* event in, so a handler is atomic up to a call to another object.  A flush *)
(* makes one: it tells the IdentityDO that the room was used.  Everything   *)
(* that can happen meanwhile can happen there, other flushes included.      *)
(***************************************************************************)
EXTENDS Naturals, FiniteSets

CONSTANTS
    Elements,     \* what can be drawn
    Big,          \* elements too large for the row
    None,         \* no document, no snapshot, no flush
    Slots,        \* bound: flushes that wait for the IdentityDO at once
    MaxCrashes,   \* bound: evictions that catch the object at work
    MaxFailures,  \* bound: storage and SQL writes that fail
    MaxDrops      \* bound: boards superseded by a scene write or deleted

ASSUME BigAreElements == Big \subseteq Elements /\ IsFiniteSet(Elements)
ASSUME FlushesAreBounded == IsFiniteSet(Slots)
ASSUME BoundsAreNumbers == {MaxCrashes, MaxFailures, MaxDrops} \subseteq Nat

VARIABLES
    room,      \* "live", or "gone" once deleted, erased or expired
    open,      \* whether any socket is open
    mem,       \* the object's memory, lost with the instance
    disk,      \* the object's storage: snapshot, retry marker, row and alarm
    flight,    \* the flushes under way, each waiting for the IdentityDO
    crashes, failures, drops

vars == <<room, open, mem, disk, flight, crashes, failures, drops>>

\* A shape is drawn, erased (its tombstone stays in the array) and pruned.
Stage == {"never", "live", "erased", "gone"}
Board == [Elements -> Stage]

Mem == [doc : Board \cup {None}, \* docs, if the room's document is loaded
        dirty : BOOLEAN,      \* dirtyRooms has the room
        owed : BOOLEAN,       \* projectionDirtyRooms has the room
        recent : BOOLEAN,     \* lastFlushAt is less than 3 s ago
        touched : BOOLEAN,    \* lastOwnerTouchAt has the room
        pending : BOOLEAN]    \* ownerTouchPending has the room

Disk == [snap : Board \cup {None},    \* ydoc-meta and its chunks
         marker : BOOLEAN,            \* ydoc-projection key
         row : SUBSET Elements,       \* rooms.elements
         alarm : {"none", "soon", "late"}]  \* due within 3 s, or at a slower beat

Flight == [kind : {"edit", "alarm", "close"}, at : {"touch", "forced"}]

ASSUME NoneIsNothing == None \notin Board \cup Flight

Asleep == [doc |-> None, dirty |-> FALSE, owed |-> FALSE, recent |-> FALSE,
           touched |-> FALSE, pending |-> FALSE]

Idle == \A f \in Slots : flight[f] = None

-----------------------------------------------------------------------------
(* Documents. *)

Blank == [e \in Elements |-> "never"]

Live(b) == {e \in Elements : b[e] = "live"}

\* getElementsFromArray counts tombstones, not what was pruned or cleared.
EmptyArray(b) == \A e \in Elements : b[e] \in {"never", "gone"}

Prune(b) == [e \in Elements |-> IF b[e] = "erased" THEN "gone" ELSE b[e]]

Cleared(b, cut) ==
    [e \in Elements |-> IF e \in cut /\ b[e] # "never" THEN "gone" ELSE b[e]]

Seeded(b, shapes) == [e \in Elements |-> IF e \in shapes THEN "live" ELSE b[e]]

\* What one sync frame does: nothing (a resync), a stroke or an erasure.
Frames(b) ==
    {b} \cup {[b EXCEPT ![e] = "live"] : e \in {x \in Elements : b[x] = "never"}}
        \cup {[b EXCEPT ![e] = "erased"] : e \in Live(b)}

\* Mutant: the row is taken for the board whenever it holds one.
Stored_RowFirst(d) ==
    IF d.snap = None \/ d.row # {} THEN Seeded(Blank, d.row) ELSE d.snap

\* The stored board: the snapshot, or the row where that comes up empty.
Stored(d) ==
    LET b == IF d.snap = None THEN Blank ELSE d.snap
    IN IF EmptyArray(b) THEN Seeded(b, d.row) ELSE b

Load(m, d) == IF m.doc = None THEN [m EXCEPT !.doc = Stored(d)] ELSE m

-----------------------------------------------------------------------------
(* The parts of a flush.  An outcome is the memory and the storage it leaves, *)
(* where the flush is then, and how many writes failed.                      *)

Outcome(m, d, at, failed) == [mem |-> m, disk |-> d, at |-> at, failed |-> failed]

ArmedSoon(d) == [d EXCEPT !.alarm = "soon"]
ArmedLate(d) == [d EXCEPT !.alarm = IF @ = "none" THEN "late" ELSE @]

\* A flush that leaves work behind arms the alarm; the alarm handler then sees
\* to the slower beats of a room that exists.
Rest(kind, m, d) ==
    IF m.dirty \/ m.owed THEN ArmedSoon(d)
    ELSE IF kind = "alarm" /\ room = "live" THEN ArmedLate(d)
    ELSE d

\* Mutant: deleting a board leaves the projection marker.
DropDisk_KeepsMarker(d) == [d EXCEPT !.snap = None]

\* deleteBoardState.
DropDisk(d) == [d EXCEPT !.snap = None, !.marker = FALSE]

DropMem(m) == [Asleep EXCEPT !.recent = m.recent]

\* The projection of the document into the row.
Projection(kind, m, d) ==
    LET loaded == Load(m, d)
        done == [loaded EXCEPT !.owed = FALSE]
        written == [d EXCEPT !.row = Live(loaded.doc), !.marker = FALSE]
        tooBig == [d EXCEPT !.marker = FALSE]
    IN CASE ~m.owed -> {Outcome(m, Rest(kind, m, d), "end", 0)}
         [] m.owed /\ room = "gone" ->
              {Outcome(DropMem(m), Rest(kind, DropMem(m), DropDisk(d)), "end", 0)}
         [] m.owed /\ room = "live" /\ Live(loaded.doc) \cap Big # {} ->
              {Outcome(done, Rest(kind, done, tooBig), "end", 0)}
         [] OTHER -> {Outcome(done, Rest(kind, done, written), "end", 0),
                      Outcome(loaded, Rest(kind, loaded, d), "end", 1)}

\* The last close owes the owner a touch that the throttle withheld.
Onward(kind, m, d) ==
    IF kind = "close" /\ m.pending /\ room = "live"
    THEN {Outcome([m EXCEPT !.pending = FALSE, !.touched = TRUE], d, "forced", 0)}
    ELSE Projection(kind, IF kind = "close" THEN [m EXCEPT !.pending = FALSE] ELSE m, d)

\* Mutant: the dirty mark is never removed.
AfterTouch_KeepsDirty(m) == [m EXCEPT !.owed = TRUE, !.recent = TRUE]

\* What follows the touch: the board is no longer dirty, the row is owed.
AfterTouch(m) == [m EXCEPT !.dirty = FALSE, !.owed = TRUE, !.recent = TRUE]

WithFailure(outcomes) == {[o EXCEPT !.failed = @ + 1] : o \in outcomes}

\* flushDirtyDocs, from its start to where it waits or ends.
Flush(kind, m, d) ==
    LET b == IF open /\ kind # "close" THEN m.doc ELSE Prune(m.doc)
        kept == [m EXCEPT !.doc = b]
        snapped == [d EXCEPT !.snap = b]
        noted == [snapped EXCEPT !.marker = TRUE]
    IN CASE ~m.dirty -> Onward(kind, m, d)
         [] m.dirty /\ room = "gone" -> Onward(kind, DropMem(m), DropDisk(d))
         [] m.dirty /\ room = "live" /\ m.doc = None ->
              Onward(kind, [m EXCEPT !.dirty = FALSE], d)
         [] OTHER ->
              {Outcome([kept EXCEPT !.touched = TRUE, !.pending = FALSE], noted, "touch", 0)}
              \cup (IF m.touched /\ kind # "close"   \* throttled
                    THEN Onward(kind, [AfterTouch(kept) EXCEPT !.pending = TRUE], noted)
                    ELSE {})
              \cup WithFailure(Onward(kind, kept, d))
              \cup WithFailure(Onward(kind, kept, snapped))

\* The flush in slot f comes to one of these outcomes.
Comes(f, kind, outcomes) ==
    \E o \in outcomes :
        /\ failures + o.failed <= MaxFailures
        /\ failures' = failures + o.failed
        /\ mem' = o.mem
        /\ disk' = o.disk
        /\ flight' = [flight EXCEPT ![f] = IF o.at = "end" THEN None
                                           ELSE [kind |-> kind, at |-> o.at]]

\* A flush starts in the first slot that is free.
Starts(kind, m, d) ==
    \E f \in Slots : flight[f] = None /\ Comes(f, kind, Flush(kind, m, d))

-----------------------------------------------------------------------------
(* Handlers. *)

Connect ==
    /\ room = "live" /\ ~open
    /\ open' = TRUE
    /\ disk' = ArmedLate(disk)
    /\ UNCHANGED <<room, mem, flight, crashes, failures, drops>>

\* An editor's sync frame: applied, then flushIfDue.
SyncFrame ==
    /\ room = "live" /\ open
    /\ LET loaded == Load(mem, disk)
       IN \E b \in Frames(loaded.doc) :
            LET m == [loaded EXCEPT !.doc = b, !.dirty = @ \/ b # loaded.doc]
            IN \/ ~m.dirty /\ mem' = m /\ UNCHANGED <<disk, flight, failures>>
               \/ /\ m.dirty /\ m.recent
                  /\ mem' = m /\ disk' = ArmedSoon(disk)
                  /\ UNCHANGED <<flight, failures>>
               \/ /\ m.dirty /\ ~m.recent
                  /\ Starts("edit", [m EXCEPT !.recent = TRUE], disk)
    /\ UNCHANGED <<room, open, crashes, drops>>

\* The statistics, or a viewer's handshake: the document is only loaded.
ReadBoard ==
    /\ room = "live" /\ mem.doc = None
    /\ mem' = Load(mem, disk)
    /\ UNCHANGED <<room, open, disk, flight, crashes, failures, drops>>

\* The owner clears the board, or one of its boards.  No flush, no alarm.
ClearBoard ==
    /\ room = "live"
    /\ LET loaded == Load(mem, disk)
       IN \E cut \in SUBSET Elements \ {{}} :
             mem' = [loaded EXCEPT !.doc = Cleared(@, cut),
                                   !.dirty = @ \/ Cleared(loaded.doc, cut) # loaded.doc]
    /\ UNCHANGED <<room, open, disk, flight, crashes, failures, drops>>

\* The scene route writes the row; shapes supersede the document.
SceneWrite ==
    /\ room = "live"
    /\ \E shapes \in SUBSET Elements :
         IF shapes = {}
         THEN disk' = [disk EXCEPT !.row = {}] /\ UNCHANGED <<mem, drops>>
         ELSE /\ drops < MaxDrops /\ drops' = drops + 1
              /\ disk' = [DropDisk(disk) EXCEPT !.row = shapes]
              /\ mem' = DropMem(mem)
    /\ UNCHANGED <<room, open, flight, crashes, failures>>

\* The room is deleted, its owner erased, or its time is up.
DeleteRoom ==
    /\ room = "live" /\ drops < MaxDrops
    /\ room' = "gone"
    /\ open' = FALSE
    /\ mem' = DropMem(mem)
    /\ disk' = [DropDisk(disk) EXCEPT !.row = {}]
    /\ drops' = drops + 1
    /\ UNCHANGED <<flight, crashes, failures>>

LastSocketCloses ==
    /\ open
    /\ open' = FALSE
    /\ Starts("close", mem, disk)
    /\ UNCHANGED <<room, crashes, drops>>

\* Mutant: the markers an earlier instance left are not restored.
AlarmFires_NoRestore ==
    /\ disk.alarm # "none"
    /\ Starts("alarm", mem, [disk EXCEPT !.alarm = "none"])
    /\ UNCHANGED <<room, open, crashes, drops>>

\* The alarm is consumed, and what an earlier instance owed is restored.
AlarmFires ==
    /\ disk.alarm # "none"
    /\ Starts("alarm", [mem EXCEPT !.owed = @ \/ disk.marker], [disk EXCEPT !.alarm = "none"])
    /\ UNCHANGED <<room, open, crashes, drops>>

\* The IdentityDO answers, or fails to: the touch is best effort.
TouchReturns(f) ==
    /\ flight[f] # None /\ flight[f].at = "touch"
    /\ Comes(f, flight[f].kind, Onward(flight[f].kind, AfterTouch(mem), disk))
    /\ UNCHANGED <<room, open, crashes, drops>>

ForcedReturns(f) ==
    /\ flight[f] # None /\ flight[f].at = "forced"
    /\ Comes(f, flight[f].kind, Projection(flight[f].kind, mem, disk))
    /\ UNCHANGED <<room, open, crashes, drops>>

\* Three seconds pass since the last flush.
TimePasses ==
    /\ mem.recent
    /\ mem' = [mem EXCEPT !.recent = FALSE]
    /\ UNCHANGED <<room, open, disk, flight, crashes, failures, drops>>

-----------------------------------------------------------------------------
(* The platform. *)

\* An object that has been quiet for ten seconds leaves memory, its sockets
\* stay; an alarm within three seconds comes first.
Hibernate ==
    /\ Idle /\ disk.alarm # "soon" /\ mem # Asleep
    /\ mem' = Asleep
    /\ UNCHANGED <<room, open, disk, flight, crashes, failures, drops>>

\* An eviction or a deploy at any time: between handlers, while a flush waits,
\* between the puts of the snapshot and of the marker, or between the row and
\* the marker's removal.  An alarm under way may be delivered again.
Crash ==
    /\ crashes < MaxCrashes /\ crashes' = crashes + 1
    /\ mem' = Asleep
    /\ open' = FALSE
    /\ flight' = [f \in Slots |-> None]
    /\ \E d \in {disk}
                \cup (IF mem.dirty /\ mem.doc # None /\ room = "live"
                      THEN {[disk EXCEPT !.snap = IF open THEN mem.doc ELSE Prune(mem.doc)]}
                      ELSE {})
                \cup (IF mem.owed /\ mem.doc # None /\ room = "live"
                      THEN {[disk EXCEPT !.row = Live(mem.doc)]} ELSE {}) :
         \/ disk' = d
         \/ (\E f \in Slots : flight[f] # None /\ flight[f].kind = "alarm")
            /\ disk' = ArmedSoon(d)
    /\ UNCHANGED <<room, failures, drops>>

-----------------------------------------------------------------------------
Init ==
    /\ room = "live"
    /\ open = FALSE
    /\ mem = Asleep
    /\ disk = [snap |-> None, marker |-> FALSE, row |-> {}, alarm |-> "none"]
    /\ flight = [f \in Slots |-> None]
    /\ crashes = 0 /\ failures = 0 /\ drops = 0

Next ==
    \/ Connect \/ SyncFrame \/ ReadBoard \/ ClearBoard \/ SceneWrite \/ DeleteRoom
    \/ LastSocketCloses \/ AlarmFires
    \/ \E f \in Slots : TouchReturns(f) \/ ForcedReturns(f)
    \/ TimePasses \/ Hibernate \/ Crash

Spec == Init /\ [][Next]_vars

\* The platform delivers alarms, and the IdentityDO answers or times out.
Fairness ==
    /\ WF_vars(AlarmFires)
    /\ WF_vars(\E f \in Slots : TouchReturns(f) \/ ForcedReturns(f))

FairSpec == Spec /\ Fairness

-----------------------------------------------------------------------------
(* Properties. *)

\* Memory, storage and flushes keep their shapes, and only a loaded document is
\* ever dirty: no flush finds a mark without the document it stands for.
TypeOK ==
    /\ room \in {"live", "gone"}
    /\ open \in BOOLEAN
    /\ mem \in Mem /\ (mem.dirty => mem.doc # None)
    /\ disk \in Disk
    /\ flight \in [Slots -> Flight \cup {None}]
    /\ crashes \in Nat /\ failures \in Nat /\ drops \in Nat

\* A deleted room stays deleted: no flush that was under way, no close and no
\* alarm puts a snapshot, a marker or a row back.
DeletedLeavesNothing ==
    room = "gone" =>
        disk.snap = None /\ ~disk.marker /\ disk.row = {} /\ ~mem.dirty

\* What was stored is never lost: whatever flushes overlap, fail or are cut
\* off, and whatever is loaded after them, a stored stroke stays stored unless
\* it is erased or the whole board is superseded or deleted.
StoredStrokesStay ==
    [][disk.snap # None /\ disk'.snap # None =>
          \A e \in Elements : disk.snap[e] # "never" => disk'.snap[e] # "never"]_vars

\* An alarm within three seconds, or a flush under way.
Scheduled == disk.alarm = "soon" \/ ~Idle

\* A stroke gives the board a deadline, and a board that has one keeps it while
\* it is dirty: through failed writes, alarms that are consumed and flushes that
\* overlap.  An idle object leaves memory without a word, so this is what
\* stands between a stroke and its loss.
StrokesKeepDeadline ==
    [][mem'.dirty /\ \/ mem.dirty /\ Scheduled
                     \/ \E e \in Elements : /\ Load(mem, disk).doc[e] = "never"
                                           /\ mem'.doc[e] = "live"
       => Scheduled']_vars

\* The rescheduling invariant the alarm handler states: while a socket is open
\* there is always a next alarm, or one under way that will arrange it.
OpenRoomKeepsAlarm ==
    open => \/ disk.alarm # "none"
            \/ \E f \in Slots : flight[f] # None /\ flight[f].kind = "alarm"

\* A board with a deadline does not stay dirty for ever, however its flushes
\* overlap, wait and fail: it comes to a flush that succeeds.
DirtyIsFlushed == mem.dirty /\ Scheduled ~> ~mem.dirty

\* A projection that is owed is paid, also by an instance that never made the
\* flush: the marker outlives crashes and SQL failures until the row is written.
RowCatchesUp == []<>(~disk.marker \/ (disk.alarm = "none" /\ Idle))

=============================================================================
