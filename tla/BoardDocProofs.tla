--------------------------- MODULE BoardDocProofs ---------------------------
(***************************************************************************)
(* What BoardFlush and BoardSync guarantee: for boards of any size, any      *)
(* number of flushes under way at once, of evictions and of failures; for    *)
(* any number of tabs drawing, under any order of Yjs client ids.            *)
(*                                                                         *)
(* BoardFlush.  A loaded document always covers the stored snapshot: it was  *)
(* loaded from it, and no edit, prune or clear makes an element unheard of.  *)
(* A flush writes the document or nothing, and drops what belongs to a       *)
(* deleted room.  So it is enough to follow a flush in progress by the       *)
(* memory and the storage it is given, whatever came before it.              *)
(*                                                                         *)
(* BoardSync.  An editor's baseline and scene are compared with its own      *)
(* Y.Doc only, never with another tab's: whatever the link does is then one  *)
(* step of that Y.Doc, and what others write leaves it alone.  SyncInv says  *)
(* that but for elements with a twin an editor's Y.Doc reads what the editor *)
(* takes for published and shows nothing the editor does not, and that the   *)
(* logs close under what their writers knew, which a Y.Map's value needs.    *)
(***************************************************************************)
EXTENDS BoardFlush, BoardSync, FiniteSetTheorems, FunctionTheorems, WellFoundedInduction,
        SequenceTheorems, TLAPS

-----------------------------------------------------------------------------
(* Boards. *)

\* Whatever board c has heard of, board b has too.
Covers(b, c) == \A e \in Elements : c[e] # "never" => b[e] # "never"

LEMMA NoneIsNoBoard == None \notin Board /\ None \notin Flight
BY NoneIsNothing

LEMMA PruneIsBoard ==
    ASSUME NEW b \in Board
    PROVE  Prune(b) \in Board /\ Covers(Prune(b), b)
BY DEF Board, Stage, Prune, Covers

LEMMA ClearedIsBoard ==
    ASSUME NEW b \in Board, NEW cut
    PROVE  Cleared(b, cut) \in Board /\ Covers(Cleared(b, cut), b)
BY DEF Board, Stage, Cleared, Covers

LEMMA SeededIsBoard ==
    ASSUME NEW b \in Board, NEW shapes
    PROVE  Seeded(b, shapes) \in Board /\ Covers(Seeded(b, shapes), b)
BY DEF Board, Stage, Seeded, Covers

LEMMA FramesAreBoards ==
    ASSUME NEW b \in Board, NEW c \in Frames(b)
    PROVE  c \in Board /\ Covers(c, b)
<1>1. CASE c = b
  BY <1>1 DEF Covers
<1>2. CASE \E e \in Elements : c = [b EXCEPT ![e] = "live"]
  BY <1>2 DEF Board, Stage, Covers
<1>3. CASE \E e \in Elements : c = [b EXCEPT ![e] = "erased"]
  BY <1>3 DEF Board, Stage, Covers
<1> QED BY <1>1, <1>2, <1>3 DEF Frames, Live

\* What is loaded covers what was stored.
LEMMA StoredIsBoard ==
    ASSUME NEW d \in Disk
    PROVE  Stored(d) \in Board /\ (d.snap # None => Covers(Stored(d), d.snap))
<1>1. Blank \in Board
  BY DEF Blank, Board, Stage
<1>2. d.snap \in Board \cup {None}
  BY DEF Disk
<1>3. CASE d.snap = None
  BY <1>1, <1>3, SeededIsBoard DEF Stored
<1>4. CASE d.snap # None
  <2>1. d.snap \in Board /\ Covers(d.snap, d.snap)
    BY <1>2, <1>4 DEF Covers
  <2> QED BY <1>4, <2>1, SeededIsBoard DEF Stored
<1> QED BY <1>3, <1>4

-----------------------------------------------------------------------------
(* Memory and storage together. *)

\* The inductive invariant on a memory m and a storage d of a room.
Fine(rm, m, d) ==
    /\ m \in Mem /\ d \in Disk
    /\ m.dirty => m.doc # None
    /\ m.doc # None /\ d.snap # None => Covers(m.doc, d.snap)
    /\ rm = "gone" => d.snap = None /\ ~d.marker /\ d.row = {} /\ ~m.dirty

LEMMA MemFields ==
    ASSUME NEW m \in Mem
    PROVE  /\ m.doc \in Board \cup {None}
           /\ m.dirty \in BOOLEAN /\ m.owed \in BOOLEAN /\ m.recent \in BOOLEAN
           /\ m.touched \in BOOLEAN /\ m.pending \in BOOLEAN
BY DEF Mem

\* Loading leaves every other field alone.
LEMMA LoadSound ==
    ASSUME NEW rm, NEW m, NEW d, Fine(rm, m, d)
    PROVE  /\ Fine(rm, Load(m, d), d)
           /\ Load(m, d).doc \in Board
           /\ Load(m, d).dirty = m.dirty
<1>1. m \in Mem /\ d \in Disk
  BY DEF Fine
<1>2. CASE m.doc = None
  <2> DEFINE l == Load(m, d)
  <2>1. /\ l \in Mem /\ l.doc = Stored(d) /\ l.dirty = m.dirty
    BY <1>1, <1>2, StoredIsBoard DEF Load, Mem
  <2> HIDE DEF l
  <2>2. Stored(d) \in Board /\ (d.snap # None => Covers(Stored(d), d.snap))
    BY <1>1, StoredIsBoard
  <2>3. l.doc \in Board /\ l.doc # None
    BY <2>1, <2>2, NoneIsNoBoard
  <2> QED BY <2>1, <2>2, <2>3 DEF Fine, l
<1>3. CASE m.doc # None
  BY <1>1, <1>3, MemFields DEF Load
<1> QED BY <1>2, <1>3

\* Dropping a board is fine in any room, once its row is empty where it must be.
LEMMA DropSound ==
    ASSUME NEW rm, NEW m, NEW d, Fine(rm, m, d)
    PROVE  /\ Fine(rm, DropMem(m), DropDisk(d)) /\ DropDisk(d).snap = None
           /\ DropMem(m).dirty = FALSE /\ DropMem(m).doc = None
<1>1. m \in Mem /\ d \in Disk
  BY DEF Fine
<1>2. /\ DropMem(m) \in Mem /\ DropMem(m).dirty = FALSE /\ DropMem(m).doc = None
  BY <1>1 DEF DropMem, Asleep, Mem
<1>3. /\ DropDisk(d) \in Disk /\ DropDisk(d).snap = None
      /\ DropDisk(d).marker = FALSE /\ DropDisk(d).row = d.row
  BY <1>1 DEF DropDisk, Disk
<1> QED BY <1>2, <1>3 DEF Fine

\* Only the alarm changes.
SameBoard(d, c) == c \in Disk /\ c.snap = d.snap /\ c.marker = d.marker /\ c.row = d.row

LEMMA AlarmSound ==
    ASSUME NEW d \in Disk, NEW kind, NEW m
    PROVE  SameBoard(d, ArmedSoon(d)) /\ SameBoard(d, ArmedLate(d)) /\ SameBoard(d, Rest(kind, m, d))
<1>1. SameBoard(d, ArmedSoon(d))
  BY DEF SameBoard, ArmedSoon, Disk
<1>2. SameBoard(d, ArmedLate(d))
  BY DEF SameBoard, ArmedLate, Disk
<1>3. SameBoard(d, d)
  BY DEF SameBoard
<1> QED BY <1>1, <1>2, <1>3 DEF Rest

LEMMA SameBoardFine ==
    ASSUME NEW rm, NEW m, NEW d, NEW c, Fine(rm, m, d), SameBoard(d, c)
    PROVE  Fine(rm, m, c)
BY DEF Fine, SameBoard

-----------------------------------------------------------------------------
(* The outcomes of a flush. *)

Result == [mem : Mem, disk : Disk, at : {"end", "touch", "forced"}, failed : Nat]

\* The snapshot a part of a flush leaves: the one it found, or one of bs.
Leaves(o, d, bs) ==
    /\ o \in Result /\ Fine(room, o.mem, o.disk)
    /\ o.disk.snap \in bs \cup {d.snap, None}

LEMMA OutcomeFields ==
    ASSUME NEW m \in Mem, NEW d \in Disk, NEW at \in {"end", "touch", "forced"}, NEW n \in Nat
    PROVE  /\ Outcome(m, d, at, n) \in Result
           /\ Outcome(m, d, at, n).mem = m /\ Outcome(m, d, at, n).disk = d
BY DEF Outcome, Result

\* The last part: the projection.
LEMMA ProjectionSound ==
    ASSUME room \in {"live", "gone"}, NEW kind, NEW m, NEW d, Fine(room, m, d),
           NEW o \in Projection(kind, m, d)
    PROVE  Leaves(o, d, {})
<1> DEFINE loaded == Load(m, d)
           done == [loaded EXCEPT !.owed = FALSE]
           written == [d EXCEPT !.row = Live(loaded.doc), !.marker = FALSE]
           tooBig == [d EXCEPT !.marker = FALSE]
<1>1. m \in Mem /\ d \in Disk
  BY DEF Fine
<1>2. loaded \in Mem /\ Fine(room, loaded, d)
  <2>1. Fine(room, loaded, d)
    BY LoadSound
  <2> QED BY <2>1 DEF Fine
<1>3. /\ done \in Mem /\ done.doc = loaded.doc /\ done.dirty = loaded.dirty
  BY <1>2 DEF Mem
<1>4. /\ written \in Disk /\ written.snap = d.snap /\ written.marker = FALSE
  BY <1>1 DEF Disk, Live
<1>5. /\ tooBig \in Disk /\ tooBig.snap = d.snap /\ tooBig.marker = FALSE
      /\ tooBig.row = d.row
  BY <1>1 DEF Disk
<1>6. ASSUME NEW q, NEW c, NEW n \in Nat, Fine(room, q, c), c.snap \in {d.snap, None},
             o = Outcome(q, Rest(kind, q, c), "end", n)
      PROVE  Leaves(o, d, {})
  <2>1. q \in Mem /\ c \in Disk
    BY <1>6 DEF Fine
  <2>2. SameBoard(c, Rest(kind, q, c))
    BY <2>1, AlarmSound
  <2>3. Fine(room, q, Rest(kind, q, c)) /\ Rest(kind, q, c) \in Disk
        /\ Rest(kind, q, c).snap = c.snap
    BY <1>6, <2>2, SameBoardFine DEF SameBoard
  <2> QED BY <1>6, <2>1, <2>3, OutcomeFields DEF Leaves
<1>7. CASE ~m.owed
  BY <1>6, <1>7 DEF Projection
<1>8. CASE m.owed /\ room = "gone"
  <2>1. o = Outcome(DropMem(m), Rest(kind, DropMem(m), DropDisk(d)), "end", 0)
    BY <1>8 DEF Projection
  <2> QED BY <1>6, <2>1, DropSound
<1>9. CASE m.owed /\ room = "live" /\ Live(loaded.doc) \cap Big # {}
  <2>1. o = Outcome(done, Rest(kind, done, tooBig), "end", 0)
    BY <1>9 DEF Projection
  <2>2. Fine(room, done, tooBig)
    BY <1>2, <1>3, <1>5, <1>9 DEF Fine
  <2> HIDE DEF done, tooBig
  <2> QED BY <1>5, <1>6, <2>1, <2>2
<1>10. CASE m.owed /\ room = "live" /\ ~(Live(loaded.doc) \cap Big # {})
  <2>1. \/ o = Outcome(done, Rest(kind, done, written), "end", 0)
        \/ o = Outcome(loaded, Rest(kind, loaded, d), "end", 1)
    BY <1>10 DEF Projection
  <2>2. Fine(room, done, written)
    BY <1>2, <1>3, <1>4, <1>10 DEF Fine
  <2> HIDE DEF loaded, done, written
  <2> QED BY <1>2, <1>4, <1>6, <2>1, <2>2
<1> QED BY <1>7, <1>8, <1>9, <1>10

\* From the end of the touch on.
LEMMA OnwardSound ==
    ASSUME room \in {"live", "gone"}, NEW kind, NEW m, NEW d, Fine(room, m, d),
           NEW o \in Onward(kind, m, d)
    PROVE  Leaves(o, d, {})
<1>1. m \in Mem /\ d \in Disk
  BY DEF Fine
<1>2. CASE kind = "close" /\ m.pending /\ room = "live"
  <2> DEFINE q == [m EXCEPT !.pending = FALSE, !.touched = TRUE]
  <2>1. q \in Mem /\ q.doc = m.doc /\ q.dirty = m.dirty
    BY <1>1 DEF Mem
  <2>2. o = Outcome(q, d, "forced", 0)
    BY <1>2 DEF Onward
  <2>3. Fine(room, q, d)
    BY <2>1 DEF Fine
  <2> HIDE DEF q
  <2> QED BY <1>1, <2>1, <2>2, <2>3, OutcomeFields DEF Leaves
<1>3. CASE ~(kind = "close" /\ m.pending /\ room = "live")
  <2> DEFINE q == IF kind = "close" THEN [m EXCEPT !.pending = FALSE] ELSE m
  <2>1. q \in Mem /\ q.doc = m.doc /\ q.dirty = m.dirty
    BY <1>1 DEF Mem
  <2>2. o \in Projection(kind, q, d)
    BY <1>3 DEF Onward
  <2>3. Fine(room, q, d)
    BY <2>1 DEF Fine
  <2> HIDE DEF q
  <2> QED BY <2>2, <2>3, ProjectionSound
<1> QED BY <1>2, <1>3

\* Counting a failure changes nothing else.
LEMMA FailureSound ==
    ASSUME NEW d, NEW bs, NEW outcomes, \A p \in outcomes : Leaves(p, d, bs),
           NEW o \in WithFailure(outcomes)
    PROVE  Leaves(o, d, bs)
<1>1. PICK p \in outcomes : o = [p EXCEPT !.failed = @ + 1]
  BY DEF WithFailure
<1>2. p \in Result /\ Leaves(p, d, bs)
  BY <1>1 DEF Leaves
<1>3. o \in Result /\ o.mem = p.mem /\ o.disk = p.disk
  BY <1>1, <1>2 DEF Result
<1> QED BY <1>2, <1>3 DEF Leaves

\* The snapshots a flush may write: the document, pruned or not.
Written(m) == IF m.doc = None THEN {} ELSE {m.doc, Prune(m.doc)}

\* A whole flush writes one of those, or no snapshot.
LEMMA FlushSound ==
    ASSUME room \in {"live", "gone"}, NEW kind, NEW m, NEW d, Fine(room, m, d),
           NEW o \in Flush(kind, m, d)
    PROVE  Leaves(o, d, Written(m))
<1> DEFINE b == IF open /\ kind # "close" THEN m.doc ELSE Prune(m.doc)
           kept == [m EXCEPT !.doc = b]
           snapped == [d EXCEPT !.snap = b]
           noted == [snapped EXCEPT !.marker = TRUE]
<1>1. m \in Mem /\ d \in Disk
  BY DEF Fine
<1>2. ASSUME NEW q, NEW c, NEW p \in Onward(kind, q, c), Fine(room, q, c),
             c.snap \in Written(m) \cup {d.snap, None}
      PROVE  Leaves(p, d, Written(m))
  BY <1>2, OnwardSound DEF Leaves
<1>3. CASE ~m.dirty
  BY <1>2, <1>3 DEF Flush
<1>4. CASE m.dirty /\ room = "gone"
  BY <1>4 DEF Fine
<1>5. CASE m.dirty /\ room = "live" /\ m.doc = None
  BY <1>5 DEF Fine
<1>6. CASE m.dirty /\ room = "live" /\ m.doc # None
  <2>1. m.doc \in Board
    BY <1>1, <1>6, MemFields
  <2>2. /\ b \in Board /\ b # None /\ b \in Written(m)
        /\ Covers(b, b) /\ Covers(b, m.doc)
    BY <1>6, <2>1, PruneIsBoard, NoneIsNoBoard DEF Covers, Written
  <2> HIDE DEF b
  <2>3. /\ kept \in Mem /\ kept.doc = b /\ kept.dirty = m.dirty
    BY <1>1, <2>2 DEF Mem
  <2>4. /\ snapped \in Disk /\ snapped.snap = b /\ noted \in Disk /\ noted.snap = b
    BY <1>1, <2>2 DEF Disk
  <2> DEFINE touching == [kept EXCEPT !.touched = TRUE, !.pending = FALSE]
             throttled == [AfterTouch(kept) EXCEPT !.pending = TRUE]
  <2>5. /\ touching \in Mem /\ touching.doc = b
    BY <2>3 DEF Mem
  <2>6. /\ throttled \in Mem /\ throttled.doc = b
    BY <2>3 DEF Mem, AfterTouch
  <2>7. \/ o = Outcome(touching, noted, "touch", 0)
        \/ o \in Onward(kind, throttled, noted)
        \/ o \in WithFailure(Onward(kind, kept, d))
        \/ o \in WithFailure(Onward(kind, kept, snapped))
    BY <1>6 DEF Flush, b
  <2> HIDE DEF kept, snapped, noted, touching, throttled
  <2>8. /\ Fine(room, kept, d) /\ Fine(room, kept, snapped)
        /\ Fine(room, touching, noted) /\ Fine(room, throttled, noted)
    <3>1. d.snap # None => Covers(b, d.snap)
      BY <1>6, <2>2 DEF Fine, Covers
    <3> QED BY <1>1, <1>6, <2>2, <2>3, <2>4, <2>5, <2>6, <3>1 DEF Fine
  <2>9. CASE o = Outcome(touching, noted, "touch", 0)
    BY <2>2, <2>4, <2>5, <2>8, <2>9, OutcomeFields DEF Leaves
  <2>10. CASE o \in Onward(kind, throttled, noted)
    BY <1>2, <2>2, <2>4, <2>8, <2>10
  <2>11. /\ \A p \in Onward(kind, kept, d) : Leaves(p, d, Written(m))
         /\ \A p \in Onward(kind, kept, snapped) : Leaves(p, d, Written(m))
    BY <1>2, <2>2, <2>4, <2>8
  <2> QED BY <2>7, <2>9, <2>10, <2>11, FailureSound
<1> QED BY <1>3, <1>4, <1>5, <1>6

-----------------------------------------------------------------------------
(* Steps. *)

\* No stored board forgets what an earlier one had heard of.
Keeps(c, d) == c.snap # None /\ d.snap # None => Covers(d.snap, c.snap)

Inv ==
    /\ room \in {"live", "gone"}
    /\ open \in BOOLEAN
    /\ Fine(room, mem, disk)
    /\ flight \in [Slots -> Flight \cup {None}]
    /\ crashes \in Nat /\ failures \in Nat /\ drops \in Nat

\* What a step must establish.
StepGoal == Inv' /\ Keeps(disk, disk')

\* The snapshots a flush leaves cover the one it found.
LEMMA WrittenCovers ==
    ASSUME NEW m, NEW d, NEW b, Fine(room, m, d), d.snap # None, b # None,
           b \in Written(m) \cup {d.snap, None}
    PROVE  Covers(b, d.snap)
<1>1. CASE b = d.snap
  BY <1>1 DEF Covers
<1>2. CASE b # d.snap
  <2>1. m.doc # None /\ b \in {m.doc, Prune(m.doc)}
    BY <1>2 DEF Written
  <2>2. m.doc \in Board /\ Covers(m.doc, d.snap)
    BY <2>1, MemFields DEF Fine
  <2> QED BY <2>1, <2>2, PruneIsBoard DEF Covers
<1> QED BY <1>1, <1>2

\* A flush that comes to a sound outcome leaves everything sound.
LEMMA ComesSound ==
    ASSUME Inv, NEW f \in Slots, NEW kind \in {"edit", "alarm", "close"},
           NEW m, NEW d, Fine(room, m, d), d.snap = disk.snap,
           NEW outcomes, \A o \in outcomes : Leaves(o, d, Written(m)),
           Comes(f, kind, outcomes)
    PROVE  /\ Fine(room, mem', disk') /\ Keeps(disk, disk')
           /\ failures' \in Nat /\ flight' \in [Slots -> Flight \cup {None}]
<1>1. PICK o \in outcomes :
        /\ failures' = failures + o.failed /\ mem' = o.mem /\ disk' = o.disk
        /\ flight' = [flight EXCEPT ![f] = IF o.at = "end" THEN None
                                           ELSE [kind |-> kind, at |-> o.at]]
  BY DEF Comes
<1>2. /\ o \in Result /\ Fine(room, o.mem, o.disk)
      /\ o.disk.snap \in Written(m) \cup {d.snap, None}
  BY <1>1 DEF Leaves
<1>3. o.at \in {"end", "touch", "forced"} /\ o.failed \in Nat
  BY <1>2 DEF Result
<1>4. Keeps(disk, disk')
  BY <1>1, <1>2, WrittenCovers DEF Keeps
<1>5. flight' \in [Slots -> Flight \cup {None}]
  BY <1>1, <1>3 DEF Inv, Flight
<1>6. failures' \in Nat
  BY <1>1, <1>3 DEF Inv
<1> QED BY <1>1, <1>2, <1>4, <1>5, <1>6

LEMMA StartsSound ==
    ASSUME Inv, NEW kind \in {"edit", "alarm", "close"}, NEW m, NEW d,
           Fine(room, m, d), d.snap = disk.snap, Starts(kind, m, d)
    PROVE  /\ Fine(room, mem', disk') /\ Keeps(disk, disk')
           /\ failures' \in Nat /\ flight' \in [Slots -> Flight \cup {None}]
<1>1. PICK f \in Slots : Comes(f, kind, Flush(kind, m, d))
  BY DEF Starts
<1>2. room \in {"live", "gone"}
  BY DEF Inv
<1>3. \A o \in Flush(kind, m, d) : Leaves(o, d, Written(m))
  BY <1>2, FlushSound
<1> QED BY <1>1, <1>3, ComesSound

LEMMA Stays == ASSUME NEW c, NEW d, c.snap = d.snap PROVE Keeps(c, d)
BY DEF Keeps, Covers

LEMMA ConnectSound == ASSUME Inv, Connect PROVE StepGoal
<1>1. disk \in Disk
  BY DEF Inv, Fine
<1>2. SameBoard(disk, disk')
  BY <1>1, AlarmSound DEF Connect
<1>3. Fine(room, mem, disk') /\ Keeps(disk, disk')
  BY <1>2, SameBoardFine, Stays DEF Inv, SameBoard
<1> QED BY <1>3 DEF StepGoal, Inv, Connect

LEMMA SyncFrameSound == ASSUME Inv, SyncFrame PROVE StepGoal
<1> DEFINE loaded == Load(mem, disk)
<1>1. Fine(room, loaded, disk) /\ loaded.doc \in Board
  BY LoadSound DEF Inv
<1>2. PICK b \in Frames(loaded.doc) :
        LET m == [loaded EXCEPT !.doc = b, !.dirty = @ \/ b # loaded.doc]
        IN \/ mem' = m /\ UNCHANGED <<disk, flight, failures>>
           \/ mem' = m /\ disk' = ArmedSoon(disk) /\ UNCHANGED <<flight, failures>>
           \/ Starts("edit", [m EXCEPT !.recent = TRUE], disk)
  BY DEF SyncFrame
<1> DEFINE m == [loaded EXCEPT !.doc = b, !.dirty = @ \/ b # loaded.doc]
           n == [m EXCEPT !.recent = TRUE]
<1>3. b \in Board /\ Covers(b, loaded.doc) /\ b # None
  BY <1>1, <1>2, FramesAreBoards, NoneIsNoBoard
<1> HIDE DEF loaded
<1>4. /\ m \in Mem /\ m.doc = b /\ n \in Mem /\ n.doc = b
  BY <1>1, <1>3 DEF Fine, Mem
<1>5. room = "live" /\ room \in {"live", "gone"} /\ disk \in Disk
  BY DEF SyncFrame, Inv, Fine
<1>6. disk.snap # None => Covers(b, disk.snap)
  BY <1>1, <1>3, NoneIsNoBoard DEF Fine, Covers
<1>7. \/ mem' = m /\ UNCHANGED <<disk, flight, failures>>
      \/ mem' = m /\ disk' = ArmedSoon(disk) /\ UNCHANGED <<flight, failures>>
      \/ Starts("edit", n, disk)
  BY <1>2
<1> HIDE DEF m, n
<1>8. Fine(room, m, disk) /\ Fine(room, n, disk)
  BY <1>3, <1>4, <1>5, <1>6 DEF Fine
<1>9. /\ Fine(room, mem', disk') /\ Keeps(disk, disk')
      /\ failures' \in Nat /\ flight' \in [Slots -> Flight \cup {None}]
  <2>1. CASE mem' = m /\ UNCHANGED <<disk, flight, failures>>
    BY <1>8, <2>1, Stays DEF Inv
  <2>2. CASE mem' = m /\ disk' = ArmedSoon(disk) /\ UNCHANGED <<flight, failures>>
    <3>1. SameBoard(disk, disk')
      BY <1>5, <2>2, AlarmSound
    <3> QED BY <1>8, <2>2, <3>1, SameBoardFine, Stays DEF Inv, SameBoard
  <2>3. CASE Starts("edit", n, disk)
    BY <1>8, <2>3, StartsSound
  <2> QED BY <1>7, <2>1, <2>2, <2>3
<1> QED BY <1>9 DEF StepGoal, Inv, SyncFrame

LEMMA ReadBoardSound == ASSUME Inv, ReadBoard PROVE StepGoal
<1>1. Fine(room, mem', disk')
  BY LoadSound DEF Inv, ReadBoard
<1> QED BY <1>1, Stays DEF StepGoal, Inv, ReadBoard

LEMMA ClearBoardSound == ASSUME Inv, ClearBoard PROVE StepGoal
<1> DEFINE loaded == Load(mem, disk)
<1>1. Fine(room, loaded, disk) /\ loaded.doc \in Board
  BY LoadSound DEF Inv
<1>2. PICK cut \in SUBSET Elements :
        mem' = [loaded EXCEPT !.doc = Cleared(@, cut),
                              !.dirty = @ \/ Cleared(loaded.doc, cut) # loaded.doc]
  BY DEF ClearBoard
<1> HIDE DEF loaded
<1> DEFINE b == Cleared(loaded.doc, cut)
<1>3. b \in Board /\ Covers(b, loaded.doc) /\ b # None
  BY <1>1, ClearedIsBoard, NoneIsNoBoard
<1>4. mem' \in Mem /\ mem'.doc = b
  BY <1>1, <1>2, <1>3 DEF Fine, Mem
<1> HIDE DEF b
<1>5. room = "live" /\ UNCHANGED <<room, disk>>
  BY DEF ClearBoard
<1>6. Fine(room, mem', disk)
  BY <1>1, <1>3, <1>4, <1>5, NoneIsNoBoard DEF Fine, Covers
<1> QED BY <1>5, <1>6, Stays DEF StepGoal, Inv, ClearBoard

LEMMA SceneWriteSound == ASSUME Inv, SceneWrite PROVE StepGoal
<1>1. PICK shapes \in SUBSET Elements :
        IF shapes = {}
        THEN disk' = [disk EXCEPT !.row = {}] /\ UNCHANGED <<mem, drops>>
        ELSE /\ drops' = drops + 1
             /\ disk' = [DropDisk(disk) EXCEPT !.row = shapes]
             /\ mem' = DropMem(mem)
  BY DEF SceneWrite
<1>2. disk \in Disk /\ room = "live" /\ room' = room
  BY DEF Inv, Fine, SceneWrite
<1>3. CASE shapes = {}
  <2>1. disk' \in Disk /\ disk'.snap = disk.snap
    BY <1>1, <1>2, <1>3 DEF Disk
  <2>2. Fine(room, mem', disk') /\ Keeps(disk, disk')
    BY <1>1, <1>2, <1>3, <2>1, Stays DEF Inv, Fine
  <2> QED BY <1>1, <1>3, <2>2 DEF StepGoal, Inv, SceneWrite
<1>4. CASE shapes # {}
  <2>1. Fine(room, DropMem(mem), DropDisk(disk)) /\ DropDisk(disk).snap = None
        /\ DropMem(mem).dirty = FALSE /\ DropMem(mem).doc = None
    BY DropSound DEF Inv
  <2>2. DropDisk(disk) \in Disk
    BY <2>1 DEF Fine
  <2>3. disk' \in Disk /\ disk'.snap = None
    BY <1>1, <1>4, <2>1, <2>2 DEF Disk
  <2>4. Fine(room, mem', disk') /\ Keeps(disk, disk')
    BY <1>1, <1>2, <1>4, <2>1, <2>3 DEF Fine, Keeps
  <2>5. drops' \in Nat
    BY <1>1, <1>4 DEF Inv
  <2> QED BY <2>4, <2>5 DEF StepGoal, Inv, SceneWrite
<1> QED BY <1>3, <1>4

LEMMA DeleteRoomSound == ASSUME Inv, DeleteRoom PROVE StepGoal
<1>1. Fine(room, DropMem(mem), DropDisk(disk)) /\ DropDisk(disk).snap = None
      /\ DropMem(mem).dirty = FALSE /\ DropMem(mem).doc = None
  BY DropSound DEF Inv
<1>2. disk \in Disk
  BY DEF Inv, Fine
<1>3. /\ disk' \in Disk /\ disk'.snap = None /\ disk'.marker = FALSE /\ disk'.row = {}
  BY <1>2, NoneIsNoBoard DEF DeleteRoom, DropDisk, Disk
<1>4. mem' = DropMem(mem)
  BY DEF DeleteRoom
<1>5. Fine(room', mem', disk') /\ Keeps(disk, disk')
  BY <1>1, <1>3, <1>4 DEF Fine, Keeps
<1>6. room' \in {"live", "gone"} /\ drops' \in Nat /\ UNCHANGED <<flight, crashes, failures>>
  BY DEF Inv, DeleteRoom
<1>7. open' \in BOOLEAN
  BY DEF DeleteRoom
<1> QED BY <1>5, <1>6, <1>7 DEF StepGoal, Inv

LEMMA LastSocketClosesSound == ASSUME Inv, LastSocketCloses PROVE StepGoal
<1>1. /\ Fine(room, mem', disk') /\ Keeps(disk, disk')
      /\ failures' \in Nat /\ flight' \in [Slots -> Flight \cup {None}]
  BY StartsSound DEF Inv, LastSocketCloses
<1> QED BY <1>1 DEF StepGoal, Inv, LastSocketCloses

LEMMA AlarmFiresSound == ASSUME Inv, AlarmFires PROVE StepGoal
<1> DEFINE m == [mem EXCEPT !.owed = @ \/ disk.marker]
           d == [disk EXCEPT !.alarm = "none"]
<1>1. m \in Mem /\ m.doc = mem.doc /\ m.dirty = mem.dirty
  BY DEF Inv, Fine, Mem, Disk
<1>2. d \in Disk /\ d.snap = disk.snap /\ d.marker = disk.marker /\ d.row = disk.row
  BY DEF Inv, Fine, Disk
<1>3. Starts("alarm", m, d)
  BY DEF AlarmFires
<1> HIDE DEF m, d
<1>4. Fine(room, m, d)
  BY <1>1, <1>2 DEF Inv, Fine
<1>5. /\ Fine(room, mem', disk') /\ Keeps(disk, disk')
      /\ failures' \in Nat /\ flight' \in [Slots -> Flight \cup {None}]
  BY <1>2, <1>3, <1>4, StartsSound
<1> QED BY <1>5 DEF StepGoal, Inv, AlarmFires

LEMMA TouchReturnsSound ==
    ASSUME Inv, NEW f \in Slots, TouchReturns(f) PROVE StepGoal
<1> DEFINE m == AfterTouch(mem)
           kind == flight[f].kind
<1>1. m \in Mem /\ m.doc = mem.doc /\ m.dirty = FALSE
  BY DEF AfterTouch, Inv, Fine, Mem
<1>2. Comes(f, kind, Onward(kind, m, disk)) /\ flight[f] \in Flight
  BY DEF TouchReturns, Inv
<1>3. kind \in {"edit", "alarm", "close"}
  BY <1>2 DEF Flight
<1> HIDE DEF m, kind
<1>4. Fine(room, m, disk)
  BY <1>1 DEF Inv, Fine
<1>5. \A o \in Onward(kind, m, disk) : Leaves(o, disk, Written(m))
  BY <1>4, OnwardSound DEF Leaves, Inv
<1>6. /\ Fine(room, mem', disk') /\ Keeps(disk, disk')
      /\ failures' \in Nat /\ flight' \in [Slots -> Flight \cup {None}]
  BY <1>2, <1>3, <1>4, <1>5, ComesSound
<1> QED BY <1>6 DEF StepGoal, Inv, TouchReturns

LEMMA ForcedReturnsSound ==
    ASSUME Inv, NEW f \in Slots, ForcedReturns(f) PROVE StepGoal
<1> DEFINE kind == flight[f].kind
<1>1. Comes(f, kind, Projection(kind, mem, disk)) /\ flight[f] \in Flight
  BY DEF ForcedReturns, Inv
<1>2. kind \in {"edit", "alarm", "close"}
  BY <1>1 DEF Flight
<1> HIDE DEF kind
<1>3. Fine(room, mem, disk) /\ room \in {"live", "gone"}
  BY DEF Inv
<1>4. \A o \in Projection(kind, mem, disk) : Leaves(o, disk, Written(mem))
  BY <1>3, ProjectionSound DEF Leaves
<1>5. /\ Fine(room, mem', disk') /\ Keeps(disk, disk')
      /\ failures' \in Nat /\ flight' \in [Slots -> Flight \cup {None}]
  BY <1>1, <1>2, <1>3, <1>4, ComesSound
<1> QED BY <1>5 DEF StepGoal, Inv, ForcedReturns

LEMMA TimePassesSound == ASSUME Inv, TimePasses PROVE StepGoal
<1>1. mem' \in Mem /\ mem'.doc = mem.doc /\ mem'.dirty = mem.dirty
  BY DEF Inv, Fine, Mem, TimePasses
<1>2. Fine(room, mem', disk)
  BY <1>1 DEF Inv, Fine
<1> QED BY <1>2, Stays DEF StepGoal, Inv, TimePasses

\* An instance that has just woken knows nothing, which is always right.
LEMMA AsleepFine ==
    ASSUME NEW rm, NEW m, NEW d, Fine(rm, m, d) PROVE Fine(rm, Asleep, d)
BY DEF Fine, Asleep, Mem

LEMMA HibernateSound == ASSUME Inv, Hibernate PROVE StepGoal
BY AsleepFine, Stays DEF StepGoal, Inv, Hibernate

LEMMA CrashSound == ASSUME Inv, Crash PROVE StepGoal
<1>1. PICK d : /\ \/ d = disk
                  \/ /\ mem.dirty /\ mem.doc # None /\ room = "live"
                     /\ d = [disk EXCEPT !.snap = IF open THEN mem.doc ELSE Prune(mem.doc)]
                  \/ /\ mem.owed /\ mem.doc # None /\ room = "live"
                     /\ d = [disk EXCEPT !.row = Live(mem.doc)]
               /\ disk' = d \/ disk' = ArmedSoon(d)
  BY DEF Crash
<1>2. Fine(room, mem, disk) /\ mem \in Mem /\ disk \in Disk
  BY DEF Inv, Fine
<1>3. Fine(room, Asleep, d) /\ Keeps(disk, d)
  <2>1. CASE d = disk
    BY <1>2, <2>1, AsleepFine, Stays
  <2>2. CASE /\ mem.dirty /\ mem.doc # None /\ room = "live"
             /\ d = [disk EXCEPT !.snap = IF open THEN mem.doc ELSE Prune(mem.doc)]
    <3> DEFINE b == IF open THEN mem.doc ELSE Prune(mem.doc)
    <3>1. mem.doc \in Board /\ b \in Board /\ b \in Written(mem) /\ b # None
      BY <1>2, <2>2, MemFields, PruneIsBoard, NoneIsNoBoard DEF Written
    <3> HIDE DEF b
    <3>2. d \in Disk /\ d.snap = b
      BY <1>2, <2>2, <3>1 DEF Disk, b
    <3>3. Asleep \in Mem /\ Asleep.doc = None /\ Asleep.dirty = FALSE
      BY DEF Asleep, Mem
    <3> QED BY <1>2, <2>2, <3>1, <3>2, <3>3, WrittenCovers DEF Fine, Keeps
  <2>3. CASE /\ mem.owed /\ mem.doc # None /\ room = "live"
             /\ d = [disk EXCEPT !.row = Live(mem.doc)]
    <3>1. d \in Disk /\ d.snap = disk.snap
      BY <1>2, <2>3 DEF Disk, Live
    <3>2. Asleep \in Mem /\ Asleep.doc = None /\ Asleep.dirty = FALSE
      BY DEF Asleep, Mem
    <3> QED BY <2>3, <3>1, <3>2, Stays DEF Fine
  <2> QED BY <1>1, <2>1, <2>2, <2>3
<1>4. Fine(room, Asleep, disk') /\ Keeps(disk, disk')
  <2>1. CASE disk' = d
    BY <1>3, <2>1
  <2>2. CASE disk' = ArmedSoon(d)
    <3>1. SameBoard(d, disk')
      BY <1>3, <2>2, AlarmSound DEF Fine
    <3> QED BY <1>3, <3>1, SameBoardFine DEF SameBoard, Keeps
  <2> QED BY <1>1, <2>1, <2>2
<1>5. mem' = Asleep /\ crashes' \in Nat /\ UNCHANGED <<room, failures, drops>>
  BY DEF Inv, Crash
<1>6. flight' \in [Slots -> Flight \cup {None}]
  BY DEF Crash
<1>7. open' \in BOOLEAN
  BY DEF Crash
<1> QED BY <1>4, <1>5, <1>6, <1>7 DEF StepGoal, Inv

LEMMA InitSound == Init => Inv
<1> SUFFICES ASSUME Init PROVE Inv
  OBVIOUS
<1>1. mem \in Mem /\ mem.dirty = FALSE /\ mem.doc = None
  BY DEF Init, Asleep, Mem
<1>2. disk \in Disk /\ disk.snap = None
  BY DEF Init, Disk
<1>3. Fine(room, mem, disk)
  BY <1>1, <1>2 DEF Init, Fine
<1>4. flight \in [Slots -> Flight \cup {None}]
  BY DEF Init
<1> QED BY <1>3, <1>4 DEF Init, Inv

LEMMA StepSound == ASSUME Inv, [Next]_vars PROVE StepGoal
<1>1. CASE UNCHANGED vars
  BY <1>1, Stays DEF vars, StepGoal, Inv
<1>2. CASE Next
  BY <1>2, ConnectSound, SyncFrameSound, ReadBoardSound, ClearBoardSound, SceneWriteSound,
     DeleteRoomSound, LastSocketClosesSound, AlarmFiresSound, TouchReturnsSound,
     ForcedReturnsSound, TimePassesSound, HibernateSound, CrashSound DEF Next
<1> QED BY <1>1, <1>2

\* Memory, storage and flushes keep their shapes, and no dirty mark ever stands
\* for a document that is not loaded, however many flushes overlap.
THEOREM TypeCorrect == Spec => []TypeOK
<1>1. Init => Inv
  BY InitSound
<1>2. Inv /\ [Next]_vars => Inv'
  BY StepSound DEF StepGoal
<1>3. Inv => TypeOK
  BY DEF Inv, TypeOK, Fine
<1> QED BY <1>1, <1>2, <1>3, PTL DEF Spec

\* A deleted room stays deleted: no flush that was waiting when it went, no
\* close, alarm or eviction brings a snapshot, a marker or a row back.
THEOREM DeletedIsGone == Spec => []DeletedLeavesNothing
<1>1. Init => Inv
  BY InitSound
<1>2. Inv /\ [Next]_vars => Inv'
  BY StepSound DEF StepGoal
<1>3. Inv => DeletedLeavesNothing
  BY DEF Inv, DeletedLeavesNothing, Fine
<1> QED BY <1>1, <1>2, <1>3, PTL DEF Spec

\* A stored stroke stays stored, over any overlap of flushes, failed writes,
\* evictions and loads, until it is erased or its whole board is dropped.
THEOREM StoredStays == Spec => StoredStrokesStay
<1>1. Init => Inv
  BY InitSound
<1>2. Inv /\ [Next]_vars => Inv'
  BY StepSound DEF StepGoal
<1> DEFINE Stay == disk.snap # None /\ disk'.snap # None =>
                     \A e \in Elements : disk.snap[e] # "never" => disk'.snap[e] # "never"
<1>3. Inv /\ [Next]_vars => [Stay]_vars
  BY StepSound DEF StepGoal, Keeps, Covers
<1>4. StoredStrokesStay <=> [][Stay]_vars
  BY DEF StoredStrokesStay
<1> HIDE DEF Stay
<1> QED BY <1>1, <1>2, <1>3, <1>4, PTL DEF Spec

-----------------------------------------------------------------------------
(* Alarms. *)

\* A part of a flush that ends leaves a deadline for what is still dirty, and
\* in the alarm of a room that exists a next alarm; none takes an alarm away.
Rests(o, kind, d) ==
    /\ o.at = "end" /\ o.mem.dirty => o.disk.alarm = "soon"
    /\ o.at = "end" /\ kind = "alarm" /\ room = "live" => o.disk.alarm # "none"
    /\ d.alarm # "none" => o.disk.alarm # "none"

LEMMA RestRests ==
    ASSUME NEW kind, NEW m, NEW d \in Disk
    PROVE  /\ m.dirty => Rest(kind, m, d).alarm = "soon"
           /\ kind = "alarm" /\ room = "live" => Rest(kind, m, d).alarm # "none"
           /\ d.alarm # "none" => Rest(kind, m, d).alarm # "none"
<1>1. ArmedSoon(d).alarm = "soon"
  BY DEF ArmedSoon, Disk
<1>2. ArmedLate(d).alarm # "none"
  BY DEF ArmedLate, Disk
<1> QED BY <1>1, <1>2 DEF Rest

LEMMA OutcomeParts ==
    ASSUME NEW m, NEW d, NEW at, NEW n
    PROVE  /\ Outcome(m, d, at, n).mem = m /\ Outcome(m, d, at, n).disk = d
           /\ Outcome(m, d, at, n).at = at
BY DEF Outcome

LEMMA EndRests ==
    ASSUME NEW kind, NEW q, NEW c \in Disk, NEW d, c.alarm = d.alarm, NEW n, NEW o,
           o = Outcome(q, Rest(kind, q, c), "end", n)
    PROVE  Rests(o, kind, d)
<1>1. o.mem = q /\ o.disk = Rest(kind, q, c)
  BY OutcomeParts
<1> QED BY <1>1, RestRests DEF Rests

LEMMA ProjectionRests ==
    ASSUME room \in {"live", "gone"}, NEW kind, NEW m, NEW d \in Disk,
           NEW o \in Projection(kind, m, d)
    PROVE  Rests(o, kind, d)
<1> DEFINE loaded == Load(m, d)
           done == [loaded EXCEPT !.owed = FALSE]
           written == [d EXCEPT !.row = Live(loaded.doc), !.marker = FALSE]
           tooBig == [d EXCEPT !.marker = FALSE]
<1>1. /\ written \in Disk /\ written.alarm = d.alarm
      /\ tooBig \in Disk /\ tooBig.alarm = d.alarm
      /\ DropDisk(d) \in Disk /\ DropDisk(d).alarm = d.alarm
  BY DEF Disk, Live, DropDisk
<1>2. CASE ~m.owed
  BY <1>2, EndRests DEF Projection
<1>3. CASE m.owed /\ room = "gone"
  <2>1. o = Outcome(DropMem(m), Rest(kind, DropMem(m), DropDisk(d)), "end", 0)
    BY <1>3 DEF Projection
  <2> QED BY <1>1, <2>1, EndRests
<1>4. CASE m.owed /\ room = "live"
  <2>1. \/ o = Outcome(done, Rest(kind, done, tooBig), "end", 0)
        \/ o = Outcome(done, Rest(kind, done, written), "end", 0)
        \/ o = Outcome(loaded, Rest(kind, loaded, d), "end", 1)
    BY <1>4 DEF Projection
  <2> HIDE DEF loaded, done, written, tooBig
  <2> QED BY <1>1, <2>1, EndRests
<1> QED BY <1>2, <1>3, <1>4

LEMMA OnwardRests ==
    ASSUME room \in {"live", "gone"}, NEW kind, NEW m, NEW d \in Disk,
           NEW o \in Onward(kind, m, d)
    PROVE  Rests(o, kind, d)
<1>1. CASE kind = "close" /\ m.pending /\ room = "live"
  <2>1. o = Outcome([m EXCEPT !.pending = FALSE, !.touched = TRUE], d, "forced", 0)
    BY <1>1 DEF Onward
  <2>2. o.at = "forced" /\ o.disk = d
    BY <2>1, OutcomeParts
  <2> QED BY <2>2 DEF Rests
<1>2. CASE ~(kind = "close" /\ m.pending /\ room = "live")
  <2>1. \E q : o \in Projection(kind, q, d)
    BY <1>2 DEF Onward
  <2> QED BY <2>1, ProjectionRests
<1> QED BY <1>1, <1>2

LEMMA FailureRests ==
    ASSUME NEW kind, NEW d, NEW outcomes, \A p \in outcomes : p \in Result /\ Rests(p, kind, d),
           NEW o \in WithFailure(outcomes)
    PROVE  Rests(o, kind, d)
<1>1. PICK p \in outcomes : o = [p EXCEPT !.failed = @ + 1]
  BY DEF WithFailure
<1>2. o.mem = p.mem /\ o.disk = p.disk /\ o.at = p.at
  BY <1>1 DEF Result
<1> QED BY <1>1, <1>2 DEF Rests

LEMMA FlushRests ==
    ASSUME room \in {"live", "gone"}, NEW kind, NEW m, NEW d, Fine(room, m, d),
           NEW o \in Flush(kind, m, d)
    PROVE  Rests(o, kind, d)
<1> DEFINE b == IF open /\ kind # "close" THEN m.doc ELSE Prune(m.doc)
           kept == [m EXCEPT !.doc = b]
           snapped == [d EXCEPT !.snap = b]
           noted == [snapped EXCEPT !.marker = TRUE]
<1>1. m \in Mem /\ d \in Disk
  BY DEF Fine
<1>2. CASE ~m.dirty
  BY <1>1, <1>2, OnwardRests DEF Flush
<1>3. CASE m.dirty /\ (room = "gone" \/ m.doc = None)
  BY <1>3 DEF Fine
<1>4. CASE m.dirty /\ room = "live" /\ m.doc # None
  <2>1. m.doc \in Board
    BY <1>1, <1>4, MemFields
  <2>2. b \in Board /\ b # None /\ Covers(b, b) /\ Covers(b, m.doc)
    BY <2>1, PruneIsBoard, NoneIsNoBoard DEF Covers
  <2> HIDE DEF b
  <2>3. kept \in Mem /\ kept.doc = b /\ kept.dirty = m.dirty
    BY <1>1, <2>2 DEF Mem
  <2>4. /\ snapped \in Disk /\ snapped.alarm = d.alarm /\ snapped.snap = b
        /\ noted \in Disk /\ noted.alarm = d.alarm
    BY <1>1, <2>2 DEF Disk
  <2> DEFINE touching == [kept EXCEPT !.touched = TRUE, !.pending = FALSE]
             throttled == [AfterTouch(kept) EXCEPT !.pending = TRUE]
  <2>5. \/ o = Outcome(touching, noted, "touch", 0)
        \/ o \in Onward(kind, throttled, noted)
        \/ o \in WithFailure(Onward(kind, kept, d))
        \/ o \in WithFailure(Onward(kind, kept, snapped))
    BY <1>4 DEF Flush, b
  <2> HIDE DEF kept, snapped, noted, touching, throttled
  <2>6. CASE o = Outcome(touching, noted, "touch", 0)
    <3>1. o.at = "touch" /\ o.disk = noted
      BY <2>6, OutcomeParts
    <3> QED BY <2>4, <3>1 DEF Rests
  <2>7. CASE o \in Onward(kind, throttled, noted)
    <3>1. Rests(o, kind, noted)
      BY <2>4, <2>7, OnwardRests
    <3> QED BY <2>4, <3>1 DEF Rests
  <2>8. CASE o \in WithFailure(Onward(kind, kept, d)) \/ o \in WithFailure(Onward(kind, kept, snapped))
    <3>1. Fine(room, kept, d) /\ Fine(room, kept, snapped)
      <4>1. d.snap # None => Covers(b, d.snap)
        BY <1>4, <2>2 DEF Fine, Covers
      <4> QED BY <1>1, <1>4, <2>2, <2>3, <2>4, <4>1 DEF Fine
    <3>2. /\ \A p \in Onward(kind, kept, d) : p \in Result /\ Rests(p, kind, d)
          /\ \A p \in Onward(kind, kept, snapped) : p \in Result /\ Rests(p, kind, snapped)
      BY <1>1, <2>4, <3>1, OnwardSound, OnwardRests DEF Leaves
    <3>3. Rests(o, kind, d) \/ Rests(o, kind, snapped)
      BY <2>8, <3>2, FailureRests
    <3> QED BY <2>4, <3>3 DEF Rests
  <2> QED BY <2>5, <2>6, <2>7, <2>8
<1> QED BY <1>2, <1>3, <1>4

\* An alarm, or an alarm's flush under way.
Alarmed == disk.alarm # "none" \/ \E f \in Slots : flight[f] # None /\ flight[f].kind = "alarm"

\* A flush in slot f that comes to such an outcome.
LEMMA ComesRests ==
    ASSUME Inv, NEW f \in Slots, NEW kind \in {"edit", "alarm", "close"}, NEW d, NEW outcomes,
           \A o \in outcomes : o \in Result /\ Rests(o, kind, d), Comes(f, kind, outcomes)
    PROVE  /\ mem'.dirty => Scheduled'
           /\ d.alarm # "none" => disk'.alarm # "none"
           /\ kind = "alarm" /\ room = "live" => Alarmed'
           /\ \A g \in Slots \ {f} : flight'[g] = flight[g]
<1>1. PICK o \in outcomes :
        /\ mem' = o.mem /\ disk' = o.disk
        /\ flight' = [flight EXCEPT ![f] = IF o.at = "end" THEN None
                                           ELSE [kind |-> kind, at |-> o.at]]
  BY DEF Comes
<1>2. flight \in [Slots -> Flight \cup {None}] /\ Rests(o, kind, d) /\ o \in Result
  BY <1>1 DEF Inv
<1>3. CASE o.at = "end"
  BY <1>1, <1>2, <1>3 DEF Rests, Scheduled, Alarmed
<1>4. CASE o.at # "end"
  <2>1. flight'[f] = [kind |-> kind, at |-> o.at] /\ flight'[f].kind = kind
    BY <1>1, <1>2, <1>4
  <2>2. flight'[f] \in Flight
    BY <1>2, <1>4, <2>1 DEF Result, Flight
  <2>3. flight'[f] # None
    BY <2>2, NoneIsNoBoard
  <2>4. Scheduled' /\ (kind = "alarm" => Alarmed')
    BY <2>1, <2>3 DEF Scheduled, Idle, Alarmed
  <2> QED BY <1>1, <1>2, <2>4 DEF Rests
<1> QED BY <1>3, <1>4

LEMMA StartsRests ==
    ASSUME Inv, NEW kind \in {"edit", "alarm", "close"}, NEW m, NEW d,
           Fine(room, m, d), Starts(kind, m, d)
    PROVE  /\ mem'.dirty => Scheduled'
           /\ d.alarm # "none" => disk'.alarm # "none"
           /\ kind = "alarm" /\ room = "live" => Alarmed'
           /\ \A g \in Slots : flight[g] # None => flight'[g] = flight[g]
<1>1. PICK f \in Slots : flight[f] = None /\ Comes(f, kind, Flush(kind, m, d))
  BY DEF Starts
<1>2. room \in {"live", "gone"}
  BY DEF Inv
<1>3. \A o \in Flush(kind, m, d) : o \in Result /\ Rests(o, kind, d)
  BY <1>2, FlushSound, FlushRests DEF Leaves
<1> QED BY <1>1, <1>3, ComesRests

\* A flush that waited goes on.
LEMMA ReturnsRest ==
    ASSUME Inv, NEW f \in Slots, TouchReturns(f) \/ ForcedReturns(f)
    PROVE  /\ mem'.dirty => Scheduled'
           /\ disk.alarm # "none" => disk'.alarm # "none"
           /\ flight[f].kind = "alarm" /\ room = "live" => Alarmed'
           /\ \A g \in Slots \ {f} : flight'[g] = flight[g]
<1> DEFINE kind == flight[f].kind
           m == AfterTouch(mem)
<1>1. /\ flight[f] \in Flight /\ Fine(room, mem, disk) /\ disk \in Disk
      /\ room \in {"live", "gone"}
  BY DEF TouchReturns, ForcedReturns, Inv, Fine
<1>2. kind \in {"edit", "alarm", "close"}
  BY <1>1 DEF Flight
<1>3. m \in Mem /\ m.doc = mem.doc /\ m.dirty = FALSE
  BY DEF AfterTouch, Inv, Fine, Mem
<1>4. \/ Comes(f, kind, Onward(kind, m, disk))
      \/ Comes(f, kind, Projection(kind, mem, disk))
  BY DEF TouchReturns, ForcedReturns
<1> HIDE DEF kind, m
<1>5. Fine(room, m, disk)
  BY <1>1, <1>3 DEF Fine
<1>6. \A o \in Onward(kind, m, disk) : o \in Result /\ Rests(o, kind, disk)
  BY <1>1, <1>5, OnwardSound, OnwardRests DEF Leaves
<1>7. \A o \in Projection(kind, mem, disk) : o \in Result /\ Rests(o, kind, disk)
  BY <1>1, ProjectionSound, ProjectionRests DEF Leaves
<1> QED BY <1>2, <1>4, <1>6, <1>7, ComesRests DEF kind

\* A frame either changes nothing, arms the alarm or starts a flush.
LEMMA SyncFrameRests ==
    ASSUME Inv, SyncFrame
    PROVE  /\ mem'.dirty => Scheduled'
           /\ disk.alarm # "none" => disk'.alarm # "none"
           /\ \A g \in Slots : flight[g] # None => flight'[g] = flight[g]
<1> DEFINE loaded == Load(mem, disk)
<1>1. Fine(room, loaded, disk) /\ loaded.doc \in Board /\ disk \in Disk
  <2>1. Fine(room, mem, disk) /\ disk \in Disk
    BY DEF Inv, Fine
  <2> QED BY <2>1, LoadSound
<1>2. PICK b \in Frames(loaded.doc) :
        LET m == [loaded EXCEPT !.doc = b, !.dirty = @ \/ b # loaded.doc]
        IN \/ ~m.dirty /\ mem' = m /\ UNCHANGED <<disk, flight, failures>>
           \/ disk' = ArmedSoon(disk) /\ UNCHANGED <<flight, failures>>
           \/ Starts("edit", [m EXCEPT !.recent = TRUE], disk)
  BY DEF SyncFrame
<1> DEFINE m == [loaded EXCEPT !.doc = b, !.dirty = @ \/ b # loaded.doc]
           n == [m EXCEPT !.recent = TRUE]
<1>3. b \in Board /\ Covers(b, loaded.doc) /\ b # None
  BY <1>1, <1>2, FramesAreBoards, NoneIsNoBoard
<1>4. room = "live"
  BY DEF SyncFrame
<1> HIDE DEF loaded
<1>5. m \in Mem /\ m.doc = b /\ n \in Mem /\ n.doc = b
  BY <1>1, <1>3 DEF Fine, Mem
<1>6. disk.snap # None => Covers(b, disk.snap)
  BY <1>1, <1>3, NoneIsNoBoard DEF Fine, Covers
<1>7. CASE ~m.dirty /\ mem' = m /\ UNCHANGED <<disk, flight, failures>>
  BY <1>7
<1>8. CASE disk' = ArmedSoon(disk) /\ UNCHANGED <<flight, failures>>
  <2>1. disk'.alarm = "soon"
    BY <1>1, <1>8 DEF ArmedSoon, Disk
  <2> QED BY <1>8, <2>1 DEF Scheduled
<1>9. CASE Starts("edit", n, disk)
  <2> HIDE DEF m, n
  <2>1. Fine(room, n, disk)
    BY <1>1, <1>3, <1>4, <1>5, <1>6 DEF Fine
  <2> QED BY <1>9, <2>1, StartsRests
<1> QED BY <1>2, <1>7, <1>8, <1>9

\* What an alarm finds, and what it starts.
LEMMA AlarmFiresRests ==
    ASSUME Inv, AlarmFires
    PROVE  /\ mem'.dirty => Scheduled'
           /\ room = "live" => Alarmed'
<1> DEFINE m == [mem EXCEPT !.owed = @ \/ disk.marker]
           d == [disk EXCEPT !.alarm = "none"]
<1>1. m \in Mem /\ m.doc = mem.doc /\ m.dirty = mem.dirty
  BY DEF Inv, Fine, Mem, Disk
<1>2. d \in Disk /\ d.snap = disk.snap /\ d.marker = disk.marker /\ d.row = disk.row
  BY DEF Inv, Fine, Disk
<1>3. Starts("alarm", m, d)
  BY DEF AlarmFires
<1> HIDE DEF m, d
<1>4. Fine(room, m, d)
  BY <1>1, <1>2 DEF Inv, Fine
<1> QED BY <1>3, <1>4, StartsRests

-----------------------------------------------------------------------------
(* The deadline and the next alarm. *)

\* The alarm, and that an open socket means a room.
AlarmInv == Inv /\ OpenRoomKeepsAlarm /\ (open => room = "live")

\* An alarm, and the flights that wait, stay what they were.
LEMMA AlarmedStays ==
    ASSUME Alarmed, disk.alarm # "none" => disk'.alarm # "none",
           \A g \in Slots : flight[g] # None => flight'[g] = flight[g]
    PROVE  Alarmed'
BY DEF Alarmed

\* While a socket is open there is a next alarm, whatever deletes, flushes,
\* closes and alarms cross on the way.
LEMMA OpenStep == ASSUME AlarmInv, [Next]_vars PROVE AlarmInv'
<1>1. Inv /\ Inv' /\ disk \in Disk
  BY StepSound DEF AlarmInv, StepGoal, Inv, Fine
<1>2. open' => room' = "live"
  BY DEF AlarmInv, Next, vars, Connect, SyncFrame, ReadBoard, ClearBoard, SceneWrite, DeleteRoom,
         LastSocketCloses, AlarmFires, TouchReturns, ForcedReturns, TimePasses, Hibernate, Crash
<1>3. ASSUME open' PROVE Alarmed'
  <2>1. CASE UNCHANGED vars
    BY <1>3, <2>1 DEF AlarmInv, OpenRoomKeepsAlarm, Alarmed, vars
  <2>2. CASE Connect
    <3>1. disk'.alarm # "none"
      BY <1>1, <2>2 DEF Connect, ArmedLate, Disk
    <3> QED BY <3>1 DEF Alarmed
  <2>3. CASE SyncFrame
    <3>1. Alarmed
      BY <2>3 DEF SyncFrame, AlarmInv, OpenRoomKeepsAlarm, Alarmed
    <3> QED BY <1>1, <2>3, <3>1, SyncFrameRests, AlarmedStays
  <2>4. CASE ReadBoard \/ ClearBoard \/ TimePasses \/ Hibernate
    <3>1. UNCHANGED <<open, disk, flight>>
      BY <2>4 DEF ReadBoard, ClearBoard, TimePasses, Hibernate
    <3> QED BY <1>3, <3>1 DEF AlarmInv, OpenRoomKeepsAlarm, Alarmed
  <2>5. CASE SceneWrite
    <3>1. disk'.alarm = disk.alarm /\ UNCHANGED <<open, flight>>
      BY <1>1, <2>5 DEF SceneWrite, DropDisk, Disk
    <3> QED BY <1>3, <3>1 DEF AlarmInv, OpenRoomKeepsAlarm, Alarmed
  <2>6. CASE DeleteRoom \/ LastSocketCloses \/ Crash
    BY <1>3, <2>6 DEF DeleteRoom, LastSocketCloses, Crash
  <2>7. CASE AlarmFires
    <3>1. room = "live"
      BY <1>3, <2>7 DEF AlarmInv, AlarmFires
    <3> QED BY <1>1, <2>7, <3>1, AlarmFiresRests
  <2>8. ASSUME NEW f \in Slots, TouchReturns(f) \/ ForcedReturns(f) PROVE Alarmed'
    <3>1. room = "live" /\ Alarmed
      BY <1>3, <2>8 DEF TouchReturns, ForcedReturns, AlarmInv, OpenRoomKeepsAlarm, Alarmed
    <3>2. /\ disk.alarm # "none" => disk'.alarm # "none"
          /\ flight[f].kind = "alarm" => Alarmed'
          /\ \A g \in Slots \ {f} : flight'[g] = flight[g]
      BY <1>1, <2>8, <3>1, ReturnsRest
    <3> QED BY <3>1, <3>2 DEF Alarmed
  <2> QED BY <2>1, <2>2, <2>3, <2>4, <2>5, <2>6, <2>7, <2>8 DEF Next
<1> QED BY <1>1, <1>2, <1>3 DEF AlarmInv, OpenRoomKeepsAlarm, Alarmed

\* A room with an open socket always has a next alarm: the beat that writes
\* boards and checks revocations never stops under somebody.
THEOREM OpenRoomsTick == Spec => []OpenRoomKeepsAlarm
<1>1. Init => AlarmInv
  BY InitSound DEF Init, AlarmInv, OpenRoomKeepsAlarm
<1>2. AlarmInv /\ [Next]_vars => AlarmInv'
  BY OpenStep
<1>3. AlarmInv => OpenRoomKeepsAlarm
  BY DEF AlarmInv
<1> QED BY <1>1, <1>2, <1>3, PTL DEF Spec

\* The deadline over one step.
LEMMA DeadlineStep ==
    ASSUME Inv, [Next]_vars, mem'.dirty,
           \/ mem.dirty /\ Scheduled
           \/ \E e \in Elements : Load(mem, disk).doc[e] = "never" /\ mem'.doc[e] = "live"
    PROVE  Scheduled'
<1>1. Inv' /\ disk \in Disk /\ Fine(room, mem, disk) /\ mem \in Mem
  BY StepSound DEF StepGoal, Inv, Fine
<1>2. mem'.doc # None
  BY <1>1 DEF Inv, Fine
<1>3. ASSUME mem' = mem PROVE mem.dirty /\ Scheduled
  <2>1. mem.doc # None
    BY <1>2, <1>3
  <2> QED BY <1>3, <2>1 DEF Load
<1>4. CASE UNCHANGED vars
  BY <1>3, <1>4 DEF vars, Scheduled, Idle
<1>5. CASE Connect
  <2>1. mem' = mem /\ UNCHANGED flight /\ (disk.alarm = "soon" => disk'.alarm = "soon")
    BY <1>1, <1>5 DEF Connect, ArmedLate, Disk
  <2> QED BY <1>3, <2>1 DEF Scheduled, Idle
<1>6. CASE SyncFrame
  BY <1>6, SyncFrameRests
<1>7. CASE ReadBoard
  <2>1. mem' = Load(mem, disk) /\ mem.doc = None /\ UNCHANGED <<disk, flight>>
    BY <1>7 DEF ReadBoard
  <2>2. ~mem.dirty
    BY <1>1, <2>1 DEF Fine
  <2> QED BY <2>1, <2>2
<1>8. CASE ClearBoard
  <2>1. Load(mem, disk) \in Mem /\ Load(mem, disk).doc \in Board
    BY <1>1, LoadSound DEF Fine
  <2>2. PICK cut : mem'.doc = Cleared(Load(mem, disk).doc, cut) /\ UNCHANGED <<disk, flight>>
    BY <1>8, <2>1 DEF ClearBoard, Mem
  <2>3. ~\E e \in Elements : Load(mem, disk).doc[e] = "never" /\ mem'.doc[e] = "live"
    BY <2>2 DEF Cleared
  <2> QED BY <2>2, <2>3 DEF Scheduled, Idle
<1>9. CASE SceneWrite
  <2>1. CASE mem' = DropMem(mem)
    BY <2>1 DEF DropMem, Asleep
  <2>2. CASE mem' = mem
    <3>1. UNCHANGED flight /\ disk'.alarm = disk.alarm
      BY <1>1, <1>9 DEF SceneWrite, DropDisk, Disk
    <3> QED BY <1>3, <2>2, <3>1 DEF Scheduled, Idle
  <2> QED BY <1>9, <2>1, <2>2 DEF SceneWrite
<1>10. CASE DeleteRoom
  BY <1>10 DEF DeleteRoom, DropMem, Asleep
<1>11. CASE LastSocketCloses
  BY <1>1, <1>11, StartsRests DEF LastSocketCloses
<1>12. CASE AlarmFires
  BY <1>12, AlarmFiresRests
<1>13. ASSUME NEW f \in Slots, TouchReturns(f) \/ ForcedReturns(f) PROVE Scheduled'
  BY <1>13, ReturnsRest
<1>14. CASE TimePasses
  <2>1. mem'.dirty = mem.dirty /\ mem'.doc = mem.doc /\ UNCHANGED <<disk, flight>>
    BY <1>1, <1>14 DEF TimePasses, Mem
  <2>2. Load(mem, disk).doc = mem.doc
    BY <1>2, <2>1 DEF Load
  <2> QED BY <2>1, <2>2 DEF Scheduled, Idle
<1>15. CASE Hibernate \/ Crash
  BY <1>15 DEF Hibernate, Crash, Asleep
<1> QED BY <1>4, <1>5, <1>6, <1>7, <1>8, <1>9, <1>10, <1>11, <1>12, <1>13, <1>14, <1>15 DEF Next

\* A stroke's deadline is never lost while the board is dirty, over any number
\* of overlapping flushes, failed writes and alarms.
THEOREM DeadlineHolds == Spec => StrokesKeepDeadline
<1>1. Init => Inv
  BY InitSound
<1>2. Inv /\ [Next]_vars => Inv'
  BY StepSound DEF StepGoal
<1> DEFINE Stay == mem'.dirty /\ \/ mem.dirty /\ Scheduled
                                 \/ \E e \in Elements : /\ Load(mem, disk).doc[e] = "never"
                                                       /\ mem'.doc[e] = "live"
                   => Scheduled'
<1>3. Inv /\ [Next]_vars => [Stay]_vars
  BY DeadlineStep
<1>4. StrokesKeepDeadline <=> [][Stay]_vars
  BY DEF StrokesKeepDeadline
<1> HIDE DEF Stay
<1> QED BY <1>1, <1>2, <1>3, <1>4, PTL DEF Spec

-----------------------------------------------------------------------------
(* BoardSync: the invariant. *)

Kinds == {"new", "set", "delete"}
Val == [version : Int, by : Writers, erased : BOOLEAN]
Scenes == UNION {[D -> Val] : D \in SUBSET ElementIds}
Places == Writers \X Nat
Puts == [by : Writers, n : Nat, past : [Writers -> Nat], kind : Kinds, id : ElementIds,
         entry : Places, val : Val]

\* A write knows its place in its writer's log, and its entry was created by then.
Placed(l, a, i) ==
    /\ l[a][i].by = a /\ l[a][i].n = i
    /\ l[a][i].kind = "new" => l[a][i].entry = <<a, i>>
    /\ l[a][i].past[a] < i
    /\ l[a][i].entry[2] <= Len(l[l[a][i].entry[1]])

\* Whoever holds a write holds what its writer held.
Closed(l, v) ==
    \A b \in Writers : /\ v[b] <= Len(l[b])
                       /\ \A k \in 1 .. v[b] : \A d \in Writers : l[b][k].past[d] <= v[d]

LogOK(l) ==
    /\ l \in [Writers -> Seq(Puts)]
    /\ \A a \in Writers : \A i \in 1 .. Len(l[a]) : Placed(l, a, i) /\ Closed(l, l[a][i].past)

DocOK(l, v) == v \in [Writers -> Nat] /\ Closed(l, v)

DocsOK(l, h) ==
    /\ LogOK(l) /\ h \in [Writers -> [Writers -> Nat]]
    /\ \A a \in Writers : DocOK(l, h[a]) /\ h[a][a] = Len(l[a])

\* The ids that were ever written.
Known(l) == {e \in ElementIds : \E a \in Writers : \E i \in 1 .. Len(l[a]) : l[a][i].id = e}

\* What an editor took for published was shown to it by the room, or sent.
EditorOK(l, s, b, p, m) ==
    /\ s \in Scenes /\ b \in [DOMAIN b -> Int] /\ DOMAIN b \subseteq DOMAIN s
    /\ \A e \in DOMAIN b : b[e] <= s[e].version
    /\ p \subseteq ElementIds /\ m \subseteq Known(l) /\ DOMAIN b \subseteq m \union p

\* What an editor shows and the room once showed it, its Y.Doc has an entry for.
StillThere(W, s, m) == \A e \in DOMAIN s : ~s[e].erased /\ e \in m => Entries(W, e) # {}

AtMostOne(S) == \A x \in S : \A y \in S : x = y

\* What an editor has published, its Y.Doc says; what it does not show, its Y.Doc
\* does not show either. Elements with a twin are excepted.
SaysPublished(W, s, b) ==
    \A e \in ElementIds :
        /\ AtMostOne(Entries(W, e)) /\ e \in DOMAIN s /\ ~s[e].erased
        /\ e \in DOMAIN b /\ b[e] = s[e].version
        => e \in DOMAIN Remote(W) /\ Remote(W)[e] = s[e]
ShowsAll(W, s) ==
    \A e \in ElementIds :
        AtMostOne(Entries(W, e)) /\ e \in DOMAIN Remote(W) /\ ~Remote(W)[e].erased
        => e \in DOMAIN s /\ ~s[e].erased

Agrees(W, s, b, m) == StillThere(W, s, m) /\ SaysPublished(W, s, b) /\ ShowsAll(W, s)

TabOK(l, v, s, b, p, m) == EditorOK(l, s, b, p, m) /\ Agrees(Writes(l, v), s, b, m)

SyncInv ==
    /\ rank \in [Writers -> Int] /\ DocsOK(log, held)
    /\ row \in Scenes /\ pending \in [Tabs -> Scenes]
    /\ scene = [c \in Tabs |-> scene[c]] /\ base = [c \in Tabs |-> base[c]]
    /\ sent = [c \in Tabs |-> sent[c]] /\ met = [c \in Tabs |-> met[c]]
    /\ \A c \in Tabs : TabOK(log, held[c], scene[c], base[c], sent[c], met[c])

-----------------------------------------------------------------------------
(* Sets, orders and sequences. *)

\* What is picked from a finite set is finite.
LEMMA ImageFinite ==
  ASSUME NEW D, IsFiniteSet(D), NEW f, f = [x \in D |-> f[x]]
  PROVE  IsFiniteSet({f[x] : x \in D})
<1>1. f \in Surjection(D, {f[x] : x \in D})
  BY DEF Surjection
<1> QED BY <1>1, FS_Surjection

\* A strict order on a finite set has a last element.
LEMMA TopExists ==
  ASSUME NEW T, IsFiniteSet(T), T # {}, NEW R,
         \A x \in T : <<x, x>> \notin R,
         \A x \in T : \A y \in T : \A z \in T : <<x, y>> \in R /\ <<y, z>> \in R => <<x, z>> \in R
  PROVE  \E x \in T : \A y \in T : <<x, y>> \notin R
<1> DEFINE Above(x) == {y \in T : <<x, y>> \in R}
           Ups == {Above(x) : x \in T}
           Sub == StrictSubsetOrdering(T)
<1>1. IsWellFoundedOn(Sub, SUBSET T)
  <2>1. FiniteSubsetsOf(T) = SUBSET T
    BY FS_FiniteSubsetsOfFinite, Zenon
  <2> QED BY <2>1, FS_StrictSubsetOrderingWellFounded, Zenon
<1>2. Ups \subseteq SUBSET T /\ Ups # {}
  <2>1. \A x \in T : Above(x) \subseteq T
    OBVIOUS
  <2>2. PICK x \in T : TRUE
    OBVIOUS
  <2>3. Above(x) \in Ups
    OBVIOUS
  <2>4. Ups \subseteq SUBSET T
    <3> HIDE DEF Above
    <3>1. \A u \in Ups : u \subseteq T
      BY <2>1
    <3> QED BY <3>1
  <2> QED BY <2>3, <2>4
<1>3. PICK s \in Ups : \A u \in Ups : ~(<<u, s>> \in Sub)
  <2> HIDE DEF Sub, Ups
  <2> QED BY <1>1, <1>2, WFMin
<1>4. PICK x \in T : s = Above(x)
  BY <1>3
<1>5. ASSUME NEW y \in T, <<x, y>> \in R PROVE FALSE
  <2>1. Above(y) \in Ups /\ Above(y) \subseteq s /\ y \in s /\ y \notin Above(y)
    BY <1>4, <1>5
  <2>2. s \in SUBSET T
    BY <1>2, <1>3
  <2> QED BY <2>1, <2>2, <1>3 DEF StrictSubsetOrdering
<1> QED BY <1>5

\* The changes of a transaction, in some order.
LEMMA SetInSequence ==
  ASSUME NEW S, IsFiniteSet(S), NEW q, q = SetToSeq(S)
  PROVE  /\ q \in Seq(S)
         /\ \A x \in S : \E i \in 1 .. Len(q) : q[i] = x
         /\ \A i \in 1 .. Len(q) : \A j \in 1 .. Len(q) : q[i] = q[j] => i = j
<1> DEFINE n == Cardinality(S)
<1>1. n \in Nat /\ ExistsBijection(1 .. n, S)
  BY FS_CardinalityType
<1>2. \E f \in [1 .. n -> S] : IsInjective(f)
  BY <1>1 DEF ExistsBijection, Bijection, Injection
<1>3. q \in [1 .. n -> S] /\ IsInjective(q)
  <2> HIDE DEF n
  <2>1. q = CHOOSE f \in [1 .. n -> S] : IsInjective(f)
    BY DEF SetToSeq, n
  <2> QED BY <2>1, <1>2
<1>4. Len(q) = n /\ q \in Seq(S)
  <2> HIDE DEF n
  <2> QED BY <1>1, <1>3
<1>5. Cardinality(1 .. n) = n
  <2> HIDE DEF n
  <2>1. Cardinality(1 .. n) = IF 1 > n THEN 0 ELSE n - 1 + 1
    BY <1>1, FS_Interval
  <2> QED BY <2>1, <1>1
<1>6. q \in Injection(1 .. n, S)
  BY <1>3 DEF Injection
<1>7. q \in Surjection(1 .. n, S)
  BY <1>5, <1>6, FS_Injection
<1>8. \A x \in S : \E i \in 1 .. n : q[i] = x
  BY <1>7 DEF Surjection
<1>9. \A i \in 1 .. n : \A j \in 1 .. n : q[i] = q[j] => i = j
  BY <1>3 DEF IsInjective
<1> HIDE DEF n
<1> QED BY <1>4, <1>8, <1>9

-----------------------------------------------------------------------------
(* What a document holds. *)

LEMMA WritersFinite == IsFiniteSet(Writers) /\ Tabs \subseteq Writers /\ Server \in Writers /\ Server \notin Tabs
<1>1. IsFiniteSet(Tabs \union {Server})
  BY TabsAssumption, FS_AddElement
<1> QED BY <1>1, TabsAssumption DEF Writers, Server

LEMMA WritesMembers ==
  ASSUME NEW l, NEW v, NEW w
  PROVE  w \in Writes(l, v) <=> \E a \in Writers : \E i \in 1 .. v[a] : w = l[a][i]
<1>1. ASSUME w \in Writes(l, v) PROVE \E a \in Writers : \E i \in 1 .. v[a] : w = l[a][i]
  <2>1. PICK a \in Writers : w \in {l[a][i] : i \in 1 .. v[a]}
    BY <1>1 DEF Writes
  <2> QED BY <2>1
<1>2. ASSUME NEW a \in Writers, NEW i \in 1 .. v[a], w = l[a][i] PROVE w \in Writes(l, v)
  <2>1. w \in {l[a][k] : k \in 1 .. v[a]}
    BY <1>2
  <2> QED BY <2>1 DEF Writes
<1> QED BY <1>1, <1>2

LEMMA WritesFinite ==
  ASSUME NEW l, NEW v \in [Writers -> Nat]
  PROVE  IsFiniteSet(Writes(l, v))
<1> DEFINE part == [a \in Writers |-> {l[a][i] : i \in 1 .. v[a]}]
<1>1. IsFiniteSet({part[a] : a \in Writers})
  <2>1. part = [a \in Writers |-> part[a]]
    OBVIOUS
  <2> HIDE DEF part
  <2> QED BY <2>1, WritersFinite, ImageFinite
<1>2. ASSUME NEW a \in Writers PROVE IsFiniteSet(part[a])
  <2> DEFINE f == [i \in 1 .. v[a] |-> l[a][i]]
  <2>1. IsFiniteSet(1 .. v[a])
    BY FS_Interval
  <2>2. IsFiniteSet({f[i] : i \in 1 .. v[a]})
    <3>1. f = [i \in 1 .. v[a] |-> f[i]]
      OBVIOUS
    <3> HIDE DEF f
    <3> QED BY <3>1, <2>1, ImageFinite
  <2>3. {f[i] : i \in 1 .. v[a]} = part[a]
    OBVIOUS
  <2> QED BY <2>2, <2>3
<1>3. Writes(l, v) = UNION {part[a] : a \in Writers}
  BY DEF Writes
<1>4. \A T \in {part[a] : a \in Writers} : IsFiniteSet(T)
  BY <1>2
<1> HIDE DEF part
<1> QED BY <1>1, <1>3, <1>4, FS_UNION

LEMMA EntryMembers ==
  ASSUME NEW W, NEW e, NEW x
  PROVE  x \in Entries(W, e) <=>
           /\ \E w \in W : w.kind = "new" /\ w.id = e /\ w.entry = x
           /\ \A w \in W : w.kind = "delete" => w.entry # x
BY DEF Entries

LEMMA EntriesFinite ==
  ASSUME NEW W, IsFiniteSet(W), NEW e
  PROVE  IsFiniteSet(Entries(W, e))
<1> DEFINE f == [w \in W |-> w.entry]
<1>1. IsFiniteSet({f[w] : w \in W})
  <2>1. f = [w \in W |-> f[w]]
    OBVIOUS
  <2> HIDE DEF f
  <2> QED BY <2>1, ImageFinite
<1>2. Entries(W, e) \subseteq {f[w] : w \in W}
  BY DEF Entries
<1> HIDE DEF f
<1> QED BY <1>1, <1>2, FS_Subset

\* A write that a document holds is where it says it is.
LEMMA WriteShape ==
  ASSUME NEW l, LogOK(l), NEW v, DocOK(l, v), NEW w \in Writes(l, v)
  PROVE  /\ w \in Puts /\ w.n \in 1 .. v[w.by] /\ w.n \in 1 .. Len(l[w.by]) /\ w = l[w.by][w.n]
         /\ w.kind = "new" => w.entry = <<w.by, w.n>>
         /\ w.past[w.by] < w.n /\ Closed(l, w.past)
         /\ w.entry[1] \in Writers /\ w.entry[2] \in Nat /\ w.entry[2] <= Len(l[w.entry[1]])
         /\ \A d \in Writers : w.past[d] <= v[d]
<1>1. PICK a \in Writers : \E i \in 1 .. v[a] : w = l[a][i]
  BY WritesMembers
<1>2. PICK i \in 1 .. v[a] : w = l[a][i]
  BY <1>1
<1>3. v \in [Writers -> Nat] /\ v[a] <= Len(l[a]) /\ l[a] \in Seq(Puts)
  BY DEF DocOK, Closed, LogOK
<1>4. i \in 1 .. Len(l[a])
  BY <1>3
<1>5. w \in Puts
  BY <1>2, <1>3, <1>4
<1>6. Placed(l, a, i) /\ Closed(l, l[a][i].past)
  BY <1>4 DEF LogOK
<1>7. w.by = a /\ w.n = i
  BY <1>2, <1>6 DEF Placed
<1>8. \A d \in Writers : w.past[d] <= v[d]
  BY <1>2 DEF DocOK, Closed
<1>9. w.entry[1] \in Writers /\ w.entry[2] \in Nat
  BY <1>5 DEF Puts, Places
<1> QED BY <1>2, <1>4, <1>5, <1>6, <1>7, <1>8, <1>9 DEF Placed

\* An entry is the write that created it, and has one id.
LEMMA EntryShape ==
  ASSUME NEW l, LogOK(l), NEW v, DocOK(l, v), NEW e, NEW x \in Entries(Writes(l, v), e)
  PROVE  /\ x \in Places /\ x[1] \in Writers /\ x[2] \in 1 .. v[x[1]]
         /\ l[x[1]][x[2]].id = e /\ l[x[1]][x[2]].kind = "new" /\ l[x[1]][x[2]].entry = x
         /\ e \in ElementIds
         /\ l[x[1]][x[2]] \in Writes(l, v)
<1>1. PICK w \in Writes(l, v) : w.kind = "new" /\ w.id = e /\ w.entry = x
  BY EntryMembers
<1>2. /\ w \in Puts /\ w.n \in 1 .. v[w.by] /\ w = l[w.by][w.n] /\ w.entry = <<w.by, w.n>>
  BY <1>1, WriteShape
<1>3. w.by \in Writers /\ w.id \in ElementIds /\ w.n \in Nat
  BY <1>2 DEF Puts
<1>4. x = <<w.by, w.n>>
  BY <1>1, <1>2
<1> QED BY <1>1, <1>2, <1>3, <1>4 DEF Places

LEMMA EntryOnce ==
  ASSUME NEW l, LogOK(l), NEW v, DocOK(l, v), NEW e, NEW f,
         NEW x \in Entries(Writes(l, v), e), x \in Entries(Writes(l, v), f)
  PROVE  e = f
<1>1. l[x[1]][x[2]].id = e
  BY EntryShape
<1>2. l[x[1]][x[2]].id = f
  BY EntryShape
<1> QED BY <1>1, <1>2

-----------------------------------------------------------------------------
(* Ranks and values. *)

\* Among finitely many some writer's rank is the highest, and some the lowest.
LEMMA RankTop ==
  ASSUME rank \in [Writers -> Int], NEW T, IsFiniteSet(T), T # {}, NEW of, of \in [T -> Writers]
  PROVE  /\ \E x \in T : \A y \in T : rank[of[y]] <= rank[of[x]]
         /\ \E x \in T : \A y \in T : rank[of[x]] <= rank[of[y]]
<1>0. \A x \in T : rank[of[x]] \in Int
  OBVIOUS
<1>1. \E x \in T : \A y \in T : rank[of[y]] <= rank[of[x]]
  <2> DEFINE R == {p \in T \X T : rank[of[p[1]]] < rank[of[p[2]]]}
  <2>1. \A x \in T : \A y \in T : <<x, y>> \in R <=> rank[of[x]] < rank[of[y]]
    OBVIOUS
  <2> HIDE DEF R
  <2>2. /\ \A x \in T : <<x, x>> \notin R
        /\ \A x \in T : \A y \in T : \A z \in T : <<x, y>> \in R /\ <<y, z>> \in R => <<x, z>> \in R
    BY <1>0, <2>1
  <2>3. PICK x \in T : \A y \in T : <<x, y>> \notin R
    BY <2>2, TopExists
  <2>4. \A y \in T : ~(rank[of[x]] < rank[of[y]])
    BY <2>1, <2>3
  <2>5. \A y \in T : rank[of[y]] <= rank[of[x]]
    BY <2>4, <1>0
  <2> QED BY <2>5
<1>2. \E x \in T : \A y \in T : rank[of[x]] <= rank[of[y]]
  <2> DEFINE R == {p \in T \X T : rank[of[p[2]]] < rank[of[p[1]]]}
  <2>1. \A x \in T : \A y \in T : <<x, y>> \in R <=> rank[of[y]] < rank[of[x]]
    OBVIOUS
  <2> HIDE DEF R
  <2>2. /\ \A x \in T : <<x, x>> \notin R
        /\ \A x \in T : \A y \in T : \A z \in T : <<x, y>> \in R /\ <<y, z>> \in R => <<x, z>> \in R
    BY <1>0, <2>1
  <2>3. PICK x \in T : \A y \in T : <<x, y>> \notin R
    BY <2>2, TopExists
  <2>4. \A y \in T : ~(rank[of[y]] < rank[of[x]])
    BY <2>1, <2>3
  <2>5. \A y \in T : rank[of[x]] <= rank[of[y]]
    BY <2>4, <1>0
  <2> QED BY <2>5
<1> QED BY <1>1, <1>2

LEMMA FirstAndLast ==
  ASSUME rank \in [Writers -> Int], NEW T, IsFiniteSet(T), T # {}, T \subseteq Places
  PROVE  FirstOf(T) \in T /\ LastOf(T) \in T
<1> DEFINE of == [x \in T |-> x[1]]
<1>1. of \in [T -> Writers]
  BY DEF Places
<1>2. \A x \in T : of[x] = x[1]
  OBVIOUS
<1> HIDE DEF of
<1>3. /\ \E x \in T : \A y \in T : rank[of[y]] <= rank[of[x]]
      /\ \E x \in T : \A y \in T : rank[of[x]] <= rank[of[y]]
  BY <1>1, RankTop
<1>4. /\ \E x \in T : \A y \in T : rank[y[1]] <= rank[x[1]]
      /\ \E x \in T : \A y \in T : rank[x[1]] <= rank[y[1]]
  BY <1>2, <1>3
<1> QED BY <1>4 DEF FirstOf, LastOf

\* Of an entry's writes one is the last, and its value is the entry's.
LEMMA ValueIsPut ==
  ASSUME rank \in [Writers -> Int], NEW l, LogOK(l), NEW v, DocOK(l, v),
         NEW x, NEW w0 \in Writes(l, v), w0.entry = x, w0.kind # "delete"
  PROVE  \E w \in Writes(l, v) : w.entry = x /\ w.kind # "delete" /\ Value(Writes(l, v), x) = w.val
<1> DEFINE W == Writes(l, v)
           puts == {w \in W : w.entry = x /\ w.kind # "delete"}
           R == {p \in puts \X puts : p[1] # p[2] /\ ~(p[2].past[p[1].by] < p[1].n)}
           last == {w \in puts : \A y \in puts : y # w => y.past[w.by] < w.n}
<1>1. puts # {} /\ IsFiniteSet(puts)
  <2>1. IsFiniteSet(W) /\ puts \subseteq W
    BY WritesFinite DEF DocOK
  <2>2. w0 \in puts
    OBVIOUS
  <2> HIDE DEF W, puts
  <2> QED BY <2>1, <2>2, FS_Subset
<1>2. \A w \in puts : \A y \in puts : <<w, y>> \in R <=> w # y /\ ~(y.past[w.by] < w.n)
  OBVIOUS
<1>3. \A w \in puts : /\ w \in Puts /\ w.by \in Writers /\ w.n \in Nat /\ w.past \in [Writers -> Nat]
                      /\ w.n \in 1 .. Len(l[w.by]) /\ w = l[w.by][w.n]
                      /\ w.past[w.by] < w.n /\ Closed(l, w.past)
  BY WriteShape DEF Puts
<1>4. ASSUME NEW w \in puts, NEW y \in puts, ~(y.past[w.by] < w.n)
      PROVE  \A d \in Writers : w.past[d] <= y.past[d]
  <2>1. w.n \in 1 .. y.past[w.by]
    BY <1>3, <1>4
  <2> QED BY <2>1, <1>3 DEF Closed
<1> HIDE DEF puts, R
<1>5. \A w \in puts : <<w, w>> \notin R
  BY <1>2
<1>6. ASSUME NEW w \in puts, NEW y \in puts, NEW z \in puts, <<w, y>> \in R, <<y, z>> \in R
      PROVE  <<w, z>> \in R
  <2>1. ~(y.past[w.by] < w.n) /\ ~(z.past[y.by] < y.n) /\ w # y /\ y # z
    BY <1>2, <1>6
  <2>2. y.past[w.by] <= z.past[w.by]
    BY <1>3, <1>4, <2>1
  <2>3. ~(z.past[w.by] < w.n)
    BY <2>1, <2>2, <1>3
  <2>4. w # z
    BY <2>3, <1>3
  <2> QED BY <1>2, <2>3, <2>4
<1>7. PICK w \in puts : \A y \in puts : <<w, y>> \notin R
  BY <1>1, <1>5, <1>6, TopExists
<1>8. w \in last
  BY <1>2, <1>7
<1>9. last # {} /\ IsFiniteSet(last) /\ last \subseteq puts
  <2>1. last \subseteq puts
    OBVIOUS
  <2> QED BY <2>1, <1>1, <1>8, FS_Subset
<1> HIDE DEF last
<1>10. \E t \in last : \A y \in last : rank[y.by] <= rank[t.by]
  <2> DEFINE of == [y \in last |-> y.by]
  <2>1. of \in [last -> Writers] /\ \A y \in last : of[y] = y.by
    BY <1>3, <1>9
  <2> HIDE DEF of
  <2>2. \E t \in last : \A y \in last : rank[of[y]] <= rank[of[t]]
    BY <2>1, <1>9, RankTop
  <2> QED BY <2>1, <2>2
<1>11. PICK t \in last : Value(W, x) = t.val
  <2>1. Value(W, x) = (CHOOSE t \in last : \A y \in last : rank[y.by] <= rank[t.by]).val
    BY DEF Value, last, puts
  <2> QED BY <2>1, <1>10
<1>12. t \in puts
  BY <1>9
<1> QED BY <1>11, <1>12 DEF puts

\* A write made over all the others of its entry, that none of them knew, is its value.
LEMMA ValueIsTop ==
  ASSUME rank \in [Writers -> Int], NEW W, NEW x, NEW w \in W, w.entry = x, w.kind # "delete",
         w.by \in Writers,
         \A y \in W : y.entry = x /\ y.kind # "delete" /\ y # w =>
             y.past[w.by] < w.n /\ ~(w.past[y.by] < y.n)
  PROVE  Value(W, x) = w.val
<1> DEFINE puts == {y \in W : y.entry = x /\ y.kind # "delete"}
           last == {y \in puts : \A z \in puts : z # y => z.past[y.by] < y.n}
<1>1. w \in last
  OBVIOUS
<1>2. \A y \in last : y = w
  OBVIOUS
<1>3. last = {w}
  BY <1>1, <1>2
<1> HIDE DEF last
<1>4. (CHOOSE t \in last : \A y \in last : rank[y.by] <= rank[t.by]) = w
  <2>1. rank[w.by] <= rank[w.by]
    OBVIOUS
  <2> QED BY <1>3, <2>1
<1>5. Value(W, x) = (CHOOSE t \in last : \A y \in last : rank[y.by] <= rank[t.by]).val
  BY DEF Value, last
<1> QED BY <1>4, <1>5

\* An entry with the same writes has the same value.
LEMMA SameValue ==
  ASSUME NEW W, NEW V, NEW x,
         \A w : w.entry = x /\ w.kind # "delete" => (w \in W <=> w \in V)
  PROVE  Value(W, x) = Value(V, x)
<1>1. {w \in W : w.entry = x /\ w.kind # "delete"} = {w \in V : w.entry = x /\ w.kind # "delete"}
  OBVIOUS
<1> QED BY <1>1 DEF Value

\* What a document reads is a scene.
LEMMA RemoteIsScene ==
  ASSUME rank \in [Writers -> Int], NEW l, LogOK(l), NEW v, DocOK(l, v), NEW W, W = Writes(l, v)
  PROVE  /\ Remote(W) \in Scenes
         /\ DOMAIN Remote(W) = {e \in ElementIds : Entries(W, e) # {}}
         /\ \A e \in ElementIds : \A x \in Entries(W, e) : Value(W, x) \in Val
<1>1. ASSUME NEW e \in ElementIds, NEW x \in Entries(W, e) PROVE Value(W, x) \in Val
  <2>1. PICK w0 \in W : w0.kind = "new" /\ w0.entry = x
    BY EntryMembers
  <2>2. PICK w \in W : Value(W, x) = w.val
    BY <2>1, ValueIsPut
  <2>3. w \in Puts
    BY <2>2, WriteShape
  <2> QED BY <2>2, <2>3 DEF Puts
<1>2. ASSUME NEW e \in ElementIds, Entries(W, e) # {} PROVE Value(W, FirstOf(Entries(W, e))) \in Val
  <2>1. IsFiniteSet(Entries(W, e))
    BY WritesFinite, EntriesFinite DEF DocOK
  <2>2. Entries(W, e) \subseteq Places
    BY EntryShape
  <2>3. FirstOf(Entries(W, e)) \in Entries(W, e)
    BY <1>2, <2>1, <2>2, FirstAndLast
  <2> QED BY <2>3, <1>1
<1> DEFINE D == {e \in ElementIds : Entries(W, e) # {}}
<1>3. Remote(W) \in [D -> Val]
  BY <1>2 DEF Remote
<1>4. D \in SUBSET ElementIds
  OBVIOUS
<1> HIDE DEF D
<1>5. Remote(W) \in Scenes
  BY <1>3, <1>4 DEF Scenes
<1>6. DOMAIN Remote(W) = D
  BY <1>3
<1> QED BY <1>1, <1>5, <1>6 DEF D

-----------------------------------------------------------------------------
(* A transaction. *)

Changes == [kind : Kinds, id : ElementIds, entry : Places \union {<<>>}, val : Val]

\* A change of an entry names one that was created.
Fits(l) ==
    {w \in Changes : w.kind # "new" => w.entry \in Places /\ w.entry[2] <= Len(l[w.entry[1]])}

\* The logs l2 go on where the logs l end.
Grows(l, l2) ==
    \A a \in Writers : /\ Len(l[a]) <= Len(l2[a])
                       /\ \A i \in 1 .. Len(l[a]) : l2[a][i] = l[a][i]

\* An entry that was created stays so.
LEMMA StillCreated ==
  ASSUME NEW l \in [Writers -> Seq(Puts)], NEW l2 \in [Writers -> Seq(Puts)], Grows(l, l2),
         NEW x \in Places, x[2] <= Len(l[x[1]])
  PROVE  x[2] <= Len(l2[x[1]])
<1>1. x[1] \in Writers /\ x[2] \in Nat
  BY DEF Places
<1>2. Len(l[x[1]]) <= Len(l2[x[1]]) /\ Len(l[x[1]]) \in Nat /\ Len(l2[x[1]]) \in Nat
  BY <1>1 DEF Grows
<1> QED BY <1>1, <1>2

\* A document is as it was when others write.
LEMMA GrowthKeeps ==
  ASSUME NEW l, LogOK(l), NEW l2, Grows(l, l2), LogOK(l2), NEW v, DocOK(l, v)
  PROVE  DocOK(l2, v) /\ Writes(l2, v) = Writes(l, v)
<1>1. \A a \in Writers : l[a] \in Seq(Puts) /\ l2[a] \in Seq(Puts) /\ v[a] \in Nat /\ v[a] <= Len(l[a])
  BY DEF LogOK, DocOK, Closed
<1>2. \A a \in Writers : \A i \in 1 .. v[a] : l2[a][i] = l[a][i] /\ i \in 1 .. Len(l[a])
  BY <1>1 DEF Grows
<1>3. \A a \in Writers : v[a] <= Len(l2[a])
  BY <1>1 DEF Grows
<1>4. Closed(l2, v)
  BY <1>2, <1>3 DEF DocOK, Closed
<1>5. Writes(l2, v) = Writes(l, v)
  <2>1. \A w : w \in Writes(l2, v) <=> w \in Writes(l, v)
    BY <1>2, WritesMembers
  <2> QED BY <2>1
<1> QED BY <1>4, <1>5 DEF DocOK

\* The write that the i-th change of a transaction becomes.
PutOf(l, v, a, ws, i) ==
    [by |-> a, n |-> Len(l[a]) + i, past |-> v, kind |-> ws[i].kind, id |-> ws[i].id,
     entry |-> IF ws[i].kind = "new" THEN <<a, Len(l[a]) + i>> ELSE ws[i].entry,
     val |-> ws[i].val]

LEMMA Transaction ==
  ASSUME NEW l, LogOK(l), NEW v, DocOK(l, v), NEW c \in Writers, v[c] = Len(l[c]),
         NEW ws, ws \in Seq(Fits(l)), NEW l2, l2 = Appended(l, v, c, ws), NEW v2, v2 = Held(v, c, ws)
  PROVE  /\ LogOK(l2) /\ Grows(l, l2) /\ DocOK(l2, v2) /\ v2[c] = Len(l2[c])
         /\ \A a \in Writers : a # c => l2[a] = l[a] /\ v2[a] = v[a]
         /\ Len(l2[c]) = Len(l[c]) + Len(ws)
         /\ \A i \in 1 .. Len(ws) : l2[c][Len(l[c]) + i] = PutOf(l, v, c, ws, i)
         /\ \A i \in 1 .. Len(ws) : PutOf(l, v, c, ws, i) \in Puts
<1> DEFINE st == Stamped(l, v, c, ws)
           n == Len(l[c])
<1>1. /\ l \in [Writers -> Seq(Puts)] /\ v \in [Writers -> Nat] /\ Closed(l, v)
      /\ l[c] \in Seq(Puts) /\ n \in Nat
  BY DEF LogOK, DocOK
<1>2. Len(ws) \in Nat /\ \A i \in 1 .. Len(ws) : ws[i] \in Fits(l)
  OBVIOUS
<1>3. st = [i \in 1 .. Len(ws) |-> PutOf(l, v, c, ws, i)]
  BY DEF Stamped, PutOf
<1>4. ASSUME NEW i \in 1 .. Len(ws) PROVE PutOf(l, v, c, ws, i) \in Puts
  <2>1. /\ ws[i].kind \in Kinds /\ ws[i].id \in ElementIds /\ ws[i].val \in Val
        /\ ws[i].kind # "new" => ws[i].entry \in Places
    BY <1>2 DEF Fits, Changes
  <2>2. <<c, n + i>> \in Places /\ n + i \in Nat
    BY <1>1, <1>2 DEF Places
  <2> QED BY <2>1, <2>2, <1>1 DEF PutOf, Puts
<1>5. st \in Seq(Puts) /\ Len(st) = Len(ws)
  <2>1. st \in [1 .. Len(ws) -> Puts]
    BY <1>3, <1>4
  <2> HIDE DEF st
  <2> QED BY <2>1, <1>2
<1>6. /\ l2 \in [Writers -> Seq(Puts)] /\ l2[c] = l[c] \o st
      /\ \A a \in Writers : a # c => l2[a] = l[a]
  <2>1. l2 = [l EXCEPT ![c] = l[c] \o st]
    BY DEF Appended
  <2> HIDE DEF st
  <2>2. l[c] \o st \in Seq(Puts)
    BY <1>1, <1>5
  <2> QED BY <2>1, <2>2, <1>1
<1>7. /\ Len(l2[c]) = n + Len(ws) /\ \A i \in 1 .. n : l2[c][i] = l[c][i]
      /\ \A i \in 1 .. Len(ws) : l2[c][n + i] = st[i]
  <2> HIDE DEF st
  <2>1. /\ Len(l[c] \o st) = Len(l[c]) + Len(st)
        /\ \A i \in 1 .. Len(l[c]) + Len(st) :
              (l[c] \o st)[i] = IF i <= Len(l[c]) THEN l[c][i] ELSE st[i - Len(l[c])]
    <3>1. l[c] \in Seq(Puts)
      BY <1>1
    <3>2. st \in Seq(Puts)
      BY <1>5
    <3> HIDE DEF n
    <3> QED BY <3>1, <3>2, ConcatProperties, Zenon
  <2>2. \A i \in 1 .. n : i \in 1 .. n + Len(ws) /\ i <= n
    BY <1>1, <1>2
  <2>3. \A i \in 1 .. Len(ws) : n + i \in 1 .. n + Len(ws) /\ ~(n + i <= n) /\ (n + i) - n = i
    BY <1>1, <1>2
  <2> QED BY <2>1, <2>2, <2>3, <1>5, <1>6
<1>8. \A i \in 1 .. Len(ws) : l2[c][n + i] = PutOf(l, v, c, ws, i)
  BY <1>3, <1>7
<1> HIDE DEF st, n
<1>9. Grows(l, l2)
  <2>1. ASSUME NEW a \in Writers
        PROVE  Len(l[a]) <= Len(l2[a]) /\ \A i \in 1 .. Len(l[a]) : l2[a][i] = l[a][i]
    <3>0. Len(l[a]) \in Nat
      BY <1>1
    <3>1. CASE a = c
      BY <3>0, <3>1, <1>1, <1>2, <1>7 DEF n
    <3>2. CASE a # c
      BY <3>0, <3>2, <1>6
    <3> QED BY <3>1, <3>2
  <2> QED BY <2>1 DEF Grows
<1>10. /\ v2 \in [Writers -> Nat] /\ v2[c] = v[c] + Len(ws)
       /\ \A a \in Writers : a # c => v2[a] = v[a]
  BY <1>1, <1>2 DEF Held
<1>11. v2[c] = Len(l2[c])
  BY <1>7, <1>10 DEF n
<1>12. ASSUME NEW u \in [Writers -> Nat], Closed(l, u) PROVE Closed(l2, u)
  <2>1. \A a \in Writers : Len(l[a]) \in Nat /\ Len(l2[a]) \in Nat
    BY <1>1, <1>6
  <2>2. \A a \in Writers : u[a] <= Len(l2[a]) /\ \A k \in 1 .. u[a] : k \in 1 .. Len(l[a])
    BY <1>12, <1>9, <2>1 DEF Closed, Grows
  <2>3. \A a \in Writers : \A k \in 1 .. u[a] : l2[a][k] = l[a][k]
    BY <1>9, <2>2 DEF Grows
  <2> QED BY <2>2, <2>3, <1>12 DEF Closed
<1>13. ASSUME NEW a \in Writers, NEW i \in 1 .. Len(l2[a])
       PROVE  Placed(l2, a, i) /\ Closed(l2, l2[a][i].past)
  <2>0. Len(l[a]) \in Nat
    BY <1>1
  <2>1. CASE i \in 1 .. Len(l[a])
    <3>1. l2[a][i] = l[a][i] /\ Placed(l, a, i) /\ Closed(l, l[a][i].past)
      BY <2>1, <1>9 DEF Grows, LogOK
    <3>2. l[a][i].past \in [Writers -> Nat] /\ l[a][i].entry \in Places
      <4>1. l[a][i] \in Puts
        BY <2>1, <1>1
      <4> QED BY <4>1 DEF Puts
    <3>3. l2[a][i].entry[2] <= Len(l2[l2[a][i].entry[1]])
      <4>1. l[a][i].entry[2] <= Len(l[l[a][i].entry[1]])
        BY <3>1 DEF Placed
      <4>2. l[a][i].entry[2] <= Len(l2[l[a][i].entry[1]])
        BY <4>1, <3>2, <1>1, <1>6, <1>9, StillCreated
      <4> QED BY <3>1, <4>2
    <3> QED BY <3>1, <3>2, <3>3, <1>12 DEF Placed
  <2>2. CASE ~(i \in 1 .. Len(l[a]))
    <3>1. a = c /\ i - n \in 1 .. Len(ws) /\ i = n + (i - n)
      <4>1. a = c
        BY <2>2, <1>6
      <4>2. i \in 1 .. n + Len(ws) /\ ~(i \in 1 .. n)
        BY <4>1, <2>2, <1>7 DEF n
      <4> QED BY <4>1, <4>2, <1>1, <1>2
    <3>2. l2[c][i] = PutOf(l, v, c, ws, i - n)
      BY <3>1, <1>8
    <3>3. /\ l2[c][i].by = c /\ l2[c][i].n = i /\ l2[c][i].past = v
          /\ l2[c][i].kind = "new" => l2[c][i].entry = <<c, i>>
      BY <3>1, <3>2 DEF PutOf, n
    <3>4. v[c] < i
      BY <3>1, <1>1, <2>2 DEF n
    <3>5. l2[c][i].entry[2] <= Len(l2[l2[c][i].entry[1]])
      <4>1. CASE ws[i - n].kind = "new"
        BY <3>1, <3>2, <4>1 DEF PutOf, n
      <4>2. CASE ws[i - n].kind # "new"
        <5>1. ws[i - n].entry \in Places /\ ws[i - n].entry[2] <= Len(l[ws[i - n].entry[1]])
          BY <4>2, <3>1, <1>2 DEF Fits
        <5>2. ws[i - n].entry[2] <= Len(l2[ws[i - n].entry[1]])
          BY <5>1, <1>1, <1>6, <1>9, StillCreated
        <5>3. l2[c][i].entry = ws[i - n].entry
          BY <3>2, <4>2 DEF PutOf
        <5> QED BY <5>2, <5>3
      <4> QED BY <4>1, <4>2
    <3> QED BY <3>1, <3>3, <3>4, <3>5, <1>1, <1>12 DEF Placed
  <2> QED BY <2>1, <2>2
<1>14. LogOK(l2)
  BY <1>6, <1>13 DEF LogOK
<1>15. DocOK(l2, v2)
  <2>1. Closed(l2, v)
    BY <1>1, <1>12
  <2>2. \A d \in Writers : v[d] <= v2[d]
    <3>1. ASSUME NEW d \in Writers PROVE v[d] <= v2[d]
      <4>1. v[d] \in Nat
        BY <1>1
      <4>2. CASE d = c
        BY <4>1, <4>2, <1>2, <1>10
      <4>3. CASE d # c
        BY <4>1, <4>3, <1>10
      <4> QED BY <4>2, <4>3
    <3> QED BY <3>1
  <2>3. ASSUME NEW b \in Writers, NEW k \in 1 .. v2[b], NEW d \in Writers
        PROVE  l2[b][k].past[d] <= v2[d]
    <3>1. CASE k \in 1 .. v[b]
      <4>1. l2[b][k].past[d] <= v[d]
        BY <2>1, <3>1 DEF Closed
      <4>2. k \in 1 .. Len(l2[b])
        <5>1. v[b] <= Len(l2[b]) /\ Len(l2[b]) \in Nat /\ v[b] \in Nat
          BY <2>1, <1>1, <1>6 DEF Closed
        <5> QED BY <5>1, <3>1
      <4>3. l2[b][k].past[d] \in Nat
        <5>1. l2[b][k] \in Puts
          BY <4>2, <1>6
        <5> QED BY <5>1 DEF Puts
      <4>4. v[d] \in Nat /\ v2[d] \in Nat /\ v[d] <= v2[d]
        BY <2>2, <1>1, <1>10
      <4> QED BY <4>1, <4>3, <4>4
    <3>2. CASE ~(k \in 1 .. v[b])
      <4>1. b = c /\ k - n \in 1 .. Len(ws) /\ k = n + (k - n)
        BY <3>2, <1>1, <1>2, <1>10 DEF n
      <4>2. l2[b][k].past = v
        <5>1. l2[c][n + (k - n)] = PutOf(l, v, c, ws, k - n)
          BY <4>1, <1>8
        <5> QED BY <4>1, <5>1 DEF PutOf
      <4> QED BY <4>2, <2>2
    <3> QED BY <3>1, <3>2
  <2>4. \A b \in Writers : v2[b] <= Len(l2[b])
    <3>1. ASSUME NEW b \in Writers PROVE v2[b] <= Len(l2[b])
      <4>1. CASE b = c
        BY <4>1, <1>10, <1>11
      <4>2. CASE b # c
        BY <4>2, <1>10, <2>1 DEF Closed
      <4> QED BY <4>1, <4>2
    <3> QED BY <3>1
  <2> QED BY <2>3, <2>4, <1>10 DEF DocOK, Closed
<1> QED BY <1>4, <1>6, <1>7, <1>8, <1>9, <1>10, <1>11, <1>14, <1>15 DEF n

\* A document after a transaction has what it had and the transaction's writes.
LEMMA TransactionWrites ==
  ASSUME NEW l, LogOK(l), NEW v, DocOK(l, v), NEW c \in Writers, v[c] = Len(l[c]),
         NEW ws, ws \in Seq(Fits(l)), NEW l2, l2 = Appended(l, v, c, ws), NEW v2, v2 = Held(v, c, ws),
         NEW w
  PROVE  w \in Writes(l2, v2) <=>
           w \in Writes(l, v) \/ \E i \in 1 .. Len(ws) : w = PutOf(l, v, c, ws, i)
<1>1. /\ \A a \in Writers : a # c => l2[a] = l[a] /\ v2[a] = v[a]
      /\ Grows(l, l2) /\ v2[c] = Len(l2[c]) /\ Len(l2[c]) = Len(l[c]) + Len(ws)
      /\ \A i \in 1 .. Len(ws) : l2[c][Len(l[c]) + i] = PutOf(l, v, c, ws, i)
  BY Transaction
<1>2. Len(l[c]) \in Nat /\ Len(ws) \in Nat /\ v \in [Writers -> Nat]
  BY DEF LogOK, DocOK
<1>3. ASSUME NEW a \in Writers, NEW i \in 1 .. v2[a], w = l2[a][i]
      PROVE  w \in Writes(l, v) \/ \E k \in 1 .. Len(ws) : w = PutOf(l, v, c, ws, k)
  <2>1. CASE a # c
    BY <2>1, <1>1, <1>3, WritesMembers
  <2>2. CASE a = c /\ i \in 1 .. v[c]
    <3>1. l2[c][i] = l[c][i]
      BY <2>2, <1>1 DEF Grows
    <3> QED BY <3>1, <2>2, <1>3, WritesMembers
  <2>3. CASE a = c /\ ~(i \in 1 .. v[c])
    <3>1. i - Len(l[c]) \in 1 .. Len(ws) /\ i = Len(l[c]) + (i - Len(l[c]))
      BY <2>3, <1>1, <1>2
    <3> QED BY <3>1, <2>3, <1>1, <1>3
  <2> QED BY <2>1, <2>2, <2>3
<1>4. ASSUME NEW a \in Writers, NEW i \in 1 .. v[a], w = l[a][i] PROVE w \in Writes(l2, v2)
  <2>1. v[a] <= Len(l[a])
    BY DEF DocOK, Closed
  <2>2. l2[a][i] = l[a][i]
    BY <2>1, <1>1, <1>2 DEF Grows, LogOK
  <2>3. i \in 1 .. v2[a]
    BY <1>1, <1>2
  <2> QED BY <2>2, <2>3, <1>4, WritesMembers
<1>5. ASSUME NEW i \in 1 .. Len(ws), w = PutOf(l, v, c, ws, i) PROVE w \in Writes(l2, v2)
  <2>1. Len(l[c]) + i \in 1 .. v2[c]
    BY <1>1, <1>2
  <2>2. w = l2[c][Len(l[c]) + i]
    BY <1>1, <1>5
  <2> QED BY <2>1, <2>2, WritesMembers
<1>6. w \in Writes(l2, v2) => \E a \in Writers : \E i \in 1 .. v2[a] : w = l2[a][i]
  BY WritesMembers
<1>7. w \in Writes(l, v) => \E a \in Writers : \E i \in 1 .. v[a] : w = l[a][i]
  BY WritesMembers
<1> QED BY <1>3, <1>4, <1>5, <1>6, <1>7

-----------------------------------------------------------------------------
(* What is written. *)

\* Changes with entries out of X and values out of V.
Pool(X, V) ==
    {Change(p[1], p[2][1], p[2][2][1], p[2][2][2]) : p \in Kinds \X (ElementIds \X (X \X V))}

LEMMA PoolFinite ==
  ASSUME NEW X, IsFiniteSet(X), NEW V, IsFiniteSet(V)
  PROVE  IsFiniteSet(Pool(X, V))
<1> DEFINE D == Kinds \X (ElementIds \X (X \X V))
           f == [p \in D |-> Change(p[1], p[2][1], p[2][2][1], p[2][2][2])]
<1>1. IsFiniteSet(Kinds)
  <2>1. IsFiniteSet({"new"}) /\ IsFiniteSet({"set"}) /\ IsFiniteSet({"delete"})
    BY FS_Singleton
  <2>2. IsFiniteSet(({"new"} \union {"set"}) \union {"delete"})
    BY <2>1, FS_Union
  <2>3. Kinds = ({"new"} \union {"set"}) \union {"delete"}
    BY DEF Kinds
  <2> QED BY <2>2, <2>3
<1>2. IsFiniteSet(X \X V)
  BY FS_Product
<1>3. IsFiniteSet(ElementIds \X (X \X V))
  BY <1>2, IdsAssumption, FS_Product
<1>4. IsFiniteSet(D)
  BY <1>1, <1>3, FS_Product
<1>5. f = [p \in D |-> f[p]]
  OBVIOUS
<1>6. Pool(X, V) = {f[p] : p \in D}
  BY DEF Pool
<1> HIDE DEF f, D
<1> QED BY <1>4, <1>5, <1>6, ImageFinite

LEMMA PoolMembers ==
  ASSUME NEW X, NEW V, NEW w \in Changes, w.entry \in X, w.val \in V
  PROVE  w \in Pool(X, V)
<1> DEFINE p == <<w.kind, <<w.id, <<w.entry, w.val>>>>>>
<1>1. p \in Kinds \X (ElementIds \X (X \X V))
  BY DEF Changes
<1>2. w = Change(p[1], p[2][1], p[2][2][1], p[2][2][2])
  BY DEF Changes, Change
<1> QED BY <1>1, <1>2 DEF Pool

\* Changes that take their entries from a document and their values from a scene
\* can be written in some order.
LEMMA InOrder ==
  ASSUME NEW l, LogOK(l), NEW v, DocOK(l, v), NEW s \in Scenes, NEW S, S \subseteq Fits(l),
         \A w \in S : /\ w.entry = <<>> \/ \E e \in ElementIds : w.entry \in Entries(Writes(l, v), e)
                      /\ w.val = NoVal \/ \E e \in DOMAIN s : w.val = s[e],
         NEW q, q = SetToSeq(S)
  PROVE  /\ q \in Seq(Fits(l))
         /\ \A x \in S : \E i \in 1 .. Len(q) : q[i] = x
         /\ \A i \in 1 .. Len(q) : q[i] \in S
         /\ \A i \in 1 .. Len(q) : \A j \in 1 .. Len(q) : q[i] = q[j] => i = j
<1> DEFINE W == Writes(l, v)
           f == [w \in W |-> w.entry]
           X == {f[w] : w \in W} \union {<<>>}
           V == {s[e] : e \in DOMAIN s} \union {NoVal}
<1>1. IsFiniteSet(X)
  <2>1. IsFiniteSet(W)
    BY WritesFinite DEF DocOK
  <2>2. f = [w \in W |-> f[w]]
    OBVIOUS
  <2> HIDE DEF W, f
  <2>3. IsFiniteSet({f[w] : w \in W})
    BY <2>1, <2>2, ImageFinite
  <2> QED BY <2>3, FS_AddElement
<1>2. IsFiniteSet(V)
  <2>1. PICK D \in SUBSET ElementIds : s \in [D -> Val]
    BY DEF Scenes
  <2>2. IsFiniteSet(DOMAIN s) /\ s = [e \in DOMAIN s |-> s[e]]
    BY <2>1, IdsAssumption, FS_Subset
  <2>3. IsFiniteSet({s[e] : e \in DOMAIN s})
    BY <2>2, ImageFinite
  <2> QED BY <2>3, FS_AddElement
<1>3. \A w \in S : w.entry \in X /\ w.val \in V
  <2>1. \A e \in ElementIds : Entries(W, e) \subseteq {f[w] : w \in W}
    BY DEF Entries
  <2> HIDE DEF W, f
  <2> QED BY <2>1 DEF W
<1> HIDE DEF X, V
<1>4. S \subseteq Pool(X, V)
  <2>1. \A w \in S : w \in Changes
    BY DEF Fits
  <2> QED BY <2>1, <1>3, PoolMembers
<1>5. IsFiniteSet(S)
  BY <1>1, <1>2, <1>4, PoolFinite, FS_Subset
<1>6. /\ q \in Seq(S)
      /\ \A x \in S : \E i \in 1 .. Len(q) : q[i] = x
      /\ \A i \in 1 .. Len(q) : \A j \in 1 .. Len(q) : q[i] = q[j] => i = j
  BY <1>5, SetInSequence
<1>7. q \in Seq(Fits(l))
  BY <1>6
<1>8. \A i \in 1 .. Len(q) : q[i] \in S
  BY <1>6
<1> QED BY <1>6, <1>7, <1>8

\* The changes replaceSharedElements makes.
Replaced(W, s, swept) ==
    {Change("new", e, <<>>, s[e]) : e \in {x \in DOMAIN s : Entries(W, x) = {}}}
      \union {Change("set", e, LastOf(Entries(W, e)), s[e]) :
                e \in {x \in DOMAIN s \ {y \in DOMAIN s : Entries(W, y) = {}} :
                         Value(W, LastOf(Entries(W, x))) # s[x]}}
      \union {Change("delete", p[1], p[2], NoVal) :
                p \in UNION {{<<e, x>> : x \in Entries(W, e)} : e \in swept \ DOMAIN s}}

LEMMA NoValFits == NoVal \in Val
BY WritersFinite DEF NoVal, Val

\* What ws, the changes replaceSharedElements makes, are.
Replaces(W, s, swept, ws) ==
    /\ \A i \in 1 .. Len(ws) :
         /\ ws[i].kind = "new" =>
              ws[i].id \in DOMAIN s /\ Entries(W, ws[i].id) = {} /\ ws[i].val = s[ws[i].id]
         /\ ws[i].kind = "set" =>
              /\ ws[i].id \in DOMAIN s /\ ws[i].val = s[ws[i].id]
              /\ ws[i].entry \in Entries(W, ws[i].id) /\ Value(W, ws[i].entry) # ws[i].val
         /\ ws[i].kind = "delete" =>
              ws[i].id \in swept \ DOMAIN s /\ ws[i].entry \in Entries(W, ws[i].id)
    /\ \A e \in DOMAIN s :
         /\ Entries(W, e) = {} =>
              \E i \in 1 .. Len(ws) : ws[i] = Change("new", e, <<>>, s[e])
         /\ Entries(W, e) # {} /\ Value(W, LastOf(Entries(W, e))) # s[e] =>
              \E i \in 1 .. Len(ws) : ws[i] = Change("set", e, LastOf(Entries(W, e)), s[e])
    /\ \A i \in 1 .. Len(ws) : \A j \in 1 .. Len(ws) :
         ws[i].kind # "delete" /\ ws[j].kind # "delete" /\ ws[i].id = ws[j].id => i = j
    /\ \A e \in swept \ DOMAIN s : \A x \in Entries(W, e) :
         \E i \in 1 .. Len(ws) : ws[i] = Change("delete", e, x, NoVal)

LEMMA ReplacingShape ==
  ASSUME rank \in [Writers -> Int], NEW l, LogOK(l), NEW v, DocOK(l, v), NEW W, W = Writes(l, v),
         NEW s \in Scenes, NEW swept \in SUBSET ElementIds, NEW ws, ws = Replacing(W, s, swept)
  PROVE  ws \in Seq(Fits(l)) /\ Replaces(W, s, swept, ws)
<1> DEFINE S == Replaced(W, s, swept)
<1>0. PICK D \in SUBSET ElementIds : s \in [D -> Val]
  BY DEF Scenes
<1>1. ws = SetToSeq(S)
  BY DEF Replacing, Replaced
<1>2. ASSUME NEW e \in ElementIds, Entries(W, e) # {}
      PROVE  LastOf(Entries(W, e)) \in Entries(W, e)
  <2>1. IsFiniteSet(Entries(W, e))
    BY WritesFinite, EntriesFinite DEF DocOK
  <2>2. Entries(W, e) \subseteq Places
    BY EntryShape
  <2> QED BY <1>2, <2>1, <2>2, FirstAndLast
<1>3. \A e : \A x \in Entries(W, e) : x \in Places /\ x[2] <= Len(l[x[1]])
  <2>1. \A a \in Writers : v[a] \in Nat /\ v[a] <= Len(l[a]) /\ Len(l[a]) \in Nat
    BY DEF DocOK, Closed, LogOK
  <2>2. ASSUME NEW e, NEW x \in Entries(W, e) PROVE x \in Places /\ x[2] <= Len(l[x[1]])
    <3>1. x \in Places /\ x[1] \in Writers /\ x[2] \in 1 .. v[x[1]]
      BY EntryShape
    <3> QED BY <3>1, <2>1
  <2> QED BY <2>2
<1>4. ASSUME NEW w \in S
      PROVE  /\ w \in Fits(l)
             /\ w.entry = <<>> \/ \E e \in ElementIds : w.entry \in Entries(W, e)
             /\ w.val = NoVal \/ \E e \in DOMAIN s : w.val = s[e]
             /\ w.kind = "new" =>
                  w.id \in DOMAIN s /\ Entries(W, w.id) = {} /\ w = Change("new", w.id, <<>>, s[w.id])
             /\ w.kind = "set" =>
                  /\ w.id \in DOMAIN s /\ Entries(W, w.id) # {} /\ w.entry \in Entries(W, w.id)
                  /\ w = Change("set", w.id, LastOf(Entries(W, w.id)), s[w.id])
                  /\ Value(W, w.entry) # w.val
             /\ w.kind = "delete" =>
                  w.id \in swept \ DOMAIN s /\ w.entry \in Entries(W, w.id)
  <2>1. CASE w \in {Change("new", e, <<>>, s[e]) : e \in {x \in DOMAIN s : Entries(W, x) = {}}}
    <3>1. PICK e \in DOMAIN s : Entries(W, e) = {} /\ w = Change("new", e, <<>>, s[e])
      BY <2>1
    <3>2. e \in ElementIds /\ s[e] \in Val
      BY <1>0
    <3> QED BY <3>1, <3>2 DEF Fits, Changes, Change, Kinds
  <2>2. CASE w \in {Change("set", e, LastOf(Entries(W, e)), s[e]) :
                      e \in {x \in DOMAIN s \ {y \in DOMAIN s : Entries(W, y) = {}} :
                               Value(W, LastOf(Entries(W, x))) # s[x]}}
    <3>1. PICK e \in DOMAIN s :
            /\ Entries(W, e) # {} /\ w = Change("set", e, LastOf(Entries(W, e)), s[e])
            /\ Value(W, LastOf(Entries(W, e))) # s[e]
      BY <2>2
    <3>2. e \in ElementIds /\ s[e] \in Val
      BY <1>0
    <3>3. /\ LastOf(Entries(W, e)) \in Entries(W, e) /\ LastOf(Entries(W, e)) \in Places
          /\ LastOf(Entries(W, e))[2] <= Len(l[LastOf(Entries(W, e))[1]])
      BY <3>1, <3>2, <1>2, <1>3
    <3> QED BY <3>1, <3>2, <3>3 DEF Fits, Changes, Change, Kinds
  <2>3. CASE w \in {Change("delete", p[1], p[2], NoVal) :
                      p \in UNION {{<<e, x>> : x \in Entries(W, e)} : e \in swept \ DOMAIN s}}
    <3>1. PICK p \in UNION {{<<e, x>> : x \in Entries(W, e)} : e \in swept \ DOMAIN s} :
            w = Change("delete", p[1], p[2], NoVal)
      BY <2>3
    <3>2. PICK e \in swept \ DOMAIN s : p \in {<<e, x>> : x \in Entries(W, e)}
      BY <3>1
    <3>3. PICK x \in Entries(W, e) : p = <<e, x>>
      BY <3>2
    <3>4. w = Change("delete", e, x, NoVal)
      BY <3>1, <3>3
    <3>5. x \in Places /\ x[2] <= Len(l[x[1]]) /\ e \in ElementIds
      BY <1>3
    <3> QED BY <3>2, <3>4, <3>5, NoValFits DEF Fits, Changes, Change, Kinds
  <2> QED BY <2>1, <2>2, <2>3 DEF Replaced
<1>5. /\ ws \in Seq(Fits(l))
      /\ \A x \in S : \E i \in 1 .. Len(ws) : ws[i] = x
      /\ \A i \in 1 .. Len(ws) : ws[i] \in S
      /\ \A i \in 1 .. Len(ws) : \A j \in 1 .. Len(ws) : ws[i] = ws[j] => i = j
  <2>1. S \subseteq Fits(l)
    BY <1>4
  <2>2. \A w \in S : /\ w.entry = <<>> \/ \E e \in ElementIds : w.entry \in Entries(Writes(l, v), e)
                     /\ w.val = NoVal \/ \E e \in DOMAIN s : w.val = s[e]
    BY <1>4
  <2> HIDE DEF S
  <2> QED BY <1>1, <2>1, <2>2, InOrder
<1>6. \A i \in 1 .. Len(ws) :
        /\ ws[i].kind = "new" =>
             ws[i].id \in DOMAIN s /\ Entries(W, ws[i].id) = {} /\ ws[i].val = s[ws[i].id]
        /\ ws[i].kind = "set" =>
             /\ ws[i].id \in DOMAIN s /\ ws[i].val = s[ws[i].id]
             /\ ws[i].entry \in Entries(W, ws[i].id) /\ Value(W, ws[i].entry) # ws[i].val
        /\ ws[i].kind = "delete" =>
             ws[i].id \in swept \ DOMAIN s /\ ws[i].entry \in Entries(W, ws[i].id)
  <2>1. \A w \in S : /\ w.kind = "new" => w.val = s[w.id]
                     /\ w.kind = "set" => w.val = s[w.id]
    BY <1>4 DEF Change
  <2> HIDE DEF S
  <2>2. ASSUME NEW w \in S
        PROVE  /\ w.kind = "new" => w.id \in DOMAIN s /\ Entries(W, w.id) = {} /\ w.val = s[w.id]
               /\ w.kind = "set" =>
                    /\ w.id \in DOMAIN s /\ w.val = s[w.id]
                    /\ w.entry \in Entries(W, w.id) /\ Value(W, w.entry) # w.val
               /\ w.kind = "delete" => w.id \in swept \ DOMAIN s /\ w.entry \in Entries(W, w.id)
    BY <1>4, <2>1
  <2> QED BY <1>5, <2>2
<1>7. ASSUME NEW e \in DOMAIN s
      PROVE  /\ Entries(W, e) = {} => Change("new", e, <<>>, s[e]) \in S
             /\ Entries(W, e) # {} /\ Value(W, LastOf(Entries(W, e))) # s[e] =>
                  Change("set", e, LastOf(Entries(W, e)), s[e]) \in S
  BY DEF Replaced
<1>13. ASSUME NEW e \in swept \ DOMAIN s, NEW x \in Entries(W, e)
       PROVE  \E i \in 1 .. Len(ws) : ws[i] = Change("delete", e, x, NoVal)
  <2>1. <<e, x>> \in {<<e, y>> : y \in Entries(W, e)}
    OBVIOUS
  <2>2. <<e, x>> \in UNION {{<<f, y>> : y \in Entries(W, f)} : f \in swept \ DOMAIN s}
    BY <2>1
  <2>3. Change("delete", <<e, x>>[1], <<e, x>>[2], NoVal) \in
          {Change("delete", p[1], p[2], NoVal) :
             p \in UNION {{<<f, y>> : y \in Entries(W, f)} : f \in swept \ DOMAIN s}}
    BY <2>2
  <2>4. Change("delete", e, x, NoVal) \in S
    BY <2>3 DEF Replaced
  <2> HIDE DEF S
  <2> QED BY <2>4, <1>5
<1>8. ASSUME NEW i \in 1 .. Len(ws), NEW j \in 1 .. Len(ws),
             ws[i].kind # "delete", ws[j].kind # "delete", ws[i].id = ws[j].id
      PROVE  i = j
  <2>1. ws[i] \in S /\ ws[j] \in S
    BY <1>5
  <2>2. ws[i].kind \in Kinds /\ ws[j].kind \in Kinds
    BY <2>1, <1>4 DEF Fits, Changes
  <2>3. ws[i] = ws[j]
    <3> HIDE DEF S
    <3>1. CASE ws[i].kind = "new"
      <4>1. ws[j].kind = "new"
        BY <3>1, <2>1, <2>2, <1>4, <1>8 DEF Kinds
      <4> QED BY <3>1, <4>1, <2>1, <1>4, <1>8
    <3>2. CASE ws[i].kind = "set"
      <4>1. ws[j].kind = "set"
        BY <3>2, <2>1, <2>2, <1>4, <1>8 DEF Kinds
      <4> QED BY <3>2, <4>1, <2>1, <1>4, <1>8
    <3> QED BY <3>1, <3>2, <2>2, <1>8 DEF Kinds
  <2> HIDE DEF S
  <2> QED BY <2>3, <1>5
<1> HIDE DEF S
<1>9. ASSUME NEW e \in DOMAIN s
      PROVE  /\ Entries(W, e) = {} =>
                  \E i \in 1 .. Len(ws) : ws[i] = Change("new", e, <<>>, s[e])
             /\ Entries(W, e) # {} /\ Value(W, LastOf(Entries(W, e))) # s[e] =>
                  \E i \in 1 .. Len(ws) : ws[i] = Change("set", e, LastOf(Entries(W, e)), s[e])
  BY <1>5, <1>7
<1>10. ws \in Seq(Fits(l))
  BY <1>5
<1>11. \A i \in 1 .. Len(ws) : \A j \in 1 .. Len(ws) :
         ws[i].kind # "delete" /\ ws[j].kind # "delete" /\ ws[i].id = ws[j].id => i = j
  BY <1>8
<1>12. \A e \in DOMAIN s :
         /\ Entries(W, e) = {} =>
              \E i \in 1 .. Len(ws) : ws[i] = Change("new", e, <<>>, s[e])
         /\ Entries(W, e) # {} /\ Value(W, LastOf(Entries(W, e))) # s[e] =>
              \E i \in 1 .. Len(ws) : ws[i] = Change("set", e, LastOf(Entries(W, e)), s[e])
  BY <1>9
<1>14. \A e \in swept \ DOMAIN s : \A x \in Entries(W, e) :
         \E i \in 1 .. Len(ws) : ws[i] = Change("delete", e, x, NoVal)
  BY <1>13
<1> QED BY <1>6, <1>10, <1>11, <1>12, <1>14, Zenon DEF Replaces

\* Deletions of entries that are there.
LEMMA DeletionsShape ==
  ASSUME NEW l, LogOK(l), NEW v, DocOK(l, v), NEW W, W = Writes(l, v), NEW S,
         \A w \in S : \E e \in ElementIds : \E x \in Entries(W, e) : w = Change("delete", e, x, NoVal),
         NEW ws, ws = SetToSeq(S)
  PROVE  ws \in Seq(Fits(l)) /\ \A i \in 1 .. Len(ws) : ws[i].kind = "delete"
<1>1. ASSUME NEW w \in S
      PROVE  /\ w \in Fits(l) /\ w.kind = "delete"
             /\ \E e \in ElementIds : w.entry \in Entries(W, e)
             /\ w.val = NoVal
  <2>0. PICK e \in ElementIds : \E x \in Entries(W, e) : w = Change("delete", e, x, NoVal)
    OBVIOUS
  <2>1. PICK x \in Entries(W, e) : w = Change("delete", e, x, NoVal)
    BY <2>0
  <2>2. x \in Places /\ x[2] <= Len(l[x[1]])
    <3>1. x \in Places /\ x[1] \in Writers /\ x[2] \in 1 .. v[x[1]]
      BY EntryShape
    <3>2. v[x[1]] \in Nat /\ v[x[1]] <= Len(l[x[1]]) /\ Len(l[x[1]]) \in Nat
      BY <3>1 DEF DocOK, Closed, LogOK
    <3> QED BY <3>1, <3>2
  <2> QED BY <2>1, <2>2, NoValFits DEF Fits, Changes, Change, Kinds
<1>2. Empty \in Scenes
  <2>1. {} \in SUBSET ElementIds /\ Empty \in [{} -> Val]
    BY DEF Empty
  <2> QED BY <2>1 DEF Scenes
<1>3. ws \in Seq(Fits(l)) /\ \A i \in 1 .. Len(ws) : ws[i] \in S
  <2>1. S \subseteq Fits(l)
    BY <1>1
  <2>2. \A w \in S : /\ w.entry = <<>> \/ \E e \in ElementIds : w.entry \in Entries(Writes(l, v), e)
                     /\ w.val = NoVal \/ \E e \in DOMAIN Empty : w.val = Empty[e]
    BY <1>1
  <2> QED BY <1>2, <2>1, <2>2, InOrder
<1> QED BY <1>1, <1>3

-----------------------------------------------------------------------------
(* What a document says after a scene was written to it. *)

LEMMA EntryWithin ==
  ASSUME NEW l, LogOK(l), NEW v, DocOK(l, v), NEW e, NEW x \in Entries(Writes(l, v), e)
  PROVE  x \in Places /\ x[1] \in Writers /\ x[2] \in Nat /\ x[2] <= Len(l[x[1]])
<1>1. x \in Places /\ x[1] \in Writers /\ x[2] \in 1 .. v[x[1]]
  BY EntryShape
<1>2. v[x[1]] \in Nat /\ v[x[1]] <= Len(l[x[1]]) /\ Len(l[x[1]]) \in Nat
  BY <1>1 DEF DocOK, Closed, LogOK
<1> QED BY <1>1, <1>2

\* An entry that is not deleted stays, and only "new", at place n + i, makes one.
Follows(W, W2, c, n, ws, e) ==
    /\ \A x \in Entries(W, e) :
         (\A i \in 1 .. Len(ws) : ws[i].kind = "delete" => ws[i].entry # x) => x \in Entries(W2, e)
    /\ \A x \in Entries(W2, e) :
         /\ \A i \in 1 .. Len(ws) : ws[i].kind = "delete" => ws[i].entry # x
         /\ x \in Entries(W, e)
            \/ \E i \in 1 .. Len(ws) : ws[i].kind = "new" /\ ws[i].id = e /\ x = <<c, n + i>>
    /\ \A i \in 1 .. Len(ws) : ws[i].kind = "new" /\ ws[i].id = e
         /\ (\A j \in 1 .. Len(ws) : ws[j].kind = "delete" => ws[j].entry # <<c, n + i>>)
           => <<c, n + i>> \in Entries(W2, e)

LEMMA EntriesAfter ==
  ASSUME NEW l, LogOK(l), NEW v, DocOK(l, v), NEW c \in Writers, v[c] = Len(l[c]),
         NEW ws, ws \in Seq(Fits(l)), NEW W, W = Writes(l, v),
         NEW W2, W2 = Writes(Appended(l, v, c, ws), Held(v, c, ws)), NEW e
  PROVE  Follows(W, W2, c, Len(l[c]), ws, e)
<1> DEFINE P(i) == PutOf(l, v, c, ws, i)
           N == 1 .. Len(ws)
<1>1. \A w : w \in W2 <=> w \in W \/ \E i \in N : w = P(i)
  BY TransactionWrites
<1>2. \A i \in N : /\ P(i).kind = ws[i].kind /\ P(i).id = ws[i].id
                   /\ ws[i].kind = "new" => P(i).entry = <<c, Len(l[c]) + i>>
                   /\ ws[i].kind # "new" => P(i).entry = ws[i].entry
  BY DEF PutOf
<1>3. ASSUME NEW w \in W, NEW i \in N PROVE w.entry # <<c, Len(l[c]) + i>>
  <2>1. w.entry[2] \in Nat /\ w.entry[2] <= Len(l[w.entry[1]])
    BY WriteShape
  <2>2. Len(l[c]) \in Nat
    BY DEF LogOK
  <2> QED BY <2>1, <2>2
<1>4. \A x : x \in Entries(W, e) <=> /\ \E w \in W : w.kind = "new" /\ w.id = e /\ w.entry = x
                                     /\ \A w \in W : w.kind = "delete" => w.entry # x
  BY EntryMembers
<1>5. \A x : x \in Entries(W2, e) <=> /\ \E w \in W2 : w.kind = "new" /\ w.id = e /\ w.entry = x
                                      /\ \A w \in W2 : w.kind = "delete" => w.entry # x
  BY EntryMembers
<1> HIDE DEF P, N
<1>6. ASSUME NEW x \in Entries(W, e), \A i \in N : ws[i].kind = "delete" => ws[i].entry # x
      PROVE  x \in Entries(W2, e)
  <2>1. \E w \in W2 : w.kind = "new" /\ w.id = e /\ w.entry = x
    BY <1>1, <1>4
  <2>2. ASSUME NEW w \in W2, w.kind = "delete" PROVE w.entry # x
    <3>1. CASE w \in W
      BY <3>1, <2>2, <1>4
    <3>2. ASSUME NEW i \in N, w = P(i) PROVE w.entry # x
      BY <3>2, <2>2, <1>2, <1>6
    <3> QED BY <3>1, <3>2, <1>1
  <2> QED BY <2>1, <2>2, <1>5
<1>7. ASSUME NEW x \in Entries(W2, e)
      PROVE  /\ \A i \in N : ws[i].kind = "delete" => ws[i].entry # x
             /\ \/ x \in Entries(W, e)
                \/ \E i \in N : ws[i].kind = "new" /\ ws[i].id = e /\ x = <<c, Len(l[c]) + i>>
  <2>1. ASSUME NEW i \in N, ws[i].kind = "delete" PROVE ws[i].entry # x
    <3>1. P(i) \in W2 /\ P(i).kind = "delete" /\ P(i).entry = ws[i].entry
      BY <2>1, <1>1, <1>2
    <3> QED BY <3>1, <1>5
  <2>2. PICK w \in W2 : w.kind = "new" /\ w.id = e /\ w.entry = x
    BY <1>5
  <2>3. CASE w \in W
    <3>1. \A y \in W : y.kind = "delete" => y.entry # x
      BY <1>1, <1>5
    <3> QED BY <2>1, <2>2, <2>3, <3>1, <1>4
  <2>4. ASSUME NEW i \in N, w = P(i)
        PROVE  ws[i].kind = "new" /\ ws[i].id = e /\ x = <<c, Len(l[c]) + i>>
    BY <2>2, <2>4, <1>2
  <2> QED BY <2>1, <2>3, <2>4, <1>1
<1>8. ASSUME NEW i \in N, ws[i].kind = "new", ws[i].id = e,
             \A j \in N : ws[j].kind = "delete" => ws[j].entry # <<c, Len(l[c]) + i>>
      PROVE  <<c, Len(l[c]) + i>> \in Entries(W2, e)
  <2>1. P(i) \in W2 /\ P(i).kind = "new" /\ P(i).id = e /\ P(i).entry = <<c, Len(l[c]) + i>>
    BY <1>1, <1>2, <1>8
  <2>2. ASSUME NEW w \in W2, w.kind = "delete" PROVE w.entry # <<c, Len(l[c]) + i>>
    <3>1. CASE w \in W
      BY <3>1, <1>3
    <3>2. ASSUME NEW j \in N, w = P(j) PROVE w.entry # <<c, Len(l[c]) + i>>
      BY <3>2, <2>2, <1>2, <1>8
    <3> QED BY <3>1, <3>2, <1>1
  <2> QED BY <2>1, <2>2, <1>5
<1> QED BY <1>6, <1>7, <1>8 DEF N, Follows

\* An entry nothing was put in keeps its value.
LEMMA ValueAfter ==
  ASSUME NEW l, LogOK(l), NEW v, DocOK(l, v), NEW c \in Writers, v[c] = Len(l[c]),
         NEW ws, ws \in Seq(Fits(l)), NEW W, W = Writes(l, v),
         NEW W2, W2 = Writes(Appended(l, v, c, ws), Held(v, c, ws)), NEW e, NEW x \in Entries(W, e),
         \A i \in 1 .. Len(ws) : ws[i].kind = "set" => ws[i].entry # x
  PROVE  Value(W2, x) = Value(W, x)
<1>1. \A w : w \in W2 <=> w \in W \/ \E i \in 1 .. Len(ws) : w = PutOf(l, v, c, ws, i)
  BY TransactionWrites
<1>2. x[1] \in Writers /\ x[2] \in Nat /\ x[2] <= Len(l[x[1]])
  BY EntryWithin
<1>3. ASSUME NEW i \in 1 .. Len(ws), PutOf(l, v, c, ws, i).entry = x
      PROVE  PutOf(l, v, c, ws, i).kind = "delete"
  <2>1. ws[i].kind \in Kinds
    BY DEF Fits, Changes
  <2>2. CASE ws[i].kind = "new"
    <3>1. x = <<c, Len(l[c]) + i>>
      BY <2>2, <1>3 DEF PutOf
    <3>2. Len(l[c]) \in Nat
      BY DEF LogOK
    <3> QED BY <3>1, <3>2, <1>2
  <2>3. CASE ws[i].kind = "set"
    BY <2>3, <1>3 DEF PutOf
  <2>4. CASE ws[i].kind = "delete"
    BY <2>4 DEF PutOf
  <2> QED BY <2>1, <2>2, <2>3, <2>4 DEF Kinds
<1>4. \A w : w.entry = x /\ w.kind # "delete" => (w \in W2 <=> w \in W)
  BY <1>1, <1>3
<1> QED BY <1>4, SameValue

\* An entry has the value put in it, when one change does so.
LEMMA ValuePut ==
  ASSUME rank \in [Writers -> Int], NEW l, LogOK(l), NEW v, DocOK(l, v),
         NEW c \in Writers, v[c] = Len(l[c]),
         NEW ws, ws \in Seq(Fits(l)), NEW W, W = Writes(l, v),
         NEW W2, W2 = Writes(Appended(l, v, c, ws), Held(v, c, ws)),
         NEW i \in 1 .. Len(ws), ws[i].kind # "delete", NEW x, x = PutOf(l, v, c, ws, i).entry,
         \A j \in 1 .. Len(ws) : ws[j].kind # "delete" /\ PutOf(l, v, c, ws, j).entry = x => j = i
  PROVE  Value(W2, x) = ws[i].val
<1> DEFINE w == PutOf(l, v, c, ws, i)
<1>1. \A y : y \in W2 <=> y \in W \/ \E j \in 1 .. Len(ws) : y = PutOf(l, v, c, ws, j)
  BY TransactionWrites
<1>2. /\ w.entry = x /\ w.kind = ws[i].kind /\ w.val = ws[i].val /\ w.by = c
      /\ w.n = Len(l[c]) + i /\ w.past = v
  BY DEF PutOf
<1>3. w \in W2
  BY <1>1
<1>4. ASSUME NEW y \in W2, y.entry = x, y.kind # "delete", y # w
      PROVE  y.past[c] < Len(l[c]) + i /\ ~(v[y.by] < y.n)
  <2>1. CASE y \in W
    <3>1. /\ y \in Puts /\ y.n \in 1 .. v[y.by] /\ Closed(l, y.past)
      BY <2>1, WriteShape
    <3>2. y.by \in Writers /\ y.past[c] \in Nat
      BY <3>1 DEF Puts
    <3>3. v[y.by] \in Nat /\ Len(l[c]) \in Nat /\ y.past[c] <= Len(l[c])
      BY <3>1, <3>2 DEF DocOK, LogOK, Closed
    <3> QED BY <3>1, <3>2, <3>3
  <2>2. ASSUME NEW j \in 1 .. Len(ws), y = PutOf(l, v, c, ws, j) PROVE FALSE
    <3>1. ws[j].kind # "delete"
      BY <2>2, <1>4 DEF PutOf
    <3>2. j = i
      BY <3>1, <2>2, <1>4
    <3> QED BY <3>2, <2>2, <1>4
  <2> QED BY <2>1, <2>2, <1>1
<1> HIDE DEF w
<1>5. Value(W2, x) = w.val
  <2>1. \A y \in W2 : y.entry = x /\ y.kind # "delete" /\ y # w =>
             y.past[w.by] < w.n /\ ~(w.past[y.by] < y.n)
    BY <1>2, <1>4
  <2> QED BY <1>2, <1>3, <2>1, ValueIsTop
<1> QED BY <1>2, <1>5

\* A scene s was written: the document reads it, and what s leaves out is as it
\* was, or gone if it was swept.
Wrote(W, W2, s, swept) ==
    /\ \A e \in DOMAIN s :
         /\ Entries(W2, e) # {}
         /\ AtMostOne(Entries(W2, e)) => Value(W2, FirstOf(Entries(W2, e))) = s[e]
    /\ \A e : e \notin DOMAIN s /\ e \notin swept => Entries(W2, e) = Entries(W, e)
    /\ \A e : e \notin DOMAIN s /\ e \in swept => Entries(W2, e) = {}
    /\ \A e : e \notin DOMAIN s => \A x \in Entries(W, e) : Value(W2, x) = Value(W, x)

LEMMA SceneWritten ==
  ASSUME rank \in [Writers -> Int], NEW l, LogOK(l), NEW v, DocOK(l, v),
         NEW c \in Writers, v[c] = Len(l[c]), NEW W, W = Writes(l, v),
         NEW s \in Scenes, NEW swept \in SUBSET ElementIds, NEW ws \in Seq(Fits(l)),
         Replaces(W, s, swept, ws),
         NEW W2, W2 = Writes(Appended(l, v, c, ws), Held(v, c, ws))
  PROVE  Wrote(W, W2, s, swept)
<1> DEFINE N == 1 .. Len(ws)
           n == Len(l[c])
<1>1. /\ \A i \in N :
           /\ ws[i].kind = "new" =>
                ws[i].id \in DOMAIN s /\ Entries(W, ws[i].id) = {} /\ ws[i].val = s[ws[i].id]
           /\ ws[i].kind = "set" =>
                /\ ws[i].id \in DOMAIN s /\ ws[i].val = s[ws[i].id]
                /\ ws[i].entry \in Entries(W, ws[i].id) /\ Value(W, ws[i].entry) # ws[i].val
           /\ ws[i].kind = "delete" =>
                ws[i].id \in swept \ DOMAIN s /\ ws[i].entry \in Entries(W, ws[i].id)
      /\ \A e \in DOMAIN s :
           /\ Entries(W, e) = {} => \E i \in N : ws[i] = Change("new", e, <<>>, s[e])
           /\ Entries(W, e) # {} /\ Value(W, LastOf(Entries(W, e))) # s[e] =>
                \E i \in N : ws[i] = Change("set", e, LastOf(Entries(W, e)), s[e])
      /\ \A i \in N : \A j \in N :
           ws[i].kind # "delete" /\ ws[j].kind # "delete" /\ ws[i].id = ws[j].id => i = j
      /\ \A e \in swept \ DOMAIN s : \A x \in Entries(W, e) :
           \E i \in N : ws[i] = Change("delete", e, x, NoVal)
  BY DEF Replaces
<1>2. \A i \in N : ws[i].kind \in Kinds /\ ws[i].id \in ElementIds
  <2>1. \A i \in N : ws[i] \in Fits(l)
    OBVIOUS
  <2> QED BY <2>1 DEF Fits, Changes
<1>3. \A e : \A f : \A x : x \in Entries(W, e) /\ x \in Entries(W, f) => e = f
  BY EntryOnce
<1>4. \A e : \A x \in Entries(W, e) : x[1] \in Writers /\ x[2] \in Nat /\ x[2] <= Len(l[x[1]])
  BY EntryWithin
<1>5. n \in Nat
  BY DEF LogOK
<1>6. \A e : /\ \A x \in Entries(W, e) :
                  (\A i \in N : ws[i].kind = "delete" => ws[i].entry # x) => x \in Entries(W2, e)
             /\ \A x \in Entries(W2, e) :
                  /\ \A i \in N : ws[i].kind = "delete" => ws[i].entry # x
                  /\ x \in Entries(W, e)
                     \/ \E i \in N : ws[i].kind = "new" /\ ws[i].id = e /\ x = <<c, n + i>>
             /\ \A i \in N : ws[i].kind = "new" /\ ws[i].id = e
                  /\ (\A j \in N : ws[j].kind = "delete" => ws[j].entry # <<c, n + i>>)
                    => <<c, n + i>> \in Entries(W2, e)
  <2>1. \A e : Follows(W, W2, c, n, ws, e)
    BY EntriesAfter
  <2> QED BY <2>1 DEF Follows
<1>7. \A e : \A x \in Entries(W, e) : \A i \in N : x # <<c, n + i>>
  BY <1>4, <1>5
<1>8. \A i \in N : /\ ws[i].kind = "new" => PutOf(l, v, c, ws, i).entry = <<c, n + i>>
                   /\ ws[i].kind # "new" => PutOf(l, v, c, ws, i).entry = ws[i].entry
  BY DEF PutOf
<1> HIDE DEF N, n
\* What is left out.
<1>9. ASSUME NEW e, e \notin DOMAIN s
      PROVE  /\ e \notin swept => Entries(W2, e) = Entries(W, e)
             /\ e \in swept => Entries(W2, e) = {}
             /\ \A x \in Entries(W, e) : Value(W2, x) = Value(W, x)
  <2>1. Entries(W2, e) \subseteq Entries(W, e)
    BY <1>1, <1>6, <1>9
  <2>2. ASSUME e \notin swept, NEW x \in Entries(W, e) PROVE x \in Entries(W2, e)
    <3>1. \A i \in N : ws[i].kind = "delete" => ws[i].entry # x
      BY <2>2, <1>1, <1>3
    <3> QED BY <3>1, <1>6
  <2>3. ASSUME e \in swept, NEW x \in Entries(W2, e) PROVE FALSE
    <3>1. PICK i \in N : ws[i] = Change("delete", e, x, NoVal)
      BY <2>1, <2>3, <1>1, <1>9
    <3>2. ws[i].kind = "delete" /\ ws[i].entry = x
      BY <3>1 DEF Change
    <3> QED BY <3>2, <2>3, <1>6
  <2>4. ASSUME NEW x \in Entries(W, e) PROVE Value(W2, x) = Value(W, x)
    <3>1. \A i \in N : ws[i].kind = "set" => ws[i].entry # x
      BY <1>1, <1>3, <1>9
    <3> QED BY <3>1, ValueAfter DEF N
  <2> QED BY <2>1, <2>2, <2>3, <2>4
\* What is written.
<1>10. ASSUME NEW e \in DOMAIN s
       PROVE  /\ Entries(W2, e) # {}
              /\ AtMostOne(Entries(W2, e)) => Value(W2, FirstOf(Entries(W2, e))) = s[e]
  <2>0. ASSUME NEW x, Entries(W2, e) = {x}, x[1] \in Writers PROVE FirstOf(Entries(W2, e)) = x
    <3>1. rank[x[1]] <= rank[x[1]]
      BY <2>0
    <3> QED BY <2>0, <3>1 DEF FirstOf
  <2>1. CASE Entries(W, e) = {}
    <3>1. PICK i \in N : ws[i] = Change("new", e, <<>>, s[e])
      BY <2>1, <1>1
    <3>2. ws[i].kind = "new" /\ ws[i].id = e /\ ws[i].val = s[e]
      BY <3>1 DEF Change
    <3>3. \A j \in N : ws[j].kind # "new" => ws[j].entry # <<c, n + i>>
      <4>1. ASSUME NEW j \in N, ws[j].kind # "new" PROVE ws[j].entry \in Entries(W, ws[j].id)
        BY <4>1, <1>1, <1>2 DEF Kinds
      <4> QED BY <4>1, <1>7
    <3>4. <<c, n + i>> \in Entries(W2, e)
      BY <3>2, <3>3, <1>6
    <3>5. \A x \in Entries(W2, e) : x = <<c, n + i>>
      <4>1. ASSUME NEW x \in Entries(W2, e) PROVE x = <<c, n + i>>
        <5>1. PICK j \in N : ws[j].kind = "new" /\ ws[j].id = e /\ x = <<c, n + j>>
          BY <2>1, <1>6
        <5>2. j = i
          BY <5>1, <3>2, <1>1
        <5> QED BY <5>1, <5>2
      <4> QED BY <4>1
    <3>6. Entries(W2, e) = {<<c, n + i>>}
      BY <3>4, <3>5
    <3>7. FirstOf(Entries(W2, e)) = <<c, n + i>>
      BY <3>6, <2>0
    <3>8. Value(W2, <<c, n + i>>) = s[e]
      <4>1. ASSUME NEW j \in N, ws[j].kind # "delete", PutOf(l, v, c, ws, j).entry = <<c, n + i>>
            PROVE  j = i
        <5>1. ws[j].kind = "new"
          BY <4>1, <3>3, <1>8
        <5>2. <<c, n + j>> = <<c, n + i>>
          BY <5>1, <4>1, <1>8
        <5>3. n + j = n + i /\ i \in Int /\ j \in Int
          BY <5>2 DEF N
        <5> QED BY <5>3, <1>5
      <4>2. PutOf(l, v, c, ws, i).entry = <<c, n + i>>
        BY <3>2, <1>8
      <4>3. Value(W2, <<c, n + i>>) = ws[i].val
        <5> DEFINE x == <<c, n + i>>
        <5> HIDE DEF x
        <5>2. x = PutOf(l, v, c, ws, i).entry
          BY <4>2 DEF x
        <5>3. \A j \in N : ws[j].kind # "delete" /\ PutOf(l, v, c, ws, j).entry = x => j = i
          BY <4>1 DEF x
        <5>4. Value(W2, x) = ws[i].val
          BY <5>2, <5>3, <3>2, ValuePut DEF N
        <5> QED BY <5>4 DEF x
      <4> QED BY <4>3, <3>2
    <3> QED BY <3>6, <3>7, <3>8
  <2>2. CASE Entries(W, e) # {}
    <3>1. \A x \in Entries(W, e) : x \in Entries(W2, e)
      <4>1. ASSUME NEW x \in Entries(W, e), NEW i \in N, ws[i].kind = "delete" PROVE ws[i].entry # x
        BY <4>1, <1>1, <1>3
      <4> QED BY <4>1, <1>6
    <3>2. ASSUME AtMostOne(Entries(W2, e)) PROVE Value(W2, FirstOf(Entries(W2, e))) = s[e]
      <4>1. PICK x \in Entries(W, e) : Entries(W, e) = {x} /\ Entries(W2, e) = {x}
        BY <2>2, <3>1, <3>2 DEF AtMostOne
      <4>2. x[1] \in Writers
        BY <1>4
      <4>3. FirstOf(Entries(W2, e)) = x
        BY <4>1, <4>2, <2>0
      <4>4. LastOf(Entries(W, e)) = x
        <5>1. rank[x[1]] <= rank[x[1]]
          BY <4>2
        <5> QED BY <4>1, <5>1 DEF LastOf
      <4>5. CASE Value(W, x) = s[e]
        <5>1. ASSUME NEW i \in N, ws[i].kind = "set" PROVE ws[i].entry # x
          <6>1. SUFFICES ASSUME ws[i].entry = x PROVE FALSE
            OBVIOUS
          <6>2. ws[i].id = e /\ ws[i].val = s[ws[i].id] /\ Value(W, x) # ws[i].val
            BY <6>1, <5>1, <1>1, <1>3
          <6> QED BY <6>2, <4>5
        <5>2. Value(W2, x) = Value(W, x)
          BY <5>1, ValueAfter DEF N
        <5> QED BY <5>2, <4>3, <4>5
      <4>6. CASE Value(W, x) # s[e]
        <5>1. PICK i \in N : ws[i] = Change("set", e, x, s[e])
          BY <4>4, <4>6, <2>2, <1>1
        <5>2. ws[i].kind = "set" /\ ws[i].id = e /\ ws[i].entry = x /\ ws[i].val = s[e]
          BY <5>1 DEF Change
        <5>3. ASSUME NEW j \in N, ws[j].kind # "delete", PutOf(l, v, c, ws, j).entry = x
              PROVE  j = i
          <6>1. ws[j].kind = "set" /\ ws[j].entry = x
            BY <5>3, <1>2, <1>7, <1>8 DEF Kinds
          <6>2. ws[j].id = e
            BY <6>1, <1>1, <1>3
          <6> QED BY <6>1, <6>2, <5>2, <1>1
        <5>4. PutOf(l, v, c, ws, i).entry = x
          BY <5>2, <1>8
        <5>5. Value(W2, x) = ws[i].val
          BY <5>2, <5>3, <5>4, ValuePut DEF N
        <5> QED BY <5>2, <5>5, <4>3
      <4> QED BY <4>5, <4>6
    <3> QED BY <2>2, <3>1, <3>2
  <2> QED BY <2>1, <2>2
<1> QED BY <1>9, <1>10 DEF Wrote

-----------------------------------------------------------------------------
(* All the documents, and what an editor knows of its own. *)

LEMMA KnownGrows ==
  ASSUME NEW l, LogOK(l), NEW l2, LogOK(l2), Grows(l, l2)
  PROVE  Known(l) \subseteq Known(l2)
<1>1. ASSUME NEW e \in Known(l) PROVE e \in Known(l2)
  <2>1. PICK a \in Writers : \E i \in 1 .. Len(l[a]) : l[a][i].id = e
    BY DEF Known
  <2>2. PICK i \in 1 .. Len(l[a]) : l[a][i].id = e
    BY <2>1
  <2>3. Len(l[a]) \in Nat /\ Len(l2[a]) \in Nat
    BY DEF LogOK
  <2>4. i \in 1 .. Len(l2[a]) /\ l2[a][i].id = e
    BY <2>2, <2>3 DEF Grows
  <2> QED BY <2>4 DEF Known
<1> QED BY <1>1

\* Writer c made the changes ws and the other documents are as they were.
Extended(l, h, l2, h2, c, ws) ==
    /\ DocsOK(l2, h2) /\ Grows(l, l2)
    /\ \A a \in Writers : a # c => Writes(l2, h2[a]) = Writes(l, h[a]) /\ l2[a] = l[a]
    /\ Len(l2[c]) = Len(l[c]) + Len(ws)
    /\ \A i \in 1 .. Len(ws) : l2[c][Len(l[c]) + i] = PutOf(l, h[c], c, ws, i)

LEMMA TransactionDocs ==
  ASSUME NEW l, NEW h, DocsOK(l, h), NEW c \in Writers, NEW ws \in Seq(Fits(l)),
         NEW l2, l2 = Appended(l, h[c], c, ws), NEW h2, h2 = [a \in Writers |-> h2[a]],
         h2[c] = Held(h[c], c, ws), \A a \in Writers : a # c => h2[a] = h[a]
  PROVE  Extended(l, h, l2, h2, c, ws)
<1>1. LogOK(l) /\ \A a \in Writers : DocOK(l, h[a]) /\ h[a][a] = Len(l[a])
  BY DEF DocsOK
<1>2. /\ LogOK(l2) /\ Grows(l, l2) /\ DocOK(l2, h2[c]) /\ h2[c][c] = Len(l2[c])
      /\ \A a \in Writers : a # c => l2[a] = l[a]
      /\ Len(l2[c]) = Len(l[c]) + Len(ws)
      /\ \A i \in 1 .. Len(ws) : l2[c][Len(l[c]) + i] = PutOf(l, h[c], c, ws, i)
  <2> DEFINE v == h[c]
             v2 == h2[c]
  <2>1. LogOK(l) /\ DocOK(l, v) /\ v[c] = Len(l[c]) /\ l2 = Appended(l, v, c, ws) /\ v2 = Held(v, c, ws)
    BY <1>1
  <2> HIDE DEF v, v2
  <2>2. /\ LogOK(l2) /\ Grows(l, l2) /\ DocOK(l2, v2) /\ v2[c] = Len(l2[c])
        /\ \A a \in Writers : a # c => l2[a] = l[a]
        /\ Len(l2[c]) = Len(l[c]) + Len(ws)
        /\ \A i \in 1 .. Len(ws) : l2[c][Len(l[c]) + i] = PutOf(l, v, c, ws, i)
    BY <2>1, Transaction
  <2> QED BY <2>2 DEF v, v2
<1>3. \A a \in Writers : DocOK(l2, h[a]) /\ Writes(l2, h[a]) = Writes(l, h[a])
  BY <1>1, <1>2, GrowthKeeps
<1>4. ASSUME NEW a \in Writers
      PROVE  /\ DocOK(l2, h2[a]) /\ h2[a][a] = Len(l2[a])
             /\ a # c => Writes(l2, h2[a]) = Writes(l, h[a])
  <2>1. CASE a = c
    BY <2>1, <1>2
  <2>2. CASE a # c
    <3>1. h2[a] = h[a] /\ l2[a] = l[a]
      BY <2>2, <1>2
    <3> QED BY <3>1, <1>1, <1>3
  <2> QED BY <2>1, <2>2
<1>5. h2 \in [Writers -> [Writers -> Nat]]
  <2>1. \A a \in Writers : h2[a] \in [Writers -> Nat]
    BY <1>4 DEF DocOK
  <2> QED BY <2>1
<1>6. DocsOK(l2, h2)
  BY <1>2, <1>4, <1>5 DEF DocsOK
<1> QED BY <1>2, <1>4, <1>6 DEF Extended

\* A document that takes in another one.
LEMMA JoinedDocs ==
  ASSUME NEW l, NEW h, DocsOK(l, h), NEW c \in Writers, NEW d \in Writers, NEW x \in {c, d},
         NEW h2, h2 = [a \in Writers |-> h2[a]], h2[x] = Joined(h[c], h[d]),
         \A a \in Writers : a # x => h2[a] = h[a]
  PROVE  DocsOK(l, h2)
<1>1. LogOK(l) /\ \A a \in Writers : DocOK(l, h[a]) /\ h[a][a] = Len(l[a])
  BY DEF DocsOK
<1>2. /\ h[c] \in [Writers -> Nat] /\ h[d] \in [Writers -> Nat] /\ \A a \in Writers : Len(l[a]) \in Nat
      /\ Closed(l, h[c]) /\ Closed(l, h[d])
  BY <1>1 DEF DocOK, LogOK
<1>3. \A a \in Writers : h2[x][a] \in Nat /\ h2[x][a] = IF h[c][a] > h[d][a] THEN h[c][a] ELSE h[d][a]
  BY <1>2 DEF Joined
<1>4. h2[x] \in [Writers -> Nat]
  BY <1>2 DEF Joined
<1>5. ASSUME NEW b \in Writers
      PROVE  h2[x][b] <= Len(l[b]) /\ \A k \in 1 .. h2[x][b] : \A a \in Writers : l[b][k].past[a] <= h2[x][a]
  <2>1. h2[x][b] <= Len(l[b])
    BY <1>2, <1>3 DEF Closed
  <2>2. ASSUME NEW k \in 1 .. h2[x][b], NEW a \in Writers PROVE l[b][k].past[a] <= h2[x][a]
    <3>1. /\ h[c][a] \in Nat /\ h[d][a] \in Nat /\ h[c][b] \in Nat /\ h[d][b] \in Nat /\ Len(l[b]) \in Nat
      BY <1>2
    <3>6. /\ h2[x][b] \in Nat /\ (h2[x][b] = h[c][b] \/ h2[x][b] = h[d][b])
          /\ h2[x][a] \in Nat /\ h[c][a] <= h2[x][a] /\ h[d][a] <= h2[x][a]
      <4>1. /\ h2[x][b] \in Nat /\ h2[x][b] = IF h[c][b] > h[d][b] THEN h[c][b] ELSE h[d][b]
            /\ h2[x][a] \in Nat /\ h2[x][a] = IF h[c][a] > h[d][a] THEN h[c][a] ELSE h[d][a]
        BY <1>3
      <4> DEFINE y == h2[x][b]
                 z == h2[x][a]
                 y1 == h[c][b]
                 y2 == h[d][b]
                 z1 == h[c][a]
                 z2 == h[d][a]
      <4>2. /\ y \in Nat /\ y = IF y1 > y2 THEN y1 ELSE y2
            /\ z \in Nat /\ z = IF z1 > z2 THEN z1 ELSE z2
        BY <4>1
      <4>3. z1 \in Nat /\ z2 \in Nat
        BY <3>1
      <4> HIDE DEF y, z, y1, y2, z1, z2
      <4>4. y \in Nat /\ (y = y1 \/ y = y2) /\ z \in Nat /\ z1 <= z /\ z2 <= z
        BY <4>2, <4>3
      <4> QED BY <4>4 DEF y, z, y1, y2, z1, z2
    <3>2. k \in 1 .. Len(l[b])
      BY <2>1, <3>6, <3>1
    <3>3. l[b][k].past[a] \in Nat
      <4>1. l[b] \in Seq(Puts)
        BY <1>1 DEF LogOK
      <4>2. l[b][k] \in Puts
        BY <4>1, <3>2
      <4> QED BY <4>2 DEF Puts
    <3>4. k \in 1 .. h[c][b] \/ k \in 1 .. h[d][b]
      BY <3>6
    <3>5. l[b][k].past[a] <= h[c][a] \/ l[b][k].past[a] <= h[d][a]
      BY <3>4, <1>2 DEF Closed
    <3> QED BY <3>1, <3>3, <3>5, <3>6
  <2> QED BY <2>1, <2>2
<1>6. DocOK(l, h2[x])
  BY <1>4, <1>5 DEF DocOK, Closed
<1>7. h2[x][x] = Len(l[x])
  <2>1. h[c][x] <= Len(l[x]) /\ h[d][x] <= Len(l[x]) /\ (h[c][x] = Len(l[x]) \/ h[d][x] = Len(l[x]))
    BY <1>1, <1>2 DEF Closed
  <2>2. x \in Writers /\ h[c][x] \in Nat /\ h[d][x] \in Nat /\ Len(l[x]) \in Nat
    BY <1>2
  <2> QED BY <2>1, <2>2, <1>3
<1>8. ASSUME NEW a \in Writers PROVE DocOK(l, h2[a]) /\ h2[a][a] = Len(l[a])
  BY <1>1, <1>6, <1>7
<1>9. h2 \in [Writers -> [Writers -> Nat]]
  <2>1. \A a \in Writers : h2[a] \in [Writers -> Nat]
    BY <1>8 DEF DocOK
  <2> QED BY <2>1
<1> QED BY <1>1, <1>8, <1>9 DEF DocsOK

\* What others write leaves a tab as it was.
LEMMA TabKept ==
  ASSUME NEW l, LogOK(l), NEW l2, LogOK(l2), Grows(l, l2), NEW v, DocOK(l, v),
         NEW s, NEW b, NEW p, NEW m, TabOK(l, v, s, b, p, m)
  PROVE  TabOK(l2, v, s, b, p, m)
<1>1. Writes(l2, v) = Writes(l, v)
  BY GrowthKeeps
<1>2. Known(l) \subseteq Known(l2)
  BY KnownGrows
<1>3. EditorOK(l2, s, b, p, m)
  BY <1>2 DEF TabOK, EditorOK
<1> QED BY <1>1, <1>3 DEF TabOK

LEMMA SceneParts ==
  ASSUME NEW s \in Scenes
  PROVE  /\ DOMAIN s \subseteq ElementIds /\ \A e \in DOMAIN s : s[e] \in Val /\ s[e].version \in Int
         /\ \A S \in SUBSET DOMAIN s :
              Restrict(s, S) \in Scenes /\ DOMAIN Restrict(s, S) = S /\ \A e \in S : Restrict(s, S)[e] = s[e]
         /\ Visible(s) \in Scenes /\ DOMAIN Visible(s) = {e \in DOMAIN s : ~s[e].erased}
         /\ \A e \in DOMAIN Visible(s) : Visible(s)[e] = s[e]
<1>1. PICK D \in SUBSET ElementIds : s \in [D -> Val]
  BY DEF Scenes
<1>2. ASSUME NEW S \in SUBSET DOMAIN s
      PROVE  Restrict(s, S) \in Scenes /\ DOMAIN Restrict(s, S) = S /\ \A e \in S : Restrict(s, S)[e] = s[e]
  <2>1. S \in SUBSET ElementIds /\ \A e \in S : s[e] \in Val
    BY <1>1
  <2>2. Restrict(s, S) \in [S -> Val]
    BY <2>1 DEF Restrict
  <2> QED BY <2>1, <2>2 DEF Restrict, Scenes
<1>3. \A e \in DOMAIN s : s[e] \in Val /\ s[e].version \in Int
  BY <1>1 DEF Val
<1>4. DOMAIN s \subseteq ElementIds
  BY <1>1
<1>5. /\ Visible(s) \in Scenes /\ DOMAIN Visible(s) = {e \in DOMAIN s : ~s[e].erased}
      /\ \A e \in DOMAIN Visible(s) : Visible(s)[e] = s[e]
  <2> DEFINE S == {e \in DOMAIN s : ~s[e].erased}
  <2>1. S \in SUBSET DOMAIN s /\ Visible(s) = Restrict(s, S)
    BY DEF Visible
  <2> HIDE DEF S
  <2>2. Restrict(s, S) \in Scenes /\ DOMAIN Restrict(s, S) = S /\ \A e \in S : Restrict(s, S)[e] = s[e]
    BY <2>1, <1>2
  <2> QED BY <2>1, <2>2 DEF S
<1> QED BY <1>2, <1>3, <1>4, <1>5

LEMMA EntryKnown ==
  ASSUME NEW l, LogOK(l), NEW v, DocOK(l, v), NEW e, Entries(Writes(l, v), e) # {}
  PROVE  e \in Known(l)
<1>1. PICK x : x \in Entries(Writes(l, v), e)
  OBVIOUS
<1>2. x[1] \in Writers /\ x[2] \in 1 .. v[x[1]] /\ l[x[1]][x[2]].id = e /\ e \in ElementIds
  BY <1>1, EntryShape
<1>3. v[x[1]] \in Nat /\ v[x[1]] <= Len(l[x[1]]) /\ Len(l[x[1]]) \in Nat
  BY <1>2 DEF DocOK, Closed, LogOK
<1>4. x[2] \in 1 .. Len(l[x[1]])
  BY <1>2, <1>3
<1> QED BY <1>2, <1>4 DEF Known

-----------------------------------------------------------------------------
(* Publishing and reconciling, for one editor and its document. *)

RemoteReads(W) ==
    \A e \in ElementIds : /\ e \in DOMAIN Remote(W) <=> Entries(W, e) # {}
                          /\ e \in DOMAIN Remote(W) => Remote(W)[e] = Value(W, FirstOf(Entries(W, e)))

LEMMA RemoteEntries == ASSUME NEW W PROVE RemoteReads(W)
BY DEF Remote, RemoteReads

\* All of scene s is written, or what the baseline b does not have.
Publishes(put, swept, s, b) ==
    \/ put = s
    \/ swept = {} /\ DOMAIN put = Changed(b, s) /\ \A e \in DOMAIN put : put[e] = s[e]

\* What the document shows, scene s shows or erases just now.
ShowsOrErases(W, s, b) ==
    \A e \in ElementIds :
        AtMostOne(Entries(W, e)) /\ e \in DOMAIN Remote(W) /\ ~Remote(W)[e].erased
        => e \in DOMAIN s /\ (~s[e].erased \/ e \in Changed(b, s))

\* None of the changes creates an element that was shown.
BringsNoneBack(ws, m) ==
    \A i \in 1 .. Len(ws) : ws[i].kind = "new" /\ ~ws[i].val.erased => ws[i].id \notin m

\* A scene s was published against the baseline b and is the baseline now.
LEMMA Committed ==
  ASSUME rank \in [Writers -> Int], NEW l, LogOK(l), NEW v, DocOK(l, v),
         NEW c \in Writers, v[c] = Len(l[c]), NEW W, W = Writes(l, v),
         NEW s \in Scenes, NEW b, b \in [DOMAIN b -> Int], NEW m, NEW swept \in SUBSET ElementIds,
         NEW put \in Scenes, Publishes(put, swept, s, b),
         StillThere(W, s, m), SaysPublished(W, s, b), ShowsOrErases(W, s, b),
         NEW ws \in Seq(Fits(l)), Replaces(W, put, swept, ws),
         NEW W2, W2 = Writes(Appended(l, v, c, ws), Held(v, c, ws)),
         NEW b2, DOMAIN b2 = DOMAIN s
  PROVE  Agrees(W2, s, b2, m) /\ BringsNoneBack(ws, m)
<1>1. /\ \A e \in DOMAIN put :
           /\ Entries(W2, e) # {}
           /\ AtMostOne(Entries(W2, e)) => Value(W2, FirstOf(Entries(W2, e))) = put[e]
      /\ \A e : e \notin DOMAIN put /\ e \notin swept => Entries(W2, e) = Entries(W, e)
      /\ \A e : e \notin DOMAIN put /\ e \in swept => Entries(W2, e) = {}
      /\ \A e : e \notin DOMAIN put => \A x \in Entries(W, e) : Value(W2, x) = Value(W, x)
  <2>1. Wrote(W, W2, put, swept)
    BY SceneWritten
  <2> QED BY <2>1 DEF Wrote
<1>2. RemoteReads(W) /\ RemoteReads(W2)
  BY RemoteEntries
<1>3. /\ DOMAIN put \subseteq DOMAIN s /\ \A e \in DOMAIN put : put[e] = s[e]
      /\ DOMAIN s \subseteq ElementIds
      /\ \A e \in DOMAIN s : e \notin DOMAIN put => e \notin Changed(b, s) /\ swept = {}
  BY SceneParts DEF Changed, Publishes
\* What was not written is as it was.
<1>4. ASSUME NEW e \in ElementIds, e \notin DOMAIN put, e \notin swept
      PROVE  /\ Entries(W2, e) = Entries(W, e)
             /\ e \in DOMAIN Remote(W2) <=> e \in DOMAIN Remote(W)
             /\ e \in DOMAIN Remote(W) => Remote(W2)[e] = Remote(W)[e]
  <2>1. Entries(W2, e) = Entries(W, e)
    BY <1>1, <1>4
  <2>2. e \in DOMAIN Remote(W2) <=> e \in DOMAIN Remote(W)
    BY <2>1, <1>2 DEF RemoteReads
  <2>3. ASSUME e \in DOMAIN Remote(W) PROVE Remote(W2)[e] = Remote(W)[e]
    <3>1. IsFiniteSet(Entries(W, e)) /\ Entries(W, e) # {} /\ Entries(W, e) \subseteq Places
      <4>1. IsFiniteSet(Entries(W, e))
        BY WritesFinite, EntriesFinite DEF DocOK
      <4>2. Entries(W, e) \subseteq Places
        BY EntryShape
      <4> QED BY <4>1, <4>2, <2>3, <1>2 DEF RemoteReads
    <3>2. FirstOf(Entries(W, e)) \in Entries(W, e)
      BY <3>1, FirstAndLast
    <3>3. Value(W2, FirstOf(Entries(W, e))) = Value(W, FirstOf(Entries(W, e)))
      BY <3>2, <1>1, <1>4
    <3> QED BY <3>3, <2>1, <2>2, <2>3, <1>2 DEF RemoteReads
  <2> QED BY <2>1, <2>2, <2>3
\* What was written reads so.
<1>5. ASSUME NEW e \in DOMAIN put
      PROVE  e \in DOMAIN Remote(W2) /\ (AtMostOne(Entries(W2, e)) => Remote(W2)[e] = s[e])
  BY <1>1, <1>2, <1>3, <1>5 DEF RemoteReads
<1>6. StillThere(W2, s, m)
  <2>1. ASSUME NEW e \in DOMAIN s, ~s[e].erased, e \in m PROVE Entries(W2, e) # {}
    <3>1. CASE e \in DOMAIN put
      BY <3>1, <1>1
    <3>2. CASE e \notin DOMAIN put
      <4>1. e \notin swept /\ e \in ElementIds
        BY <3>2, <1>3
      <4>2. Entries(W2, e) = Entries(W, e)
        BY <3>2, <4>1, <1>4
      <4> QED BY <4>2, <2>1 DEF StillThere
    <3> QED BY <3>1, <3>2
  <2> QED BY <2>1 DEF StillThere
<1>7. SaysPublished(W2, s, b2)
  <2>1. ASSUME NEW e \in ElementIds, AtMostOne(Entries(W2, e)), e \in DOMAIN s, ~s[e].erased
        PROVE  e \in DOMAIN Remote(W2) /\ Remote(W2)[e] = s[e]
    <3>1. CASE e \in DOMAIN put
      BY <3>1, <2>1, <1>5
    <3>2. CASE e \notin DOMAIN put
      <4>1. e \notin swept /\ e \in DOMAIN b /\ b[e] = s[e].version
        BY <3>2, <2>1, <1>3 DEF Changed
      <4>2. /\ Entries(W2, e) = Entries(W, e)
            /\ e \in DOMAIN Remote(W2) <=> e \in DOMAIN Remote(W)
            /\ e \in DOMAIN Remote(W) => Remote(W2)[e] = Remote(W)[e]
        BY <3>2, <4>1, <1>4
      <4>3. e \in DOMAIN Remote(W) /\ Remote(W)[e] = s[e]
        BY <4>1, <4>2, <2>1 DEF SaysPublished
      <4> QED BY <4>2, <4>3
    <3> QED BY <3>1, <3>2
  <2> QED BY <2>1 DEF SaysPublished
<1>8. ShowsAll(W2, s)
  <2>1. ASSUME NEW e \in ElementIds, AtMostOne(Entries(W2, e)), e \in DOMAIN Remote(W2),
               ~Remote(W2)[e].erased
        PROVE  e \in DOMAIN s /\ ~s[e].erased
    <3>1. CASE e \in DOMAIN put
      <4>1. Remote(W2)[e] = s[e]
        BY <3>1, <2>1, <1>5
      <4> QED BY <3>1, <4>1, <2>1, <1>3
    <3>2. CASE e \notin DOMAIN put
      <4>1. e \notin swept
        BY <3>2, <2>1, <1>1, <1>2 DEF RemoteReads
      <4>2. /\ Entries(W2, e) = Entries(W, e)
            /\ e \in DOMAIN Remote(W2) <=> e \in DOMAIN Remote(W)
            /\ e \in DOMAIN Remote(W) => Remote(W2)[e] = Remote(W)[e]
        BY <3>2, <4>1, <1>4
      <4>3. AtMostOne(Entries(W, e)) /\ e \in DOMAIN Remote(W) /\ ~Remote(W)[e].erased
        BY <4>2, <2>1
      <4>4. e \in DOMAIN s /\ (~s[e].erased \/ e \in Changed(b, s))
        BY <4>3 DEF ShowsOrErases
      <4> QED BY <4>4, <3>2, <1>3
    <3> QED BY <3>1, <3>2
  <2> QED BY <2>1 DEF ShowsAll
<1>9. ASSUME NEW i \in 1 .. Len(ws), ws[i].kind = "new", ~ws[i].val.erased
      PROVE  ws[i].id \notin m
  <2>1. ws[i].id \in DOMAIN put /\ Entries(W, ws[i].id) = {} /\ ws[i].val = put[ws[i].id]
    BY <1>9 DEF Replaces
  <2>2. ws[i].id \in DOMAIN s /\ ~s[ws[i].id].erased
    BY <2>1, <1>3, <1>9
  <2> QED BY <2>1, <2>2 DEF StillThere
<1> QED BY <1>6, <1>7, <1>8, <1>9 DEF Agrees, BringsNoneBack

\* An editor that showed mine and took in remote shows s now, and takes b2 for
\* published.
TookIn(mine, remote, seen, b, s, b2) ==
    /\ s \in Scenes /\ DOMAIN remote \subseteq DOMAIN s
    /\ \A e \in DOMAIN s : e \notin DOMAIN remote =>
         e \in DOMAIN mine /\ s[e] = mine[e] /\ e \notin seen /\ e \notin DOMAIN b
    /\ \A e \in DOMAIN remote : s[e] = remote[e] \/ (e \in DOMAIN mine /\ s[e] = mine[e])
    /\ b2 \in [DOMAIN remote -> Int]
    /\ \A e \in DOMAIN remote :
         b2[e] <= s[e].version /\ (b2[e] = s[e].version => s[e] = remote[e])

LEMMA ReconciledShape ==
  ASSUME NEW mine \in Scenes, NEW remote \in Scenes, NEW b, NEW p, NEW seen,
         DOMAIN b \subseteq seen \union p, NEW isDown,
         NEW s, s = Reconciled(mine, remote, isDown, seen, p), NEW b2, b2 = Adopted(s, remote, b)
  PROVE  TookIn(mine, remote, seen, b, s, b2)
<1> DEFINE only == {e \in DOMAIN mine \ DOMAIN remote : isDown /\ e \notin seen /\ e \notin p}
<1>2. PICK D \in SUBSET ElementIds : mine \in [D -> Val]
  BY DEF Scenes
<1>3. PICK R \in SUBSET ElementIds : remote \in [R -> Val]
  BY DEF Scenes
<1>4. /\ DOMAIN s = R \union only
      /\ \A e \in DOMAIN s : s[e] = IF e \notin R THEN mine[e]
                                    ELSE IF e \in D /\ KeepsMine(mine[e], remote[e]) THEN mine[e]
                                    ELSE remote[e]
  BY <1>2, <1>3 DEF Reconciled
<1>5. only \subseteq D /\ \A e \in only : e \notin R /\ e \notin seen /\ e \notin DOMAIN b
  BY <1>2, <1>3
<1>7. s = [e \in DOMAIN s |-> s[e]]
  BY DEF Reconciled
<1>8. /\ DOMAIN b2 = {x \in DOMAIN s : x \in R \/ x \in DOMAIN b}
      /\ b2 = [x \in DOMAIN b2 |-> b2[x]]
      /\ \A e \in DOMAIN b2 : b2[e] = IF e \notin R THEN b[e]
            ELSE IF s[e] # remote[e] /\ s[e].version = remote[e].version THEN s[e].version - 1
            ELSE remote[e].version
  BY <1>3 DEF Adopted
<1> HIDE DEF only
\* The names stand for themselves from here on.
<1>9. SUFFICES ASSUME NEW t, NEW a,
             DOMAIN t = R \union only, t = [e \in DOMAIN t |-> t[e]],
             \A e \in DOMAIN t : t[e] = IF e \notin R THEN mine[e]
                 ELSE IF e \in D /\ KeepsMine(mine[e], remote[e]) THEN mine[e] ELSE remote[e],
             DOMAIN a = {x \in DOMAIN t : x \in R \/ x \in DOMAIN b}, a = [x \in DOMAIN a |-> a[x]],
             \A e \in DOMAIN a : a[e] = IF e \notin R THEN b[e]
                 ELSE IF t[e] # remote[e] /\ t[e].version = remote[e].version THEN t[e].version - 1
                 ELSE remote[e].version
      PROVE  TookIn(mine, remote, seen, b, t, a)
  BY <1>4, <1>7, <1>8
<1>10. ASSUME NEW e \in DOMAIN t, e \notin R
       PROVE  e \in D /\ t[e] = mine[e] /\ e \notin seen /\ e \notin DOMAIN b /\ t[e] \in Val
  <2>1. e \in only
    BY <1>9, <1>10
  <2>2. e \in D /\ t[e] = mine[e]
    BY <2>1, <1>5, <1>9, <1>10
  <2>3. t[e] \in Val
    BY <2>2, <1>2
  <2> QED BY <2>1, <2>2, <2>3, <1>5
<1>11. ASSUME NEW e \in R
       PROVE  /\ t[e] = remote[e] \/ (e \in D /\ t[e] = mine[e] /\ KeepsMine(mine[e], remote[e]))
              /\ t[e] \in Val
  <2>1. t[e] = remote[e] \/ (e \in D /\ t[e] = mine[e] /\ KeepsMine(mine[e], remote[e]))
    BY <1>9
  <2> QED BY <2>1, <1>2, <1>3
<1>12. t \in Scenes
  <2>1. DOMAIN t \in SUBSET ElementIds
    BY <1>5, <1>9
  <2>2. t \in [DOMAIN t -> Val]
    BY <1>9, <1>10, <1>11
  <2> QED BY <2>1, <2>2 DEF Scenes
<1>13. DOMAIN a = R /\ R \subseteq DOMAIN t
  BY <1>9, <1>10
<1>14. ASSUME NEW e \in R
       PROVE  a[e] \in Int /\ a[e] <= t[e].version /\ (a[e] = t[e].version => t[e] = remote[e])
  <2>1. t[e] \in Val /\ remote[e] \in Val
    BY <1>3, <1>11
  <2>2. t[e].version \in Int /\ remote[e].version \in Int
    BY <2>1 DEF Val
  <2>3. t[e] = remote[e] \/ t[e].version >= remote[e].version
    <3>1. CASE t[e] = mine[e] /\ KeepsMine(mine[e], remote[e])
      BY <3>1, <2>2 DEF KeepsMine
    <3> QED BY <3>1, <1>11
  <2>4. a[e] = IF t[e] # remote[e] /\ t[e].version = remote[e].version THEN t[e].version - 1
               ELSE remote[e].version
    BY <1>9, <1>13
  <2> QED BY <2>2, <2>3, <2>4
<1>15. a \in [R -> Int]
  BY <1>9, <1>13, <1>14
<1>16. DOMAIN remote = R /\ DOMAIN mine = D
  BY <1>2, <1>3
<1> QED BY <1>10, <1>11, <1>12, <1>13, <1>14, <1>15, <1>16 DEF TookIn

\* An editor that took in the scene of its document.
LEMMA Reconciles ==
  ASSUME rank \in [Writers -> Int], NEW l, LogOK(l), NEW v, DocOK(l, v), NEW W, W = Writes(l, v),
         NEW mine \in Scenes, \A e \in DOMAIN mine : ~mine[e].erased,
         NEW b, NEW p \in SUBSET ElementIds, NEW m \in SUBSET Known(l),
         NEW seen, seen = m \union DOMAIN Remote(W),
         NEW s, NEW b2, TookIn(mine, Remote(W), seen, b, s, b2)
  PROVE  TabOK(l, v, s, b2, p, seen)
<1> DEFINE remote == Remote(W)
<1>1. /\ remote \in Scenes /\ \A e \in ElementIds : e \in DOMAIN remote <=> Entries(W, e) # {}
  <2>1. Remote(W) \in Scenes
    BY RemoteIsScene
  <2> QED BY <2>1, RemoteEntries DEF RemoteReads
<1>2. DOMAIN remote \subseteq ElementIds
  BY <1>1 DEF Scenes
<1> HIDE DEF remote
<1>3. TookIn(mine, remote, seen, b, s, b2) /\ seen = m \union DOMAIN remote
  BY DEF remote
<1>4. EditorOK(l, s, b2, p, seen)
  <2>1. DOMAIN b2 = DOMAIN remote /\ b2 \in [DOMAIN b2 -> Int]
    BY <1>3 DEF TookIn
  <2>2. \A e \in DOMAIN remote : e \in Known(l)
    BY <1>1, <1>2, EntryKnown
  <2>3. seen \subseteq Known(l) /\ DOMAIN b2 \subseteq seen \union p
    BY <2>1, <2>2, <1>3
  <2>4. s \in Scenes /\ DOMAIN b2 \subseteq DOMAIN s /\ \A e \in DOMAIN b2 : b2[e] <= s[e].version
    BY <2>1, <1>3 DEF TookIn
  <2> QED BY <2>1, <2>3, <2>4 DEF EditorOK
<1>5. StillThere(W, s, seen)
  <2>1. ASSUME NEW e \in DOMAIN s, e \in seen PROVE Entries(W, e) # {}
    <3>1. e \in DOMAIN remote
      BY <2>1, <1>3 DEF TookIn
    <3> QED BY <3>1, <1>1, <1>2
  <2> QED BY <2>1 DEF StillThere
<1>6. SaysPublished(W, s, b2)
  <2>1. ASSUME NEW e \in DOMAIN b2, b2[e] = s[e].version PROVE e \in DOMAIN remote /\ remote[e] = s[e]
    <3>1. e \in DOMAIN remote
      BY <1>3 DEF TookIn
    <3> QED BY <3>1, <2>1, <1>3 DEF TookIn
  <2> QED BY <2>1 DEF SaysPublished, remote
<1>7. ShowsAll(W, s)
  <2>1. ASSUME NEW e \in DOMAIN remote, ~remote[e].erased PROVE e \in DOMAIN s /\ ~s[e].erased
    BY <2>1, <1>3 DEF TookIn
  <2> QED BY <2>1 DEF ShowsAll, remote
<1> QED BY <1>4, <1>5, <1>6, <1>7 DEF TabOK, Agrees

-----------------------------------------------------------------------------
(* What the steps do to the documents and to what the editors know. *)

\* No tab among those that write creates an element that was shown to it.
NotBack(l, l2, m) ==
    \A d \in Tabs : \A i \in Len(l[d]) + 1 .. Len(l2[d]) :
        l2[d][i].kind = "new" /\ ~l2[d][i].val.erased => l2[d][i].id \notin m[d]

LEMMA NothingBack ==
  ASSUME NEW l, LogOK(l), NEW h, NEW l2, NEW h2, NEW c \in Writers, NEW ws \in Seq(Fits(l)),
         Extended(l, h, l2, h2, c, ws), NEW m, c \in Tabs => BringsNoneBack(ws, m[c])
  PROVE  NotBack(l, l2, m)
<1>0. /\ \A a \in Writers : Len(l[a]) \in Nat /\ (a # c => l2[a] = l[a])
      /\ Len(ws) \in Nat /\ Len(l2[c]) = Len(l[c]) + Len(ws)
      /\ \A i \in 1 .. Len(ws) : l2[c][Len(l[c]) + i] = PutOf(l, h[c], c, ws, i)
  BY DEF LogOK, Extended
<1>1. ASSUME NEW d \in Tabs, NEW i \in Len(l[d]) + 1 .. Len(l2[d]), l2[d][i].kind = "new",
             ~l2[d][i].val.erased
      PROVE  l2[d][i].id \notin m[d]
  <2>1. d \in Writers
    BY WritersFinite
  <2>2. d = c
    <3>1. SUFFICES ASSUME d # c PROVE FALSE
      OBVIOUS
    <3>2. Len(l2[d]) = Len(l[d]) /\ Len(l[d]) \in Nat
      BY <2>1, <3>1, <1>0
    <3> QED BY <3>2
  <2>3. Len(l[c]) \in Nat
    BY <1>0
  <2> DEFINE k == i - Len(l[c])
  <2>4. k \in 1 .. Len(ws) /\ i = Len(l[c]) + k
    BY <2>2, <2>3, <1>0
  <2> HIDE DEF k
  <2>5. l2[c][i] = PutOf(l, h[c], c, ws, k)
    BY <2>4, <1>0
  <2>6. l2[c][i].kind = ws[k].kind /\ l2[c][i].val = ws[k].val /\ l2[c][i].id = ws[k].id
    BY <2>5 DEF PutOf
  <2>7. ws[k].kind = "new" /\ ~ws[k].val.erased
    BY <2>2, <2>6, <1>1
  <2>8. ws[k].id \notin m[c]
    BY <2>2, <2>4, <2>7 DEF BringsNoneBack
  <2> QED BY <2>2, <2>6, <2>8
<1> QED BY <1>1 DEF NotBack

LEMMA TabDoc ==
  ASSUME SyncInv, NEW c \in Tabs
  PROVE  /\ c \in Writers /\ rank \in [Writers -> Int] /\ LogOK(log) /\ DocOK(log, held[c])
         /\ held[c][c] = Len(log[c]) /\ \A a \in Writers : Len(log[a]) \in Nat
         /\ EditorOK(log, scene[c], base[c], sent[c], met[c])
         /\ StillThere(Writes(log, held[c]), scene[c], met[c])
         /\ SaysPublished(Writes(log, held[c]), scene[c], base[c])
         /\ ShowsAll(Writes(log, held[c]), scene[c])
<1>1. c \in Writers
  BY WritersFinite
<1>2. LogOK(log) /\ DocOK(log, held[c]) /\ held[c][c] = Len(log[c])
  BY <1>1 DEF SyncInv, DocsOK
<1>3. \A a \in Writers : Len(log[a]) \in Nat
  BY <1>2 DEF LogOK
<1>4. TabOK(log, held[c], scene[c], base[c], sent[c], met[c]) /\ rank \in [Writers -> Int]
  BY DEF SyncInv
<1> QED BY <1>1, <1>2, <1>3, <1>4 DEF TabOK, Agrees

\* The others are as they were when one of them writes.
LEMMA OthersKept ==
  ASSUME SyncInv, NEW c \in Writers, NEW l2, NEW h2, DocsOK(l2, h2), Grows(log, l2),
         \A a \in Writers : a # c => h2[a] = held[a], NEW d \in Tabs, d # c
  PROVE  TabOK(l2, h2[d], scene[d], base[d], sent[d], met[d])
<1>1. d \in Writers /\ h2[d] = held[d]
  BY WritersFinite
<1>2. LogOK(log) /\ DocOK(log, held[d]) /\ TabOK(log, held[d], scene[d], base[d], sent[d], met[d])
  BY <1>1 DEF SyncInv, DocsOK
<1>3. LogOK(l2)
  BY DEF DocsOK
<1>4. TabOK(l2, held[d], scene[d], base[d], sent[d], met[d])
  BY <1>2, <1>3, TabKept
<1> QED BY <1>1, <1>4

\* What publishing writes.
LEMMA PublishedShape ==
  ASSUME SyncInv, NEW c \in Tabs, NEW s \in Scenes, NEW force, NEW ws, ws = Published(c, s, force)
  PROVE  /\ ws \in Seq(Fits(log))
         /\ \E swept \in SUBSET ElementIds : \E put \in Scenes :
              Publishes(put, swept, s, base[c]) /\ Replaces(Writes(log, held[c]), put, swept, ws)
<1> DEFINE W == Writes(log, held[c])
           v == held[c]
<1>1. rank \in [Writers -> Int] /\ LogOK(log) /\ DocOK(log, v) /\ W = Writes(log, v)
  BY TabDoc
<1>2. sent[c] \in SUBSET ElementIds
  BY TabDoc DEF EditorOK
<1>3. Changed(base[c], s) \in SUBSET DOMAIN s
  BY DEF Changed
<1>4. /\ Restrict(s, Changed(base[c], s)) \in Scenes
      /\ DOMAIN Restrict(s, Changed(base[c], s)) = Changed(base[c], s)
      /\ \A e \in Changed(base[c], s) : Restrict(s, Changed(base[c], s))[e] = s[e]
  BY <1>3, SceneParts
<1>5. \/ ws = Replacing(W, s, sent[c])
      \/ ws = Replacing(W, s, {})
      \/ ws = Replacing(W, Restrict(s, Changed(base[c], s)), {})
  BY DEF Published
<1> HIDE DEF W, v
<1>6. ASSUME NEW put \in Scenes, NEW swept \in SUBSET ElementIds
      PROVE  Replacing(W, put, swept) \in Seq(Fits(log)) /\ Replaces(W, put, swept, Replacing(W, put, swept))
  BY <1>1, ReplacingShape
<1>7. CASE ws = Replacing(W, s, sent[c])
  <2>1. ws \in Seq(Fits(log)) /\ Replaces(W, s, sent[c], ws)
    BY <1>2, <1>6, <1>7
  <2> QED BY <2>1, <1>2 DEF W, Publishes
<1>8. CASE ws = Replacing(W, s, {})
  <2>1. ws \in Seq(Fits(log)) /\ Replaces(W, s, {}, ws)
    BY <1>6, <1>8
  <2> QED BY <2>1 DEF W, Publishes
<1>9. CASE ws = Replacing(W, Restrict(s, Changed(base[c], s)), {})
  <2> DEFINE put == Restrict(s, Changed(base[c], s))
  <2>1. put \in Scenes /\ DOMAIN put = Changed(base[c], s) /\ \A e \in DOMAIN put : put[e] = s[e]
    BY <1>4
  <2> HIDE DEF put
  <2>2. ws \in Seq(Fits(log)) /\ Replaces(W, put, {}, ws)
    BY <2>1, <1>6, <1>9 DEF put
  <2> QED BY <2>1, <2>2 DEF W, Publishes
<1> QED BY <1>5, <1>7, <1>8, <1>9

\* A commit of a scene that shows all the document does, or erases it.
LEMMA CommitKeeps ==
  ASSUME SyncInv, NEW c \in Tabs, NEW s \in Scenes, NEW force, Commit(c, s, force),
         NEW W, W = Writes(log, held[c]),
         StillThere(W, s, met[c]), SaysPublished(W, s, base[c]),
         ShowsOrErases(W, s, base[c])
  PROVE  /\ DocsOK(log', held') /\ TabOK(log', held'[c], s, base'[c], sent'[c], met[c])
         /\ \A d \in Tabs : d # c => TabOK(log', held'[d], scene[d], base[d], sent[d], met[d])
         /\ NotBack(log, log', met)
<1> DEFINE ws == Published(c, s, force)
           v == held[c]
           l2 == log'
           h2 == held'
           b2 == base'[c]
           p2 == sent'[c]
<1>0. /\ c \in Writers /\ rank \in [Writers -> Int] /\ LogOK(log) /\ DocOK(log, v) /\ v[c] = Len(log[c])
      /\ W = Writes(log, v) /\ EditorOK(log, scene[c], base[c], sent[c], met[c])
      /\ \A a \in Writers : Len(log[a]) \in Nat
  BY TabDoc
<1>1. ws \in Seq(Fits(log))
  BY PublishedShape
<1>2. PICK swept \in SUBSET ElementIds : \E put \in Scenes :
        Publishes(put, swept, s, base[c]) /\ Replaces(W, put, swept, ws)
  BY PublishedShape
<1>3. PICK put \in Scenes :
        Publishes(put, swept, s, base[c]) /\ Replaces(W, put, swept, ws)
  BY <1>2
<1>4. l2 = Appended(log, v, c, ws) /\ h2 = [held EXCEPT ![c] = Held(v, c, ws)]
  BY DEF Commit
<1>5. DocsOK(log, held)
  BY DEF SyncInv
<1>6. /\ h2 = [a \in Writers |-> h2[a]] /\ h2[c] = Held(held[c], c, ws)
      /\ \A a \in Writers : a # c => h2[a] = held[a]
  <2>1. held \in [Writers -> [Writers -> Nat]]
    BY <1>5 DEF DocsOK
  <2> HIDE DEF h2, ws
  <2> QED BY <2>1, <1>0, <1>4
<1>7. base' = [base EXCEPT ![c] = [e \in DOMAIN s |-> s[e].version]] /\ sent' = [sent EXCEPT ![c] = DOMAIN s]
  BY DEF Commit
<1>8. b2 = [e \in DOMAIN s |-> s[e].version] /\ p2 = DOMAIN s
  <2>1. DOMAIN base = Tabs /\ DOMAIN sent = Tabs
    BY DEF SyncInv
  <2> QED BY <2>1, <1>7
<1> HIDE DEF ws, l2, h2, b2, p2
<1>9. Extended(log, held, l2, h2, c, ws)
  <2>1. l2 = Appended(log, held[c], c, ws)
    BY <1>4
  <2> QED BY <2>1, <1>0, <1>1, <1>5, <1>6, TransactionDocs
<1>10. LogOK(l2)
  BY <1>9 DEF Extended, DocsOK
<1>11. EditorOK(l2, s, b2, p2, met[c])
  <2>1. met[c] \subseteq Known(l2)
    BY <1>0, <1>9, <1>10, KnownGrows DEF EditorOK, Extended
  <2>2. DOMAIN s \subseteq ElementIds /\ \A e \in DOMAIN s : s[e].version \in Int
    BY SceneParts
  <2> QED BY <2>1, <2>2, <1>8 DEF EditorOK
<1> DEFINE W2 == Writes(l2, h2[c])
<1>12. W2 = Writes(Appended(log, v, c, ws), Held(v, c, ws))
  BY <1>4, <1>6
<1>13. DOMAIN b2 = DOMAIN s
  BY <1>8
<1> HIDE DEF W2
<1>14. base[c] \in [DOMAIN base[c] -> Int]
  BY <1>0 DEF EditorOK
<1>15. Agrees(W2, s, b2, met[c]) /\ BringsNoneBack(ws, met[c])
  <2> HIDE DEF v
  <2> QED BY <1>0, <1>1, <1>3, <1>12, <1>13, <1>14, Committed
<1>16. TabOK(l2, h2[c], s, b2, p2, met[c])
  BY <1>11, <1>15 DEF TabOK, W2
<1>17. \A d \in Tabs : d # c => TabOK(l2, h2[d], scene[d], base[d], sent[d], met[d])
  BY <1>0, <1>6, <1>9, OthersKept DEF Extended
<1>18. NotBack(log, l2, met)
  BY <1>0, <1>1, <1>9, <1>15, NothingBack
<1> QED BY <1>9, <1>16, <1>17, <1>18 DEF Extended, l2, h2, b2, p2

LEMMA TwinsShape ==
  ASSUME NEW l, LogOK(l), NEW v, DocOK(l, v), NEW ws, ws = Twins(Writes(l, v))
  PROVE  ws \in Seq(Fits(l)) /\ \A i \in 1 .. Len(ws) : ws[i].kind = "delete"
<1> DEFINE W == Writes(l, v)
           Late(e) == {y \in LiveEntries(W, e) : y # FirstOf(LiveEntries(W, e))}
           S == UNION {{Change("delete", e, x, NoVal) : x \in Late(e)} : e \in ElementIds}
<1>1. ws = SetToSeq(S)
  BY DEF Twins
<1>2. \A e : Late(e) \subseteq Entries(W, e)
  BY DEF LiveEntries
<1> HIDE DEF Late, W
<1>3. \A w \in S : \E e \in ElementIds : \E x \in Entries(W, e) : w = Change("delete", e, x, NoVal)
  <2>1. ASSUME NEW w \in S
        PROVE  \E e \in ElementIds : \E x \in Entries(W, e) : w = Change("delete", e, x, NoVal)
    <3>1. PICK e \in ElementIds : w \in {Change("delete", e, x, NoVal) : x \in Late(e)}
      OBVIOUS
    <3> QED BY <3>1, <1>2
  <2> QED BY <2>1
<1> HIDE DEF S
<1>4. W = Writes(l, v)
  BY DEF W
<1> QED BY <1>1, <1>3, <1>4, DeletionsShape

\* What the transaction l, h puts in the document of tab c, its editor takes in.
LEMMA ObserveKeeps ==
  ASSUME SyncInv, NEW c \in Tabs, NEW l, NEW h, DocsOK(l, h), Grows(log, l),
         h = [a \in Writers |-> h[a]], \A a \in Writers : a # c => h[a] = held[a],
         Observe(c, l, h[c])
  PROVE  /\ DocsOK(log', held')
         /\ \A d \in Tabs : TabOK(log', held'[d], scene'[d], base'[d], sent'[d], met'[d])
         /\ NotBack(l, log', met)
<1> DEFINE ws == Twins(Writes(l, h[c]))
           l2 == log'
           h2 == held'
           remote == Remote(Writes(l2, h2[c]))
           seen == met[c] \union DOMAIN remote
           mine == Visible(scene[c])
           s == Reconciled(mine, remote, down[c], seen, sent[c])
           b2 == Adopted(s, remote, base[c])
<1>0. /\ c \in Writers /\ rank \in [Writers -> Int] /\ EditorOK(log, scene[c], base[c], sent[c], met[c])
      /\ LogOK(log)
  BY TabDoc
<1>1. LogOK(l) /\ DocOK(l, h[c])
  BY <1>0 DEF DocsOK
<1>2. ws \in Seq(Fits(l)) /\ \A i \in 1 .. Len(ws) : ws[i].kind = "delete"
  BY <1>1, TwinsShape
<1>3. l2 = Appended(l, h[c], c, ws) /\ h2 = [held EXCEPT ![c] = Held(h[c], c, ws)]
  BY DEF Observe
<1>4. held \in [Writers -> [Writers -> Nat]]
  BY DEF SyncInv, DocsOK
<1>5. /\ h2 = [a \in Writers |-> h2[a]] /\ h2[c] = Held(h[c], c, ws)
      /\ \A a \in Writers : a # c => h2[a] = h[a] /\ h2[a] = held[a]
  <2> HIDE DEF ws, h2
  <2> QED BY <1>0, <1>3, <1>4
<1>6. /\ met' = [met EXCEPT ![c] = met[c] \union DOMAIN Remote(Writes(l2, Held(h[c], c, ws)))]
      /\ scene' = [scene EXCEPT ![c] = Reconciled(mine, Remote(Writes(l2, Held(h[c], c, ws))), down[c],
              met[c] \union DOMAIN Remote(Writes(l2, Held(h[c], c, ws))), sent[c])]
      /\ base' = [base EXCEPT ![c] = Adopted(Reconciled(mine, Remote(Writes(l2, Held(h[c], c, ws))),
              down[c], met[c] \union DOMAIN Remote(Writes(l2, Held(h[c], c, ws))), sent[c]),
              Remote(Writes(l2, Held(h[c], c, ws))), base[c])]
      /\ sent' = sent
  BY DEF Observe
<1> HIDE DEF ws, l2, h2
<1>7. /\ met'[c] = seen /\ scene'[c] = s /\ base'[c] = b2
      /\ \A d \in Tabs : d # c => met'[d] = met[d] /\ scene'[d] = scene[d] /\ base'[d] = base[d]
  <2>1. DOMAIN met = Tabs /\ DOMAIN scene = Tabs /\ DOMAIN base = Tabs
    BY DEF SyncInv
  <2>2. h2[c] = Held(h[c], c, ws)
    BY <1>5
  <2> HIDE DEF mine
  <2> QED BY <2>1, <2>2, <1>6
<1>8. Extended(l, h, l2, h2, c, ws)
  BY <1>0, <1>2, <1>3, <1>5, TransactionDocs
<1>9. DocsOK(l2, h2) /\ Grows(l, l2)
  BY <1>8 DEF Extended
<1>10. Grows(log, l2) /\ LogOK(l2) /\ DocOK(l2, h2[c])
  <2>1. LogOK(l2) /\ DocOK(l2, h2[c])
    BY <1>0, <1>9 DEF DocsOK
  <2>2. ASSUME NEW a \in Writers
        PROVE  Len(log[a]) <= Len(l2[a]) /\ \A i \in 1 .. Len(log[a]) : l2[a][i] = log[a][i]
    <3>1. Len(log[a]) \in Nat /\ Len(l[a]) \in Nat /\ Len(l2[a]) \in Nat
      BY <2>1, <1>0, <1>1 DEF LogOK
    <3> QED BY <3>1, <1>9 DEF Grows
  <2> QED BY <2>1, <2>2 DEF Grows
<1>11. TabOK(l2, h2[c], s, b2, sent[c], seen)
  <2> DEFINE W == Writes(l2, h2[c])
  <2>1. mine \in Scenes /\ \A e \in DOMAIN mine : ~mine[e].erased
    <3>1. scene[c] \in Scenes
      BY <1>0 DEF EditorOK
    <3>2. /\ Visible(scene[c]) \in Scenes
          /\ DOMAIN Visible(scene[c]) = {e \in DOMAIN scene[c] : ~scene[c][e].erased}
          /\ \A e \in DOMAIN Visible(scene[c]) : Visible(scene[c])[e] = scene[c][e]
      BY <3>1, SceneParts
    <3> QED BY <3>2
  <2>2. met[c] \in SUBSET Known(l2) /\ sent[c] \in SUBSET ElementIds /\ DOMAIN base[c] \subseteq met[c] \union sent[c]
    BY <1>0, <1>10, KnownGrows DEF EditorOK
  <2>3. remote \in Scenes
    BY <1>0, <1>10, RemoteIsScene
  <2>4. seen = met[c] \union DOMAIN remote /\ DOMAIN base[c] \subseteq seen \union sent[c]
    BY <2>2
  <2> HIDE DEF mine, remote, seen
  <2>5. TookIn(mine, remote, seen, base[c], s, b2)
    BY <2>1, <2>3, <2>4, ReconciledShape
  <2> HIDE DEF s, b2
  <2>6. seen = met[c] \union DOMAIN Remote(W) /\ TookIn(mine, Remote(W), seen, base[c], s, b2)
    BY <2>4, <2>5 DEF remote
  <2>7. W = Writes(l2, h2[c])
    OBVIOUS
  <2> HIDE DEF W
  <2> QED BY <1>0, <1>10, <2>1, <2>2, <2>6, <2>7, Reconciles
<1>12. \A d \in Tabs : d # c => TabOK(l2, h2[d], scene[d], base[d], sent[d], met[d])
  BY <1>0, <1>5, <1>9, <1>10, OthersKept
<1>13. NotBack(l, l2, met)
  <2>1. BringsNoneBack(ws, met[c])
    BY <1>2 DEF BringsNoneBack
  <2> QED BY <2>1, <1>0, <1>1, <1>2, <1>8, NothingBack
<1>14. ASSUME NEW d \in Tabs PROVE TabOK(l2, h2[d], scene'[d], base'[d], sent'[d], met'[d])
  <2> HIDE DEF s, b2, seen
  <2>1. CASE d = c
    BY <2>1, <1>6, <1>7, <1>11
  <2>2. CASE d # c
    BY <2>2, <1>6, <1>7, <1>12
  <2> QED BY <2>1, <2>2
<1> QED BY <1>9, <1>13, <1>14 DEF l2, h2

\* The room object writes to its own document.
LEMMA ServerKeeps ==
  ASSUME SyncInv, NEW ws \in Seq(Fits(log)),
         log' = Appended(log, held[Server], Server, ws),
         held' = [held EXCEPT ![Server] = Held(held[Server], Server, ws)]
  PROVE  /\ DocsOK(log', held')
         /\ \A d \in Tabs : TabOK(log', held'[d], scene[d], base[d], sent[d], met[d])
         /\ NotBack(log, log', met)
<1> DEFINE l2 == log'
           h2 == held'
<1>0. Server \in Writers /\ Server \notin Tabs /\ DocsOK(log, held) /\ LogOK(log)
  BY WritersFinite DEF SyncInv, DocsOK
<1>1. held \in [Writers -> [Writers -> Nat]]
  BY <1>0 DEF DocsOK
<1>2. l2 = Appended(log, held[Server], Server, ws) /\ h2 = [held EXCEPT ![Server] = Held(held[Server], Server, ws)]
  OBVIOUS
<1> HIDE DEF l2, h2
<1>3. /\ h2 = [a \in Writers |-> h2[a]] /\ h2[Server] = Held(held[Server], Server, ws)
      /\ \A a \in Writers : a # Server => h2[a] = held[a]
  BY <1>0, <1>1, <1>2
<1>4. Extended(log, held, l2, h2, Server, ws)
  BY <1>0, <1>2, <1>3, TransactionDocs
<1>5. DocsOK(l2, h2) /\ Grows(log, l2)
  BY <1>4 DEF Extended
<1>6. \A d \in Tabs : TabOK(l2, h2[d], scene[d], base[d], sent[d], met[d])
  BY <1>0, <1>3, <1>5, OthersKept
<1>7. NotBack(log, l2, met)
  BY <1>0, <1>4, NothingBack
<1> QED BY <1>5, <1>6, <1>7 DEF l2, h2

\* What an editor erased says nothing of its document.
LEMMA VisibleEnough ==
  ASSUME NEW l, NEW v, NEW s \in Scenes, NEW b, NEW p, NEW m, TabOK(l, v, Visible(s), b, p, m)
  PROVE  TabOK(l, v, s, b, p, m)
<1>1. /\ DOMAIN Visible(s) = {e \in DOMAIN s : ~s[e].erased}
      /\ \A e \in DOMAIN Visible(s) : Visible(s)[e] = s[e]
  BY SceneParts
<1>2. EditorOK(l, s, b, p, m)
  BY <1>1 DEF TabOK, EditorOK
<1> DEFINE W == Writes(l, v)
           t == Visible(s)
<1>3. StillThere(W, t, m) /\ SaysPublished(W, t, b) /\ ShowsAll(W, t) /\ EditorOK(l, t, b, p, m)
  BY DEF TabOK, Agrees
<1>4. \A e : e \in DOMAIN t <=> e \in DOMAIN s /\ ~s[e].erased
  BY <1>1
<1>5. \A e \in DOMAIN t : t[e] = s[e]
  BY <1>1
<1> HIDE DEF t, W
<1>6. StillThere(W, s, m)
  BY <1>3, <1>4, <1>5 DEF StillThere
<1>7. SaysPublished(W, s, b)
  BY <1>3, <1>4, <1>5 DEF SaysPublished
<1>8. ShowsAll(W, s)
  BY <1>3, <1>4, <1>5 DEF ShowsAll
<1> QED BY <1>2, <1>6, <1>7, <1>8 DEF TabOK, Agrees, W

-----------------------------------------------------------------------------
(* The invariant. *)

LEMMA EmptyScene == Empty \in Scenes /\ DOMAIN Empty = {}
<1>1. {} \in SUBSET ElementIds /\ Empty \in [{} -> Val]
  BY DEF Empty
<1> QED BY <1>1 DEF Scenes

LEMMA InvNext ==
  ASSUME rank \in [Writers -> Int], rank' = rank, DocsOK(log', held'),
         row' \in Scenes, pending' \in [Tabs -> Scenes],
         DOMAIN scene' = Tabs, scene' = [c \in DOMAIN scene' |-> scene'[c]],
         DOMAIN base' = Tabs, base' = [c \in DOMAIN base' |-> base'[c]],
         DOMAIN sent' = Tabs, sent' = [c \in DOMAIN sent' |-> sent'[c]],
         DOMAIN met' = Tabs, met' = [c \in DOMAIN met' |-> met'[c]],
         \A c \in Tabs : TabOK(log', held'[c], scene'[c], base'[c], sent'[c], met'[c])
  PROVE  SyncInv'
<1>1. ASSUME NEW c \in Tabs PROVE TabOK(log, held[c], scene[c], base[c], sent[c], met[c])'
  <2>1. TabOK(log', held'[c], scene'[c], base'[c], sent'[c], met'[c])
    OBVIOUS
  <2>2. /\ EditorOK(log', scene'[c], base'[c], sent'[c], met'[c])
        /\ StillThere(Writes(log', held'[c]), scene'[c], met'[c])
        /\ SaysPublished(Writes(log', held'[c]), scene'[c], base'[c])
        /\ ShowsAll(Writes(log', held'[c]), scene'[c])
    BY <2>1 DEF TabOK, Agrees
  <2>3. Remote(Writes(log, held[c]))' = Remote(Writes(log', held'[c]))
    BY DEF Remote, Value, FirstOf
  <2>4. SaysPublished(Writes(log, held[c]), scene[c], base[c])'
    BY <2>2, <2>3 DEF SaysPublished
  <2>5. ShowsAll(Writes(log, held[c]), scene[c])'
    BY <2>2, <2>3 DEF ShowsAll
  <2>6. StillThere(Writes(log, held[c]), scene[c], met[c])'
    BY <2>2
  <2>7. EditorOK(log, scene[c], base[c], sent[c], met[c])'
    BY <2>2
  <2> QED BY <2>4, <2>5, <2>6, <2>7 DEF TabOK, Agrees
<1>2. DocsOK(log, held)'
  OBVIOUS
<1>3. (rank \in [Writers -> Int])'
  OBVIOUS
<1>4. (scene = [c \in Tabs |-> scene[c]])' /\ (base = [c \in Tabs |-> base[c]])'
  OBVIOUS
<1>5. (sent = [c \in Tabs |-> sent[c]])' /\ (met = [c \in Tabs |-> met[c]])'
  OBVIOUS
<1>6. (row \in Scenes)' /\ (pending \in [Tabs -> Scenes])'
  OBVIOUS
<1> QED BY <1>1, <1>2, <1>3, <1>4, <1>5, <1>6 DEF SyncInv

\* What the steps that change the editors' variables leave of their domains.
EditorShape ==
    /\ DOMAIN scene = Tabs /\ scene = [c \in DOMAIN scene |-> scene[c]]
    /\ DOMAIN base = Tabs /\ base = [c \in DOMAIN base |-> base[c]]
    /\ DOMAIN sent = Tabs /\ sent = [c \in DOMAIN sent |-> sent[c]]
    /\ DOMAIN met = Tabs /\ met = [c \in DOMAIN met |-> met[c]]

LEMMA InvShape == ASSUME SyncInv PROVE EditorShape
BY DEF SyncInv, EditorShape

\* A step that leaves the documents and the editors alone.
LEMMA QuietKeeps ==
  ASSUME SyncInv, UNCHANGED <<board, editor>>, row' \in Scenes, pending' \in [Tabs -> Scenes]
  PROVE  SyncInv' /\ NotBack(log, log', met)
<1>1. /\ log' = log /\ held' = held /\ rank' = rank
      /\ scene' = scene /\ base' = base /\ sent' = sent /\ met' = met
  BY DEF board, editor
<1>2. rank \in [Writers -> Int] /\ DocsOK(log', held') /\ EditorShape
  BY <1>1, InvShape DEF SyncInv
<1>3. \A c \in Tabs : TabOK(log', held'[c], scene'[c], base'[c], sent'[c], met'[c])
  BY <1>1 DEF SyncInv
<1>4. SyncInv'
  <2>1. /\ DOMAIN scene' = Tabs /\ scene' = [c \in DOMAIN scene' |-> scene'[c]]
        /\ DOMAIN base' = Tabs /\ base' = [c \in DOMAIN base' |-> base'[c]]
        /\ DOMAIN sent' = Tabs /\ sent' = [c \in DOMAIN sent' |-> sent'[c]]
        /\ DOMAIN met' = Tabs /\ met' = [c \in DOMAIN met' |-> met'[c]]
    BY <1>1, <1>2 DEF EditorShape
  <2>2. rank' = rank
    BY <1>1
  <2> QED BY <1>2, <1>3, <2>1, <2>2, InvNext
<1>5. NotBack(log, log', met)
  <2>1. \A a \in Tabs : Len(log[a]) \in Nat
    BY WritersFinite DEF SyncInv, DocsOK, LogOK
  <2> QED BY <2>1, <1>1 DEF NotBack
<1> QED BY <1>4, <1>5

\* A step that the lemmas above cover.
LEMMA LoudKeeps ==
  ASSUME SyncInv, DocsOK(log', held'), rank' = rank, row' \in Scenes, pending' \in [Tabs -> Scenes],
         EditorShape',
         \A c \in Tabs : TabOK(log', held'[c], scene'[c], base'[c], sent'[c], met'[c])
  PROVE  SyncInv'
<1>1. rank \in [Writers -> Int]
  BY DEF SyncInv
<1>2. /\ DOMAIN scene' = Tabs /\ scene' = [c \in DOMAIN scene' |-> scene'[c]]
      /\ DOMAIN base' = Tabs /\ base' = [c \in DOMAIN base' |-> base'[c]]
      /\ DOMAIN sent' = Tabs /\ sent' = [c \in DOMAIN sent' |-> sent'[c]]
      /\ DOMAIN met' = Tabs /\ met' = [c \in DOMAIN met' |-> met'[c]]
  BY DEF EditorShape
<1> QED BY <1>1, <1>2, InvNext

LEMMA InitKeeps == SyncInit => SyncInv
<1>0. SUFFICES ASSUME SyncInit PROVE SyncInv
  OBVIOUS
<1>1. PICK drawn \in SUBSET ElementIds :
        LET ws == SetToSeq({Change("new", e, <<>>, Old) : e \in drawn})
            full == Held(NoDoc, Server, ws)
        IN /\ log = Appended([a \in Writers |-> <<>>], NoDoc, Server, ws)
           /\ held = [a \in Writers |-> IF a \in Here \union {Server} THEN full ELSE NoDoc]
           /\ rank \in Ranks
           /\ row = [e \in drawn |-> Old]
           /\ pending = [c \in Tabs |-> Empty]
           /\ scene = [c \in Tabs |-> IF c \in Here THEN row ELSE Empty]
           /\ base = [c \in Tabs |-> IF c \in Here THEN [e \in drawn |-> 1] ELSE Empty]
           /\ sent = [c \in Tabs |-> {}]
           /\ met = [c \in Tabs |-> IF c \in Here THEN drawn ELSE {}]
  BY <1>0 DEF SyncInit
<1> DEFINE ws == SetToSeq({Change("new", e, <<>>, Old) : e \in drawn})
           full == Held(NoDoc, Server, ws)
           blank == [a \in Writers |-> <<>>]
           h == [a \in Writers |-> NoDoc]
           h2 == [a \in Writers |-> IF a = Server THEN full ELSE NoDoc]
           s == [e \in drawn |-> Old]
           W == Writes(blank, NoDoc)
           W2 == Writes(log, full)
           b2 == [e \in drawn |-> 1]
<1>2. /\ log = Appended(blank, NoDoc, Server, ws)
      /\ held = [a \in Writers |-> IF a \in Here \union {Server} THEN full ELSE NoDoc]
      /\ rank \in [Writers -> Int] /\ row = s /\ pending = [c \in Tabs |-> Empty]
      /\ scene = [c \in Tabs |-> IF c \in Here THEN s ELSE Empty]
      /\ base = [c \in Tabs |-> IF c \in Here THEN b2 ELSE Empty]
      /\ sent = [c \in Tabs |-> {}]
      /\ met = [c \in Tabs |-> IF c \in Here THEN drawn ELSE {}]
  BY <1>1, RanksAssumption
<1>3. Server \in Writers /\ Server \notin Tabs /\ Tabs \subseteq Writers
  BY WritersFinite
<1>4. s \in Scenes /\ DOMAIN s = drawn /\ \A e \in drawn : s[e] = Old /\ s[e].version = 1
  <2>1. Old \in Val /\ Old.version = 1
    BY <1>3 DEF Old, Val
  <2> QED BY <2>1 DEF Scenes
<1>5. LogOK(blank) /\ NoDoc \in [Writers -> Nat] /\ DocOK(blank, NoDoc) /\ DocsOK(blank, h)
  <2>1. \A a \in Writers : blank[a] = <<>> /\ Len(blank[a]) = 0 /\ NoDoc[a] = 0
    BY DEF NoDoc
  <2>2. blank \in [Writers -> Seq(Puts)] /\ NoDoc \in [Writers -> Nat]
    BY DEF NoDoc
  <2> HIDE DEF blank
  <2>3. LogOK(blank) /\ DocOK(blank, NoDoc)
    BY <2>1, <2>2 DEF LogOK, DocOK, Closed
  <2> QED BY <2>1, <2>2, <2>3 DEF DocsOK
<1>6. W = {} /\ \A e : Entries(W, e) = {}
  <2>1. \A w : w \notin W
    <3>1. \A a \in Writers : NoDoc[a] = 0
      BY DEF NoDoc
    <3> QED BY <3>1, WritesMembers
  <2> QED BY <2>1 DEF Entries
<1>7. ws = Replacing(W, s, {})
  <2> HIDE DEF W
  <2>1. {e \in DOMAIN s : Entries(W, e) = {}} = drawn
    BY <1>6
  <2>2. {Change("new", e, <<>>, s[e]) : e \in drawn} = {Change("new", e, <<>>, Old) : e \in drawn}
    OBVIOUS
  <2>3. {Change("new", e, <<>>, s[e]) : e \in {x \in DOMAIN s : Entries(W, x) = {}}}
          \union {Change("set", e, LastOf(Entries(W, e)), s[e]) :
                    e \in {x \in DOMAIN s \ {y \in DOMAIN s : Entries(W, y) = {}} :
                             Value(W, LastOf(Entries(W, x))) # s[x]}}
          \union {Change("delete", p[1], p[2], NoVal) :
                    p \in UNION {{<<e, x>> : x \in Entries(W, e)} : e \in {} \ DOMAIN s}}
        = {Change("new", e, <<>>, Old) : e \in drawn}
    BY <2>1, <2>2
  <2> QED BY <2>3 DEF Replacing
<1> HIDE DEF ws, s, b2
<1>8. ws \in Seq(Fits(blank)) /\ Replaces(W, s, {}, ws)
  <2> HIDE DEF blank
  <2> QED BY <1>2, <1>4, <1>5, <1>7, ReplacingShape
<1>9. Extended(blank, h, log, h2, Server, ws)
  <2>1. h[Server] = NoDoc /\ h2 = [a \in Writers |-> h2[a]] /\ h2[Server] = full
    BY <1>3
  <2>2. \A a \in Writers : a # Server => h2[a] = h[a]
    OBVIOUS
  <2>3. log = Appended(blank, h[Server], Server, ws) /\ h2[Server] = Held(h[Server], Server, ws)
    BY <2>1, <1>2
  <2> HIDE DEF h, h2, blank
  <2> QED BY <2>1, <2>2, <2>3, <1>3, <1>5, <1>8, TransactionDocs
<1>10. LogOK(log) /\ DocOK(log, full) /\ DocOK(log, NoDoc) /\ \A a \in Tabs : Len(log[a]) = 0
  <2>1. DocsOK(log, h2) /\ \A a \in Writers : a # Server => log[a] = blank[a]
    BY <1>9 DEF Extended
  <2>2. LogOK(log) /\ \A a \in Writers : DocOK(log, h2[a])
    BY <2>1 DEF DocsOK
  <2>3. h2[Server] = full
    BY <1>3
  <2>4. DocOK(log, NoDoc)
    <3>1. \A a \in Writers : NoDoc[a] = 0 /\ Len(log[a]) \in Nat
      BY <2>2 DEF NoDoc, LogOK
    <3> QED BY <3>1, <1>5 DEF DocOK, Closed
  <2>5. \A a \in Tabs : Len(log[a]) = 0
    BY <2>1, <1>3
  <2> QED BY <2>2, <2>3, <2>4, <2>5, <1>3
<1>11. DocsOK(log, held)
  <2>1. DocsOK(log, h2)
    BY <1>9 DEF Extended
  <2>2. full[Server] = Len(log[Server])
    BY <2>1, <1>3 DEF DocsOK
  <2>3. \A a \in Tabs : full[a] = 0 /\ NoDoc[a] = 0
    BY <1>3, <1>5 DEF Held, NoDoc
  <2>4. ASSUME NEW a \in Writers PROVE DocOK(log, held[a]) /\ held[a][a] = Len(log[a])
    <3>1. CASE a = Server
      BY <3>1, <2>2, <1>2, <1>10
    <3>2. CASE a # Server
      <4>1. a \in Tabs
        BY <3>2 DEF Writers
      <4>2. held[a] = full \/ held[a] = NoDoc
        BY <1>2
      <4> QED BY <4>1, <4>2, <2>3, <1>10
    <3> QED BY <3>1, <3>2
  <2>5. held \in [Writers -> [Writers -> Nat]]
    <3>1. \A a \in Writers : held[a] \in [Writers -> Nat]
      BY <2>4 DEF DocOK
    <3>2. held = [a \in Writers |-> held[a]]
      BY <1>2
    <3> QED BY <3>1, <3>2
  <2> QED BY <2>4, <2>5, <1>10 DEF DocsOK
<1>12. TabOK(log, full, s, b2, {}, drawn)
  <2>0. Empty \in Scenes /\ DOMAIN Empty = {}
    BY EmptyScene
  <2>1. StillThere(W, s, {}) /\ SaysPublished(W, s, Empty) /\ ShowsOrErases(W, s, Empty)
    <3>1. \A e \in ElementIds : e \notin DOMAIN Remote(W)
      BY <1>6, RemoteEntries DEF RemoteReads
    <3> QED BY <2>0, <3>1 DEF StillThere, SaysPublished, ShowsOrErases
  <2>2. /\ Empty \in [DOMAIN Empty -> Int] /\ Publishes(s, {}, s, Empty) /\ DOMAIN b2 = DOMAIN s
        /\ W2 = Writes(Appended(blank, NoDoc, Server, ws), Held(NoDoc, Server, ws))
        /\ NoDoc[Server] = Len(blank[Server])
    BY <2>0, <1>2, <1>3, <1>4 DEF Publishes, NoDoc, b2
  <2>3. Agrees(W2, s, b2, {})
    <3> HIDE DEF W2, blank
    <3> QED BY <2>1, <2>2, <1>2, <1>3, <1>4, <1>5, <1>8, Committed
  <2>4. Wrote(W, W2, s, {})
    <3> HIDE DEF W2, blank
    <3> QED BY <2>2, <1>2, <1>3, <1>4, <1>5, <1>8, SceneWritten
  <2>5. \A e \in drawn : Entries(W2, e) # {}
    BY <2>4, <1>4 DEF Wrote
  <2>6. drawn \subseteq Known(log)
    BY <2>5, <1>10, EntryKnown
  <2>7. EditorOK(log, s, b2, {}, drawn)
    <3>1. b2 \in [drawn -> Int] /\ \A e \in drawn : b2[e] = 1
      BY DEF b2
    <3> QED BY <3>1, <2>6, <1>4 DEF EditorOK
  <2>8. Agrees(W2, s, b2, drawn)
    BY <2>3, <2>5, <1>4 DEF Agrees, StillThere
  <2> QED BY <2>7, <2>8 DEF TabOK
<1>13. TabOK(log, NoDoc, Empty, Empty, {}, {})
  <2>0. Empty \in Scenes /\ DOMAIN Empty = {} /\ Empty \in [DOMAIN Empty -> Int]
    BY EmptyScene DEF Empty
  <2> DEFINE V == Writes(log, NoDoc)
  <2>1. \A e : Entries(V, e) = {}
    <3>1. \A a \in Writers : NoDoc[a] = 0
      BY DEF NoDoc
    <3>2. \A w : w \notin V
      BY <3>1, WritesMembers
    <3> QED BY <3>2 DEF Entries
  <2>2. \A e \in ElementIds : e \notin DOMAIN Remote(V)
    BY <2>1, RemoteEntries DEF RemoteReads
  <2>3. Agrees(V, Empty, Empty, {})
    BY <2>0, <2>2 DEF Agrees, StillThere, SaysPublished, ShowsAll
  <2>4. EditorOK(log, Empty, Empty, {}, {})
    BY <2>0 DEF EditorOK
  <2> QED BY <2>3, <2>4 DEF TabOK
<1>14. ASSUME NEW c \in Tabs PROVE TabOK(log, held[c], scene[c], base[c], sent[c], met[c])
  <2> HIDE DEF full
  <2>1. CASE c \in Here
    <3>1. held[c] = full /\ scene[c] = s /\ base[c] = b2 /\ sent[c] = {} /\ met[c] = drawn
      BY <2>1, <1>2, <1>3
    <3> QED BY <3>1, <1>12
  <2>2. CASE c \notin Here
    <3>1. held[c] = NoDoc /\ scene[c] = Empty /\ base[c] = Empty /\ sent[c] = {} /\ met[c] = {}
      BY <2>2, <1>2, <1>3
    <3> QED BY <3>1, <1>13
  <2> QED BY <2>1, <2>2
<1>15. row \in Scenes /\ pending \in [Tabs -> Scenes]
  BY <1>2, <1>4, EmptyScene
<1>16. /\ scene = [c \in Tabs |-> scene[c]] /\ base = [c \in Tabs |-> base[c]]
       /\ sent = [c \in Tabs |-> sent[c]] /\ met = [c \in Tabs |-> met[c]]
  BY <1>2
<1> QED BY <1>2, <1>11, <1>14, <1>15, <1>16 DEF SyncInv

-----------------------------------------------------------------------------
(* The steps. *)

ClearedStep ==
    \A c \in Tabs : pending'[c] = pending[c] =>
        \A w \in NewWrites(c) : w.kind = "new" /\ ~w.val.erased => w.id \notin met[c]

LEMMA NotBackCleared == ASSUME NotBack(log, log', met) PROVE ClearedStep
BY DEF NotBack, ClearedStep, NewWrites

LEMMA QuietSteps ==
  ASSUME SyncInv, (\E c \in Tabs : Open(c) \/ Join(c) \/ Leave(c)) \/ SaveRow \/ UNCHANGED syncVars
  PROVE  SyncInv' /\ NotBack(log, log', met)
<1>1. row \in Scenes /\ pending \in [Tabs -> Scenes] /\ rank \in [Writers -> Int]
  BY DEF SyncInv
<1>2. ASSUME NEW c \in Tabs, Open(c) PROVE SyncInv' /\ NotBack(log, log', met)
  BY <1>1, <1>2, QuietKeeps DEF Open
<1>3. ASSUME NEW c \in Tabs, Join(c) PROVE SyncInv' /\ NotBack(log, log', met)
  BY <1>1, <1>3, QuietKeeps DEF Join
<1>4. ASSUME NEW c \in Tabs, Leave(c) PROVE SyncInv' /\ NotBack(log, log', met)
  BY <1>1, <1>4, EmptyScene, QuietKeeps DEF Leave
<1>5. CASE SaveRow
  <2>1. LogOK(log) /\ DocOK(log, held[Server])
    BY WritersFinite DEF SyncInv, DocsOK
  <2>2. Remote(Writes(log, held[Server])) \in Scenes
    BY <1>1, <2>1, RemoteIsScene
  <2>3. Visible(Remote(Writes(log, held[Server]))) \in Scenes
    BY <2>2, SceneParts
  <2>4. row' \in Scenes /\ UNCHANGED <<board, editor, pending>>
    BY <1>5, <2>3 DEF SaveRow
  <2> QED BY <2>4, <1>1, QuietKeeps
<1>6. CASE UNCHANGED syncVars
  BY <1>1, <1>6, QuietKeeps DEF syncVars
<1> QED BY <1>2, <1>3, <1>4, <1>5, <1>6

LEMMA TakingIn ==
  ASSUME SyncInv, NEW c \in Tabs, NEW l, NEW h, DocsOK(l, h), Grows(log, l),
         h = [a \in Writers |-> h[a]], \A a \in Writers : a # c => h[a] = held[a],
         Observe(c, l, h[c]), row' = row, pending' \in [Tabs -> Scenes]
  PROVE  SyncInv' /\ NotBack(l, log', met)
<1>1. /\ DocsOK(log', held')
      /\ \A d \in Tabs : TabOK(log', held'[d], scene'[d], base'[d], sent'[d], met'[d])
      /\ NotBack(l, log', met)
  BY ObserveKeeps
<1>2. rank' = rank /\ row' \in Scenes
  BY DEF SyncInv, Observe
<1>3. EditorShape'
  BY InvShape DEF EditorShape, Observe
<1> QED BY <1>1, <1>2, <1>3, LoudKeeps

LEMMA PullStep ==
  ASSUME SyncInv, NEW c \in Tabs, Pull(c)
  PROVE  SyncInv' /\ NotBack(log, log', met)
<1> DEFINE v == Joined(held[c], held[Server])
           h == [held EXCEPT ![c] = v]
<1>1. DocsOK(log, held) /\ c \in Writers /\ Server \in Writers /\ held \in [Writers -> [Writers -> Nat]]
  BY WritersFinite DEF SyncInv, DocsOK
<1>2. /\ h = [a \in Writers |-> h[a]] /\ h[c] = v /\ \A a \in Writers : a # c => h[a] = held[a]
  BY <1>1
<1>3. Observe(c, log, v) /\ row' = row /\ pending' = pending
  BY DEF Pull
<1>4. pending' \in [Tabs -> Scenes]
  BY <1>3 DEF SyncInv
<1>5. Grows(log, log)
  BY <1>1 DEF Grows, DocsOK, LogOK
<1> HIDE DEF h
<1>6. DocsOK(log, h)
  BY <1>1, <1>2, JoinedDocs
<1>7. Observe(c, log, h[c])
  BY <1>2, <1>3
<1> QED BY <1>2, <1>3, <1>4, <1>5, <1>6, <1>7, TakingIn

LEMMA DrainStep ==
  ASSUME SyncInv, NEW c \in Tabs, Drain(c)
  PROVE  SyncInv' /\ ClearedStep
<1> DEFINE ws == Replacing(Writes(log, held[c]), pending[c], {})
           l == Appended(log, held[c], c, ws)
           h == [held EXCEPT ![c] = Held(held[c], c, ws)]
<1>1. DocsOK(log, held) /\ c \in Writers /\ held \in [Writers -> [Writers -> Nat]]
  BY WritersFinite DEF SyncInv, DocsOK
<1>2. /\ rank \in [Writers -> Int] /\ LogOK(log) /\ DocOK(log, held[c])
  BY TabDoc
<1>3. pending[c] \in Scenes /\ pending \in [Tabs -> Scenes]
  BY DEF SyncInv
<1>4. ws \in Seq(Fits(log))
  BY <1>2, <1>3, ReplacingShape
<1>5. /\ h = [a \in Writers |-> h[a]] /\ h[c] = Held(held[c], c, ws)
      /\ \A a \in Writers : a # c => h[a] = held[a]
  <2> HIDE DEF ws
  <2> QED BY <1>1
<1>6. /\ Observe(c, l, Held(held[c], c, ws)) /\ row' = row
      /\ pending' = [pending EXCEPT ![c] = Empty] /\ pending[c] # Empty
  BY DEF Drain
<1>7. l = Appended(log, held[c], c, ws)
  OBVIOUS
<1> HIDE DEF h, l, ws
<1>8. Extended(log, held, l, h, c, ws)
  BY <1>1, <1>4, <1>5, <1>7, TransactionDocs
<1>9. DocsOK(l, h) /\ Grows(log, l) /\ \A a \in Writers : a # c => l[a] = log[a]
  BY <1>8 DEF Extended
<1>10. Observe(c, l, h[c])
  BY <1>5, <1>6
<1>11. pending' \in [Tabs -> Scenes]
  BY <1>3, <1>6, EmptyScene
<1>12. SyncInv' /\ NotBack(l, log', met)
  BY <1>5, <1>6, <1>9, <1>10, <1>11, TakingIn
<1>13. ASSUME NEW d \in Tabs, pending'[d] = pending[d], NEW w \in NewWrites(d), w.kind = "new",
              ~w.val.erased
       PROVE  w.id \notin met[d]
  <2>1. d # c
    BY <1>3, <1>6, <1>13
  <2>2. l[d] = log[d]
    BY <2>1, <1>9, WritersFinite
  <2>3. PICK i \in Len(log[d]) + 1 .. Len(log'[d]) : w = log'[d][i]
    BY <1>13 DEF NewWrites
  <2> QED BY <2>2, <2>3, <1>12, <1>13 DEF NotBack
<1> QED BY <1>12, <1>13 DEF ClearedStep

LEMMA PushStep ==
  ASSUME SyncInv, NEW c \in Tabs, Push(c)
  PROVE  SyncInv' /\ NotBack(log, log', met)
<1>1. DocsOK(log, held) /\ c \in Writers /\ Server \in Writers /\ held \in [Writers -> [Writers -> Nat]]
      /\ Server \notin Tabs /\ Tabs \subseteq Writers
  BY WritersFinite DEF SyncInv, DocsOK
<1>2. /\ held' = [held EXCEPT ![Server] = Joined(held[c], held[Server])] /\ log' = log /\ rank' = rank
      /\ row' = row /\ pending' = pending /\ scene' = scene /\ base' = base /\ sent' = sent /\ met' = met
  BY DEF Push, editor
<1> DEFINE h == held'
<1>3. /\ h = [a \in Writers |-> h[a]] /\ h[Server] = Joined(held[c], held[Server])
      /\ \A a \in Writers : a # Server => h[a] = held[a]
  BY <1>1, <1>2
<1> HIDE DEF h
<1>4. DocsOK(log, h)
  BY <1>1, <1>3, JoinedDocs
<1>5. \A d \in Tabs : TabOK(log, h[d], scene[d], base[d], sent[d], met[d])
  BY <1>1, <1>3 DEF SyncInv
<1>6. \A d \in Tabs : TabOK(log', held'[d], scene'[d], base'[d], sent'[d], met'[d])
  BY <1>2, <1>5 DEF h
<1>7. EditorShape'
  BY <1>2, InvShape DEF EditorShape
<1>8. DocsOK(log', held') /\ row' \in Scenes /\ pending' \in [Tabs -> Scenes]
  BY <1>2, <1>4 DEF h, SyncInv
<1>9. SyncInv'
  BY <1>2, <1>6, <1>7, <1>8, LoudKeeps
<1>10. NotBack(log, log', met)
  <2>1. \A a \in Tabs : Len(log[a]) \in Nat
    BY <1>1 DEF DocsOK, LogOK
  <2> QED BY <2>1, <1>2 DEF NotBack
<1> QED BY <1>9, <1>10

LEMMA ServerSteps ==
  ASSUME SyncInv, Clear \/ PruneDoc
  PROVE  SyncInv' /\ NotBack(log, log', met)
<1> DEFINE W == Writes(log, held[Server])
           Dead(e) == Entries(W, e) \ LiveEntries(W, e)
           S == UNION {{Change("delete", e, x, NoVal) : x \in Dead(e)} : e \in ElementIds}
<1>1. /\ rank \in [Writers -> Int] /\ LogOK(log) /\ DocOK(log, held[Server])
  BY WritersFinite DEF SyncInv, DocsOK
<1>2. Replacing(W, Empty, ElementIds) \in Seq(Fits(log))
  BY <1>1, EmptyScene, ReplacingShape
<1>3. SetToSeq(S) \in Seq(Fits(log))
  <2>1. \A w \in S : \E e \in ElementIds : \E x \in Entries(W, e) : w = Change("delete", e, x, NoVal)
    <3>1. ASSUME NEW w \in S
          PROVE  \E e \in ElementIds : \E x \in Entries(W, e) : w = Change("delete", e, x, NoVal)
      <4>1. PICK e \in ElementIds : w \in {Change("delete", e, x, NoVal) : x \in Dead(e)}
        OBVIOUS
      <4> HIDE DEF W
      <4> QED BY <4>1
    <3> QED BY <3>1
  <2>2. W = Writes(log, held[Server])
    OBVIOUS
  <2> HIDE DEF W, S
  <2> QED BY <1>1, <2>1, <2>2, DeletionsShape
<1>4. PICK ws \in Seq(Fits(log)) :
        /\ log' = Appended(log, held[Server], Server, ws)
        /\ held' = [held EXCEPT ![Server] = Held(held[Server], Server, ws)]
        /\ rank' = rank /\ row' = row /\ pending' = pending
        /\ scene' = scene /\ base' = base /\ sent' = sent /\ met' = met
  <2>1. CASE Clear
    BY <2>1, <1>2 DEF Clear, editor
  <2>2. CASE PruneDoc
    BY <2>2, <1>3 DEF PruneDoc, editor
  <2> QED BY <2>1, <2>2
<1>5. /\ DocsOK(log', held')
      /\ \A d \in Tabs : TabOK(log', held'[d], scene[d], base[d], sent[d], met[d])
      /\ NotBack(log, log', met)
  BY <1>4, ServerKeeps
<1>6. row' \in Scenes /\ pending' \in [Tabs -> Scenes] /\ rank' = rank
  BY <1>4 DEF SyncInv
<1>7. EditorShape'
  BY <1>4, InvShape DEF EditorShape
<1>8. \A d \in Tabs : TabOK(log', held'[d], scene'[d], base'[d], sent'[d], met'[d])
  BY <1>4, <1>5
<1> QED BY <1>5, <1>6, <1>7, <1>8, LoudKeeps

\* A commit of what an editor holds, or of what it shows of it.
LEMMA CommitEither ==
  ASSUME SyncInv, NEW c \in Tabs, NEW s, s = scene[c] \/ s = Visible(scene[c]), NEW force,
         Commit(c, s, force), scene' = scene, row' = row, pending' = pending
  PROVE  SyncInv' /\ NotBack(log, log', met)
<1> DEFINE W == Writes(log, held[c])
<1>1. /\ EditorOK(log, scene[c], base[c], sent[c], met[c])
      /\ StillThere(W, scene[c], met[c]) /\ SaysPublished(W, scene[c], base[c]) /\ ShowsAll(W, scene[c])
  BY TabDoc
<1>2. scene[c] \in Scenes
  BY <1>1 DEF EditorOK
<1>3. /\ Visible(scene[c]) \in Scenes
      /\ DOMAIN Visible(scene[c]) = {e \in DOMAIN scene[c] : ~scene[c][e].erased}
      /\ \A e \in DOMAIN Visible(scene[c]) : Visible(scene[c])[e] = scene[c][e]
  BY <1>2, SceneParts
<1>4. /\ s \in Scenes
      /\ \A e : e \in DOMAIN s /\ ~s[e].erased <=> e \in DOMAIN scene[c] /\ ~scene[c][e].erased
      /\ \A e \in DOMAIN s : s[e] = scene[c][e]
  BY <1>2, <1>3
<1> HIDE DEF W
<1>5. StillThere(W, s, met[c]) /\ SaysPublished(W, s, base[c]) /\ ShowsOrErases(W, s, base[c])
  <2>1. StillThere(W, s, met[c])
    BY <1>1, <1>4 DEF StillThere
  <2>2. SaysPublished(W, s, base[c])
    BY <1>1, <1>4 DEF SaysPublished
  <2>3. ShowsOrErases(W, s, base[c])
    BY <1>1, <1>4 DEF ShowsAll, ShowsOrErases
  <2> QED BY <2>1, <2>2, <2>3
<1>6. W = Writes(log, held[c])
  BY DEF W
<1>7. /\ DocsOK(log', held') /\ TabOK(log', held'[c], s, base'[c], sent'[c], met[c])
      /\ \A d \in Tabs : d # c => TabOK(log', held'[d], scene[d], base[d], sent[d], met[d])
      /\ NotBack(log, log', met)
  BY <1>4, <1>5, <1>6, CommitKeeps
<1>8. TabOK(log', held'[c], scene[c], base'[c], sent'[c], met[c])
  BY <1>2, <1>7, VisibleEnough
<1>9. /\ rank' = rank /\ met' = met /\ row' \in Scenes /\ pending' \in [Tabs -> Scenes]
      /\ \A d \in Tabs : d # c => base'[d] = base[d] /\ sent'[d] = sent[d]
  BY DEF Commit, SyncInv
<1>10. EditorShape'
  BY InvShape DEF EditorShape, Commit
<1>11. ASSUME NEW d \in Tabs PROVE TabOK(log', held'[d], scene'[d], base'[d], sent'[d], met'[d])
  <2>1. CASE d = c
    BY <2>1, <1>8, <1>9
  <2>2. CASE d # c
    BY <2>2, <1>7, <1>9
  <2> QED BY <2>1, <2>2
<1> QED BY <1>7, <1>9, <1>10, <1>11, LoudKeeps

LEMMA PublishStep ==
  ASSUME SyncInv, NEW c \in Tabs, Publish(c)
  PROVE  SyncInv' /\ NotBack(log, log', met)
<1>1. PICK s \in {scene[c]} \union IF down[c] THEN {Visible(scene[c])} ELSE {} : Commit(c, s, FALSE)
  BY DEF Publish
<1>2. s = scene[c] \/ s = Visible(scene[c])
  OBVIOUS
<1>3. scene' = scene /\ row' = row /\ pending' = pending
  BY DEF Publish
<1> QED BY <1>1, <1>2, <1>3, CommitEither

LEMMA LiftStep ==
  ASSUME SyncInv, NEW c \in Tabs, Lift(c)
  PROVE  SyncInv' /\ NotBack(log, log', met)
<1>1. row' = row /\ pending' = pending
  BY DEF Lift
<1>2. CASE UNCHANGED <<board, editor>>
  <2>1. row' \in Scenes /\ pending' \in [Tabs -> Scenes]
    BY <1>1 DEF SyncInv
  <2> QED BY <2>1, <1>2, QuietKeeps
<1>3. CASE Commit(c, Visible(scene[c]), TRUE) /\ UNCHANGED scene
  BY <1>1, <1>3, CommitEither
<1> QED BY <1>2, <1>3 DEF Lift

\* The element that is drawn has a higher version than any before.
Raised(s, c, e) ==
    /\ s \in Scenes /\ DOMAIN s = DOMAIN scene[c] \union {e}
    /\ \A x \in DOMAIN scene[c] : x # e => s[x] = scene[c][x]
    /\ e \in DOMAIN base[c] => base[c][e] < s[e].version
    /\ \A x \in DOMAIN base[c] : base[c][x] <= s[x].version

LEMMA TouchedShape ==
  ASSUME SyncInv, NEW c \in Tabs, NEW e \in ElementIds, NEW erased \in BOOLEAN,
         NEW s, s = Touched(c, e, erased)
  PROVE  Raised(s, c, e) /\ s[e].erased = erased
<1>1. EditorOK(log, scene[c], base[c], sent[c], met[c]) /\ c \in Writers
  BY TabDoc
<1>2. PICK D \in SUBSET ElementIds : scene[c] \in [D -> Val]
  BY <1>1 DEF EditorOK, Scenes
<1> DEFINE was == IF e \in DOMAIN scene[c] THEN scene[c][e].version ELSE 0
           put == [version |-> was + 1, by |-> c, erased |-> erased]
<1>3. s = [x \in DOMAIN scene[c] \union {e} |-> IF x = e THEN put ELSE scene[c][x]]
  BY DEF Touched
<1>4. was \in Int
  BY <1>2 DEF Val
<1>5. put \in Val /\ put.version = was + 1 /\ put.erased = erased
  BY <1>1, <1>4 DEF Val
<1>6. /\ base[c] \in [DOMAIN base[c] -> Int] /\ DOMAIN base[c] \subseteq DOMAIN scene[c]
      /\ \A x \in DOMAIN base[c] : base[c][x] <= scene[c][x].version
  BY <1>1 DEF EditorOK
<1>7. e \in DOMAIN base[c] => base[c][e] <= was /\ base[c][e] \in Int
  BY <1>6
<1> HIDE DEF put, was
<1>8. /\ DOMAIN s = DOMAIN scene[c] \union {e} /\ s[e] = put
      /\ \A x \in DOMAIN scene[c] : x # e => s[x] = scene[c][x]
  BY <1>3
<1>9. s \in Scenes
  <2>1. s \in [D \union {e} -> Val]
    BY <1>2, <1>3, <1>5
  <2> QED BY <2>1 DEF Scenes
<1>10. e \in DOMAIN base[c] => base[c][e] < s[e].version
  BY <1>4, <1>5, <1>7, <1>8
<1>11. ASSUME NEW x \in DOMAIN base[c] PROVE base[c][x] <= s[x].version
  <2>1. CASE x = e
    BY <2>1, <1>4, <1>5, <1>7, <1>8
  <2>2. CASE x # e
    BY <2>2, <1>6, <1>8
  <2> QED BY <2>1, <2>2
<1> QED BY <1>5, <1>8, <1>9, <1>10, <1>11 DEF Raised

LEMMA SketchStep ==
  ASSUME SyncInv, NEW c \in Tabs, NEW e \in ElementIds, Sketch(c, e)
  PROVE  SyncInv' /\ NotBack(log, log', met)
<1> DEFINE s == Touched(c, e, FALSE)
           W == Writes(log, held[c])
<1>1. /\ LogOK(log) /\ EditorOK(log, scene[c], base[c], sent[c], met[c])
      /\ StillThere(W, scene[c], met[c]) /\ SaysPublished(W, scene[c], base[c]) /\ ShowsAll(W, scene[c])
  BY TabDoc
<1>2. /\ log' = log /\ held' = held /\ rank' = rank /\ row' = row /\ pending' = pending
      /\ base' = base /\ sent' = sent /\ met' = met /\ scene' = [scene EXCEPT ![c] = s]
      /\ Unused(e) \/ e \in DOMAIN Visible(scene[c])
  BY DEF Sketch, board
<1>3. /\ s \in Scenes /\ DOMAIN s = DOMAIN scene[c] \union {e} /\ ~s[e].erased
      /\ \A x \in DOMAIN scene[c] : x # e => s[x] = scene[c][x]
      /\ e \in DOMAIN base[c] => base[c][e] < s[e].version
      /\ \A x \in DOMAIN base[c] : base[c][x] <= s[x].version
  <2>1. Raised(s, c, e) /\ s[e].erased = FALSE
    BY TouchedShape
  <2> QED BY <2>1 DEF Raised
<1> HIDE DEF s, W
<1>4. EditorOK(log, s, base[c], sent[c], met[c])
  BY <1>1, <1>3 DEF EditorOK
<1>5. StillThere(W, s, met[c])
  <2>1. ASSUME e \in met[c] PROVE Entries(W, e) # {}
    <3>1. e \in Known(log)
      BY <2>1, <1>1 DEF EditorOK
    <3>2. ~Unused(e)
      BY <3>1 DEF Known, Unused
    <3>3. e \in DOMAIN scene[c] /\ ~scene[c][e].erased
      <4>1. scene[c] \in Scenes
        BY <1>1 DEF EditorOK
      <4>2. DOMAIN Visible(scene[c]) = {x \in DOMAIN scene[c] : ~scene[c][x].erased}
        BY <4>1, SceneParts
      <4> QED BY <3>2, <4>2, <1>2
    <3> QED BY <2>1, <3>3, <1>1 DEF StillThere
  <2>2. ASSUME NEW x \in DOMAIN s, ~s[x].erased, x \in met[c] PROVE Entries(W, x) # {}
    <3>1. CASE x = e
      BY <3>1, <2>1, <2>2
    <3>2. CASE x # e
      BY <3>2, <2>2, <1>1, <1>3 DEF StillThere
    <3> QED BY <3>1, <3>2
  <2> QED BY <2>2 DEF StillThere
<1>6. SaysPublished(W, s, base[c])
  <2>1. ASSUME NEW x \in ElementIds, AtMostOne(Entries(W, x)), x \in DOMAIN s, ~s[x].erased,
               x \in DOMAIN base[c], base[c][x] = s[x].version
        PROVE  x \in DOMAIN Remote(W) /\ Remote(W)[x] = s[x]
    <3>1. base[c][x] \in Int
      BY <2>1, <1>1 DEF EditorOK
    <3>2. x # e
      BY <2>1, <3>1, <1>3
    <3>3. x \in DOMAIN scene[c] /\ s[x] = scene[c][x]
      BY <2>1, <3>2, <1>3
    <3> QED BY <2>1, <3>3, <1>1 DEF SaysPublished
  <2> QED BY <2>1 DEF SaysPublished
<1>7. ShowsAll(W, s)
  <2>1. ASSUME NEW x \in ElementIds, AtMostOne(Entries(W, x)), x \in DOMAIN Remote(W), ~Remote(W)[x].erased
        PROVE  x \in DOMAIN s /\ ~s[x].erased
    <3>1. x \in DOMAIN scene[c] /\ ~scene[c][x].erased
      BY <2>1, <1>1 DEF ShowsAll
    <3> QED BY <3>1, <1>3
  <2> QED BY <2>1 DEF ShowsAll
<1>8. TabOK(log, held[c], s, base[c], sent[c], met[c])
  BY <1>4, <1>5, <1>6, <1>7 DEF TabOK, Agrees, W
<1>9. ASSUME NEW d \in Tabs PROVE TabOK(log', held'[d], scene'[d], base'[d], sent'[d], met'[d])
  <2>1. DOMAIN scene = Tabs /\ TabOK(log, held[d], scene[d], base[d], sent[d], met[d])
    BY DEF SyncInv
  <2>2. CASE d = c
    <3>1. scene'[d] = s
      BY <2>1, <2>2, <1>2
    <3> QED BY <2>2, <3>1, <1>2, <1>8
  <2>3. CASE d # c
    <3>1. scene'[d] = scene[d]
      BY <2>1, <2>3, <1>2
    <3> QED BY <3>1, <2>1, <1>2
  <2> QED BY <2>2, <2>3
<1>10. EditorShape'
  BY <1>2, InvShape DEF EditorShape
<1>11. DocsOK(log', held') /\ row' \in Scenes /\ pending' \in [Tabs -> Scenes] /\ rank' = rank
  BY <1>2 DEF SyncInv
<1>12. NotBack(log, log', met)
  <2>1. \A a \in Tabs : Len(log[a]) \in Nat
    BY <1>1, WritersFinite DEF LogOK
  <2> QED BY <2>1, <1>2 DEF NotBack
<1> QED BY <1>9, <1>10, <1>11, <1>12, LoudKeeps

LEMMA EraseStep ==
  ASSUME SyncInv, NEW c \in Tabs, NEW e \in ElementIds, Erase(c, e)
  PROVE  SyncInv' /\ NotBack(log, log', met)
<1> DEFINE s == Touched(c, e, TRUE)
           W == Writes(log, held[c])
<1>1. /\ LogOK(log) /\ EditorOK(log, scene[c], base[c], sent[c], met[c])
      /\ StillThere(W, scene[c], met[c]) /\ SaysPublished(W, scene[c], base[c]) /\ ShowsAll(W, scene[c])
  BY TabDoc
<1>2. /\ scene' = [scene EXCEPT ![c] = s] /\ Commit(c, scene'[c], FALSE) /\ row' = row
      /\ pending' = pending
  BY DEF Erase
<1>3. /\ s \in Scenes /\ DOMAIN s = DOMAIN scene[c] \union {e} /\ s[e].erased
      /\ \A x \in DOMAIN scene[c] : x # e => s[x] = scene[c][x]
      /\ e \in DOMAIN base[c] => base[c][e] < s[e].version
      /\ \A x \in DOMAIN base[c] : base[c][x] <= s[x].version
  <2>1. Raised(s, c, e) /\ s[e].erased = TRUE
    BY TouchedShape
  <2> QED BY <2>1 DEF Raised
<1> HIDE DEF s, W
<1>4. DOMAIN scene = Tabs /\ scene'[c] = s /\ \A d \in Tabs : d # c => scene'[d] = scene[d]
  BY <1>2 DEF SyncInv
<1>5. Commit(c, s, FALSE)
  BY <1>2, <1>4
<1>6. StillThere(W, s, met[c])
  BY <1>1, <1>3 DEF StillThere
<1>7. SaysPublished(W, s, base[c])
  BY <1>1, <1>3 DEF SaysPublished
<1>8. ShowsOrErases(W, s, base[c])
  <2>1. ASSUME NEW x \in ElementIds, AtMostOne(Entries(W, x)), x \in DOMAIN Remote(W), ~Remote(W)[x].erased
        PROVE  x \in DOMAIN s /\ (~s[x].erased \/ x \in Changed(base[c], s))
    <3>1. x \in DOMAIN scene[c] /\ ~scene[c][x].erased
      BY <2>1, <1>1 DEF ShowsAll
    <3>2. CASE x # e
      BY <3>1, <3>2, <1>3
    <3>3. CASE x = e
      <4>1. e \notin DOMAIN base[c] \/ base[c][e] # s[e].version
        <5>1. s[e].version \in Int /\ (e \in DOMAIN base[c] => base[c][e] \in Int)
          BY <1>1, <1>3, SceneParts DEF EditorOK
        <5> QED BY <5>1, <1>3
      <4> QED BY <3>3, <4>1, <1>3 DEF Changed
    <3> QED BY <3>2, <3>3
  <2> QED BY <2>1 DEF ShowsOrErases
<1>9. W = Writes(log, held[c])
  BY DEF W
<1>10. /\ DocsOK(log', held') /\ TabOK(log', held'[c], s, base'[c], sent'[c], met[c])
       /\ \A d \in Tabs : d # c => TabOK(log', held'[d], scene[d], base[d], sent[d], met[d])
       /\ NotBack(log, log', met)
  <2>1. s \in Scenes
    BY <1>3
  <2> QED BY <2>1, <1>5, <1>6, <1>7, <1>8, <1>9, CommitKeeps
<1>11. /\ rank' = rank /\ met' = met /\ row' \in Scenes /\ pending' \in [Tabs -> Scenes]
       /\ \A d \in Tabs : d # c => base'[d] = base[d] /\ sent'[d] = sent[d]
  <2>1. row \in Scenes /\ pending \in [Tabs -> Scenes]
    BY DEF SyncInv
  <2>2. row' \in Scenes /\ pending' \in [Tabs -> Scenes]
    BY <2>1, <1>2
  <2>3. rank' = rank /\ met' = met /\ \A d \in Tabs : d # c => base'[d] = base[d] /\ sent'[d] = sent[d]
    <3>1. DOMAIN base = Tabs /\ DOMAIN sent = Tabs
      BY DEF SyncInv
    <3> QED BY <3>1, <1>5 DEF Commit
  <2> QED BY <2>2, <2>3
<1>12. EditorShape'
  <2>1. EditorShape
    BY InvShape
  <2>2. DOMAIN scene' = Tabs /\ scene' = [d \in DOMAIN scene' |-> scene'[d]]
    BY <2>1, <1>2 DEF EditorShape
  <2>3. /\ DOMAIN base' = Tabs /\ base' = [d \in DOMAIN base' |-> base'[d]]
        /\ DOMAIN sent' = Tabs /\ sent' = [d \in DOMAIN sent' |-> sent'[d]]
        /\ DOMAIN met' = Tabs /\ met' = [d \in DOMAIN met' |-> met'[d]]
    BY <2>1, <1>5 DEF EditorShape, Commit
  <2> QED BY <2>2, <2>3 DEF EditorShape
<1>13. ASSUME NEW d \in Tabs PROVE TabOK(log', held'[d], scene'[d], base'[d], sent'[d], met'[d])
  <2>1. CASE d = c
    BY <2>1, <1>4, <1>10, <1>11
  <2>2. CASE d # c
    BY <2>2, <1>4, <1>10, <1>11
  <2> QED BY <2>1, <2>2
<1> QED BY <1>10, <1>11, <1>12, <1>13, LoudKeeps

-----------------------------------------------------------------------------

LEMMA NextKeeps == ASSUME SyncInv, [SyncNext]_syncVars PROVE SyncInv' /\ ClearedStep
<1>1. ASSUME NEW c \in Tabs, Drain(c) PROVE SyncInv' /\ ClearedStep
  BY <1>1, DrainStep
<1>2. ASSUME SyncInv' /\ NotBack(log, log', met) PROVE SyncInv' /\ ClearedStep
  BY <1>2, NotBackCleared
<1>3. ASSUME NEW c \in Tabs, Open(c) \/ Join(c) \/ Leave(c) PROVE SyncInv' /\ ClearedStep
  BY <1>2, <1>3, QuietSteps
<1>4. ASSUME NEW c \in Tabs, Pull(c) PROVE SyncInv' /\ ClearedStep
  BY <1>2, <1>4, PullStep
<1>5. ASSUME NEW c \in Tabs, Push(c) PROVE SyncInv' /\ ClearedStep
  BY <1>2, <1>5, PushStep
<1>6. ASSUME NEW c \in Tabs, Publish(c) PROVE SyncInv' /\ ClearedStep
  BY <1>2, <1>6, PublishStep
<1>7. ASSUME NEW c \in Tabs, Lift(c) PROVE SyncInv' /\ ClearedStep
  BY <1>2, <1>7, LiftStep
<1>8. ASSUME NEW c \in Tabs, NEW e \in ElementIds, Sketch(c, e) PROVE SyncInv' /\ ClearedStep
  BY <1>2, <1>8, SketchStep
<1>9. ASSUME NEW c \in Tabs, NEW e \in ElementIds, Erase(c, e) PROVE SyncInv' /\ ClearedStep
  BY <1>2, <1>9, EraseStep
<1>10. CASE Clear \/ PruneDoc
  BY <1>2, <1>10, ServerSteps
<1>11. CASE SaveRow \/ UNCHANGED syncVars
  BY <1>2, <1>11, QuietSteps
<1> QED BY <1>1, <1>3, <1>4, <1>5, <1>6, <1>7, <1>8, <1>9, <1>10, <1>11 DEF SyncNext

\* Every reachable state of the board's tabs and documents is well formed: the
\* logs close under what their writers knew, and every editor's baseline and scene
\* agree with its own document but for twins (SyncInv; yjsDoc.ts and the editor).
THEOREM SyncInvariant == SyncSpec => []SyncInv
<1>1. SyncInv /\ [SyncNext]_syncVars => SyncInv'
  BY NextKeeps
<1> QED BY <1>1, InitKeeps, PTL DEF SyncSpec

LEMMA AgreeWhenSettled == ASSUME SyncInv PROVE SettledBoardsAgree
<1>1. SUFFICES ASSUME Resting, NEW c \in Present, NEW e \in ElementIds, Whole(e)
               PROVE  Shown(scene[c], e) = Shown(Remote(Room), e)
  BY DEF SettledBoardsAgree
<1>2. c \in Tabs /\ held[c] = held[Server] /\ ~Due(base[c], scene[c])
  BY <1>1 DEF Present, Resting
<1> DEFINE W == Writes(log, held[c])
<1>3. /\ rank \in [Writers -> Int] /\ LogOK(log) /\ DocOK(log, held[c])
      /\ EditorOK(log, scene[c], base[c], sent[c], met[c])
      /\ SaysPublished(W, scene[c], base[c]) /\ ShowsAll(W, scene[c])
  BY <1>2, TabDoc
<1>4. Room = W
  BY <1>2 DEF Room
<1> HIDE DEF W
<1>5. AtMostOne(Entries(W, e))
  <2>1. IsFiniteSet(W)
    BY <1>3, WritesFinite DEF DocOK, W
  <2>2. IsFiniteSet(Entries(W, e))
    BY <2>1, EntriesFinite
  <2>3. Cardinality(Entries(W, e)) <= 1
    BY <1>1, <1>4 DEF Whole
  <2>4. SUFFICES ASSUME NEW x \in Entries(W, e), NEW y \in Entries(W, e), x # y PROVE FALSE
    BY DEF AtMostOne
  <2>5. Cardinality({x}) = 1 /\ IsFiniteSet({x}) /\ Cardinality({x, y}) = 2
    <3>1. Cardinality({x}) = 1 /\ IsFiniteSet({x})
      BY FS_Singleton
    <3>2. Cardinality({x} \union {y}) = Cardinality({x}) + 1
      <4>1. y \notin {x}
        BY <2>4
      <4> QED BY <3>1, <4>1, FS_AddElement
    <3>3. {x} \union {y} = {x, y}
      OBVIOUS
    <3> QED BY <3>1, <3>2, <3>3
  <2>6. {x, y} \subseteq Entries(W, e)
    OBVIOUS
  <2>7. Cardinality({x, y}) <= Cardinality(Entries(W, e)) /\ Cardinality(Entries(W, e)) \in Nat
    BY <2>2, <2>6, FS_Subset, FS_CardinalityType
  <2> QED BY <2>3, <2>5, <2>7
<1>6. \A x \in DOMAIN scene[c] : x \in DOMAIN base[c] /\ base[c][x] = scene[c][x].version
  BY <1>2 DEF Due, Changed
<1>7. /\ \A t \in Scenes : DOMAIN Visible(t) = {x \in DOMAIN t : ~t[x].erased}
      /\ scene[c] \in Scenes /\ Remote(W) \in Scenes
  <2>1. Remote(W) \in Scenes
    BY <1>3, RemoteIsScene DEF W
  <2> QED BY <2>1, <1>3, SceneParts DEF EditorOK
<1>8. ASSUME e \in DOMAIN Visible(scene[c])
      PROVE  e \in DOMAIN Visible(Remote(W)) /\ Remote(W)[e] = scene[c][e]
  <2>1. e \in DOMAIN scene[c] /\ ~scene[c][e].erased
    BY <1>7, <1>8
  <2>2. e \in DOMAIN Remote(W) /\ Remote(W)[e] = scene[c][e]
    BY <2>1, <1>3, <1>5, <1>6 DEF SaysPublished
  <2> QED BY <2>1, <2>2, <1>7
<1>9. ASSUME e \in DOMAIN Visible(Remote(W)) PROVE e \in DOMAIN Visible(scene[c])
  <2>1. e \in DOMAIN Remote(W) /\ ~Remote(W)[e].erased
    BY <1>7, <1>9
  <2>2. e \in DOMAIN scene[c] /\ ~scene[c][e].erased
    BY <2>1, <1>3, <1>5 DEF ShowsAll
  <2> QED BY <2>2, <1>7
<1> QED BY <1>4, <1>8, <1>9 DEF Shown

\* Once nothing is under way every tab in the room shows what the room object's
\* document holds, whichever of two edits of one version Yjs and the editors kept
\* (adoptVersionBaseline, diffScene); elements with a twin left are excepted.
THEOREM SettledBoards == SyncSpec => []SettledBoardsAgree
BY SyncInvariant, AgreeWhenSettled, PTL

\* An editor never creates anew, with something to show, an element the room once
\* showed it: a cleared board stays cleared, an erased element erased, unless the
\* row read at the door is put in late (seenRemoteIdsRef, elementsToPublish).
THEOREM ClearedBoards == SyncSpec => ClearedStaysCleared
<1>1. SyncInv /\ [SyncNext]_syncVars =>
        \A c \in Tabs : pending'[c] = pending[c] =>
            \A w \in NewWrites(c) : w.kind = "new" /\ ~w.val.erased => w.id \notin met[c]
  BY NextKeeps DEF ClearedStep
<1> QED BY <1>1, SyncInvariant, PTL DEF SyncSpec, ClearedStaysCleared

=============================================================================
