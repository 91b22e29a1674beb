------------------------------ MODULE PagedDocs ------------------------------
(* PDFs on the board: the owner's tab turns dropped files into stacks of page *)
(* images (RoomClient.tsx, lib/documents/), every tab stamps what is drawn    *)
(* over a stack with the page that shows (lib/documents/pagedDocuments.ts),   *)
(* and the room object takes in what anybody but the owner does to a page and *)
(* undoes it with writes of its own (lib/whiteboard/documentPageGuard.ts).    *)
(* Geometry is abstracted to a place, an element to its version, its author   *)
(* and its stamps.  An element of a document is the value of a Y.Map: a write *)
(* names the map it is made to and what it is made over; of two concurrent    *)
(* writes to one map either may win (Yjs client ids), and a write to a map    *)
(* that was deleted is lost.                                                  *)
EXTENDS Integers, Sequences, FiniteSets, Functions, SequencesExt

CONSTANTS
    Owner,      \* the owner's tab
    Editors,    \* tabs of admitted editors: numbers, like Owner
    Files,      \* the PDFs the owner may drop, each once
    Length,     \* file -> how many pages it has
    Long,       \* the files of more pages than one import may have
    Shapes,     \* ids of the other elements that may be drawn or copied
    MaxEdits,   \* bound: edits, copies and page turns over all the tabs
    MaxFrames   \* bound: frames of a tab under way when it publishes once more

ASSUME TabsAssumption == Owner \in Nat /\ Editors \subseteq Nat /\ Owner \notin Editors
ASSUME LengthAssumption == Length \in [Files -> Nat \ {0}] /\ Long \subseteq Files
ASSUME EditsAssumption == MaxEdits \in Nat /\ MaxFrames \in Nat

Tabs == {Owner} \union Editors
Index(f) == 1 .. Length[f]
Pages == UNION {{f} \X Index(f) : f \in Files}
NoPage == <<>>
ASSUME IdsAreUnlike == Shapes \intersect Pages = {}
Ids == Pages \union Shapes
Absent == [v |-> 0, by |-> Owner, gone |-> TRUE, at |-> 0, page |-> NoPage, on |-> NoPage]
\* How the entry a tab writes to stands to the room's: the same; written to by
\* others since the tab took it in; written or taken away by the guard, which the
\* tab is not told; written to by others whose writes win; another one, or none.
Links == {"same", "written", "undone", "losing", "cut"}

VARIABLES
    dropped,  \* the files dropped so far
    queue,    \* pdfQueueRef
    stage,    \* where processPdfQueue stands with the head of the queue
    thrown,   \* files whose first page an exception met
    left,     \* how many of its pages are still to be rendered
    cancel,   \* pdfCancelRef
    room,     \* the room's document: element id -> element
    view,     \* tab -> its Y.Doc
    out,      \* tab -> its frames on the way to the room
    link,     \* tab -> element id -> how its entry stands to the room's
    scene,    \* tab -> what its editor holds, erased elements included
    base,     \* tab -> element -> version last published
    shows,    \* tab -> file -> the page its page state names
    drag,     \* the files the owner is dragging: none or one
    will,     \* history: page -> what the owner last wanted of it
    beaten,   \* history: pages of which a write of the owner's was lost since
    twinned,  \* history: ids of which a second Y.Map was made, and stayed
    edits

import == <<dropped, queue, stage, thrown, left, cancel>>
boards == <<room, view, out, link, scene, base>>
noted == <<will, beaten, twinned>>
pagedVars == <<import, boards, shows, drag, noted, edits>>

At(d, e) == IF e \in DOMAIN d THEN d[e] ELSE Absent
Overlay(w, d) ==
    [e \in DOMAIN w \union DOMAIN d |-> IF e \in DOMAIN w THEN w[e] ELSE d[e]]
Put(d, w) ==
    LET all == Overlay(w, d) IN Restrict(all, {e \in DOMAIN all : all[e] # Absent})
One(e, x) == [y \in {e} |-> x]

-----------------------------------------------------------------------------
(* Stacked documents, as a scene shows them (pagedDocuments.ts) *)

Standing(s) == {e \in DOMAIN s : ~s[e].gone}
LivePages(s, f) == {i \in Index(f) : \E e \in Standing(s) : s[e].page = <<f, i>>}
Stacked(s) == {f \in Files : LivePages(s, f) # {}}

\* What the owner may want of a page: a place for it, or one of these.
Never == -1
Gone == -2

Apart(i, j) == IF i < j THEN j - i ELSE i - j
\* showingIndex: the stored page, or the nearest one that is left, the lower of
\* two.
Showing(s, f, stored) ==
    CHOOSE i \in LivePages(s, f) : \A j \in LivePages(s, f) :
        \/ Apart(i, stored) < Apart(j, stored)
        \/ Apart(i, stored) = Apart(j, stored) /\ i <= j

Stamp(s, f, stored) == <<f, Showing(s, f, stored)>>

\* The page an element is, or lies on.
Mark(x) == IF x.page # NoPage THEN x.page ELSE x.on

\* isHidden.
Hidden(s, e, t) ==
    LET mark == Mark(s[e]) IN
    /\ mark # NoPage /\ mark[1] \in Stacked(s)
    /\ Showing(s, mark[1], shows[t][mark[1]]) # mark[2]

\* elementsToMove, elementsToRemove: the live pages of f and what is on them.
Carried(s, f) == {e \in Standing(s) : Mark(s[e]) # NoPage /\ Mark(s[e])[1] = f}

-----------------------------------------------------------------------------
(* The guard (documentPageGuard.ts) *)

\* decideChangedElement and applyPageGuardDecision, for what a frame left as new
\* in place of old: a page is written back as it was, a page that was deleted is
\* put in again, a new page is taken away, a page stamp on a shape is undone.
\* Mutants: an element that was a page is put back only if it still exists; new
\* pages stay.
Undone(old, new) ==
    IF new.page # old.page THEN [new EXCEPT !.page = old.page, !.on = old.on] ELSE new
Guarded_KeepsNew(old, new) ==
    IF old.page # NoPage THEN old ELSE IF old = Absent THEN new ELSE Undone(old, new)
Guarded_NoReinsert(old, new) ==
    IF new = Absent THEN new
    ELSE IF old.page # NoPage THEN old
    ELSE IF old = Absent THEN IF new.page # NoPage THEN Absent ELSE new
    ELSE Undone(old, new)
Guarded(old, new) ==
    IF old.page # NoPage THEN old
    ELSE IF new = Absent THEN new
    ELSE IF old = Absent THEN IF new.page # NoPage THEN Absent ELSE new
    ELSE Undone(old, new)

-----------------------------------------------------------------------------
(* Writes.  A frame gives for an id what it puts there, Absent to delete the  *)
(* entry, and whether it makes an entry or writes to the one there is.        *)

Sets(u) == ~u.makes /\ u.el # Absent

Astray(t, e, u) == ~u.makes /\ (link[t][e] = "cut" \/ e \notin DOMAIN room)
\* The room's entry was written to since: either may win.
Contested(t, w) ==
    {e \in DOMAIN w : Sets(w[e]) /\ ~Astray(t, e, w[e]) /\ link[t][e] \in {"written", "undone"}}
Losing(t, w) == {e \in DOMAIN w : Sets(w[e]) /\ link[t][e] = "losing"}
Doubled(w) == {e \in DOMAIN w : w[e].makes /\ e \in DOMAIN room}

\* webSocketMessage for a sync frame of tab t, of which the writes in won are
\* not lost: the guard compares what each id showed before with what it shows
\* now.  Where a page has two entries it may take the one for the other: what it
\* does then is left out.
Applied(t, won) ==
    Put(room, [e \in DOMAIN won |->
        IF t = Owner \/ (e \in Doubled(won) /\ room[e].page # NoPage) THEN won[e].el
        ELSE Guarded(At(room, e), won[e].el)])

\* How the entries of tab c stand to the room's after that; lost writes lose on.
Relinked(c, t, won, lost, first, after) ==
    [e \in Ids |->
        IF c = t /\ e \in first THEN "cut"
        ELSE IF e \in DOMAIN won
        THEN IF c = t THEN IF At(after, e) = won[e].el THEN "same" ELSE "undone"
             ELSE IF ~Sets(won[e]) THEN "cut"
             ELSE IF link[c][e] = "same" THEN "written" ELSE link[c][e]
        ELSE IF c = t /\ e \in lost THEN "losing" ELSE link[c][e]]

-----------------------------------------------------------------------------
(* Publishing and reconciling, as in BoardSync *)

Changed(b, s) == {e \in DOMAIN s : e \notin DOMAIN b \/ b[e] # s[e].v}

\* replaceSharedElements: the frame that brings tab t's Y.Doc to s for the ids in
\* changed and deletes those in swept.
Frame(t, s, changed, swept) ==
    [e \in {x \in changed : At(view[t], x) # s[x]} \union (swept \intersect DOMAIN view[t]) |->
        [makes |-> e \notin DOMAIN view[t], el |-> IF e \in swept THEN Absent ELSE s[e]]]

\* Tab t's editor sends the frame w and takes s for published.
SendsFrame(t, w, s) ==
    /\ base' = [base EXCEPT ![t] = [e \in DOMAIN s |-> s[e].v]]
    /\ view' = [view EXCEPT ![t] = Put(@, [e \in DOMAIN w |-> w[e].el])]
    /\ out' = IF DOMAIN w = {} THEN out ELSE [out EXCEPT ![t] = Append(@, w)]
    /\ UNCHANGED <<room, link>>

\* Tab t's editor holds s and publishes what it has not published yet.
Commit(t, s) ==
    /\ scene' = [scene EXCEPT ![t] = s]
    /\ SendsFrame(t, Frame(t, s, Changed(base[t], s), {}), s)

Keeps(mine, theirs) ==
    \/ mine.v > theirs.v
    \/ mine.v = theirs.v /\ mine.by <= theirs.by
Visible(s) == Restrict(s, Standing(s))
Reconciled(mine, remote) ==
    [e \in DOMAIN remote |->
        IF e \in DOMAIN mine /\ Keeps(mine[e], remote[e]) THEN mine[e] ELSE remote[e]]
Adopted(s, remote) ==
    [e \in DOMAIN s |->
        IF s[e] # remote[e] /\ s[e].v = remote[e].v THEN s[e].v - 1 ELSE remote[e].v]

\* What reconciling left to publish goes out with the next onChange.
Publish(t) ==
    /\ Changed(base[t], scene[t]) # {} /\ Len(out[t]) < MaxFrames
    /\ Commit(t, scene[t])
    /\ UNCHANGED <<import, shows, drag, noted, edits>>

\* A throttled call in the middle of a stroke publishes the scene without its
\* tombstones, and what was published and is not in it is swept.
PublishStroke(t) ==
    LET s == Visible(scene[t])
        swept == DOMAIN base[t] \ DOMAIN s
    IN /\ swept # {}
       /\ edits < MaxEdits /\ edits' = edits + 1
       /\ SendsFrame(t, Frame(t, s, DOMAIN s, swept), s)
       /\ UNCHANGED <<import, scene, shows, drag, noted>>

\* Those of ids whose page stands in the room though the owner wrote otherwise.
Beats(t, ids) == IF t = Owner THEN {e \in ids : e \in DOMAIN room /\ ~room[e].gone} ELSE {}

\* The room takes in tab t's next frame: of its writes lost lose to the room's,
\* of an entry made twice the older stays for the ids in first.
Push(t) ==
    /\ out[t] # <<>>
    /\ LET w == Head(out[t])
           astray == {e \in DOMAIN w : Astray(t, e, w[e])} IN
       \E some \in SUBSET Contested(t, w), first \in SUBSET Doubled(w) :
        LET lost == some \union Losing(t, w)
            won == Restrict(w, DOMAIN w \ (lost \union astray \union first))
        IN /\ room' = Applied(t, won)
           /\ link' = [c \in Tabs |-> Relinked(c, t, won, lost, first, room')]
           /\ beaten' = beaten \union Beats(t, lost \union astray)
           /\ twinned' = twinned \union (IF t = Owner THEN Doubled(w) ELSE Doubled(won))
    /\ out' = [out EXCEPT ![t] = Tail(@)]
    /\ UNCHANGED <<import, view, scene, base, shows, drag, will, edits>>

\* What tab t still has to send: the ids, its first and its last write to e.
Waiting(q) == UNION {DOMAIN q[i] : i \in DOMAIN q}
FirstOf(q, e) ==
    CHOOSE i \in DOMAIN q : e \in DOMAIN q[i] /\ \A j \in DOMAIN q : j < i => e \notin DOMAIN q[j]
LastOf(q, e) ==
    CHOOSE i \in DOMAIN q : e \in DOMAIN q[i] /\ \A j \in DOMAIN q : j > i => e \notin DOMAIN q[j]

\* The writes of q to the entries the room has: those before tab t makes another.
Early(q, i, e) == \A j \in 1 .. i : e \in DOMAIN q[j] => ~q[j][e].makes
\* Where these meet the room's, either may win.
Disputed(t, q, told) ==
    {e \in Waiting(q) \intersect told : link[t][e] \in {"written", "undone"} /\
        LET u == q[FirstOf(q, e)][e] IN Sets(u) /\ ~Astray(t, e, u)}
\* What is left of q when tab t took in the ids in told: the writes to entries
\* that are no more go, and those that lost.
Met(t, q, told, lost) ==
    LET stays(i, e) == \/ e \notin told \/ ~Early(q, i, e)
                       \/ /\ ~Astray(t, e, q[i][e])
                          /\ Sets(q[i][e]) => e \notin lost /\ link[t][e] # "losing"
    IN [i \in DOMAIN q |-> Restrict(q[i], {e \in DOMAIN q[i] : stays(i, e)})]

\* The room's document as tab t sees it under what waits in q.
Merged(t, q, told) ==
    Put([e \in DOMAIN view[t] \ told |-> view[t][e]],
        [e \in told |-> IF e \in Waiting(q) THEN q[LastOf(q, e)][e].el ELSE At(room, e)])

\* The relayed diffs, or the sync a reconnecting tab asks for.  A tab is not
\* relayed what the guard made of its own frames.
Tellings(t) == {Ids, {e \in Ids : link[t][e] # "undone"}}
Pull(t, told) ==
    /\ \E lost \in SUBSET Disputed(t, out[t], told) :
        LET q == Met(t, out[t], told, lost)
            d == Merged(t, q, told)
            s == Reconciled(Visible(scene[t]), d)
            linked == [e \in Ids |-> IF e \in told THEN "same" ELSE link[t][e]]
        IN /\ <<d, q, linked>> # <<view[t], out[t], link[t]>>
           /\ view' = [view EXCEPT ![t] = d]
           /\ out' = [out EXCEPT ![t] = q]
           /\ link' = [link EXCEPT ![t] = linked]
           /\ scene' = [scene EXCEPT ![t] = s]
           /\ base' = [base EXCEPT ![t] = Adopted(s, d)]
           /\ beaten' = beaten \union Beats(t, Waiting(out[t]) \ Waiting(q))
    /\ UNCHANGED <<import, room, shows, drag, will, twinned, edits>>

-----------------------------------------------------------------------------
(* Editing the board *)

Edit == edits < MaxEdits /\ edits' = edits + 1

\* bumpVersion: tab t changes element x.
Bumped(x, t) == [x EXCEPT !.v = @ + 1, !.by = t]
\* What the owner's scene s now wants of the pages in ids.
Wills(s, ids) ==
    [p \in {s[e].page : e \in ids} \ {NoPage} |->
        LET e == CHOOSE x \in ids : s[x].page = p IN IF s[e].gone THEN Gone ELSE s[e].at]
Decides(s, ids) ==
    /\ will' = Overlay(Wills(s, ids), will)
    /\ beaten' = beaten \ DOMAIN Wills(s, ids)
    /\ UNCHANGED twinned

\* A finished stroke: stamped at once if it lies on a document.
Draw(t, e) ==
    /\ Edit
    /\ \A c \in Tabs : e \notin DOMAIN scene[c] \union DOMAIN view[c]
    /\ e \notin DOMAIN room
    /\ \E f \in Stacked(scene[t]) :
        LET new == [v |-> 2, by |-> t, gone |-> FALSE, at |-> 0, page |-> NoPage,
                    on |-> Stamp(scene[t], f, shows[t][f])]
        IN Commit(t, Overlay(One(e, new), scene[t]))
    /\ UNCHANGED <<import, shows, drag, noted>>

\* A page is unlocked and erased by hand, by whoever it is shown to.
Erase(t, e) ==
    /\ Edit
    /\ e \in Standing(scene[t]) /\ scene[t][e].page # NoPage /\ ~Hidden(scene[t], e, t)
    /\ LET s == [scene[t] EXCEPT ![e] = [Bumped(@, t) EXCEPT !.gone = TRUE]] IN
       /\ Commit(t, s)
       /\ IF t = Owner THEN Decides(s, {e}) ELSE UNCHANGED noted
    /\ UNCHANGED <<import, shows, drag>>

\* A page is copied: the copy carries the page's stamp.
Copy(t, e, p) ==
    /\ t # Owner /\ Edit
    /\ \A c \in Tabs : e \notin DOMAIN scene[c] \union DOMAIN view[c]
    /\ e \notin DOMAIN room
    /\ p \in Standing(scene[t]) /\ scene[t][p].page # NoPage /\ ~Hidden(scene[t], p, t)
    /\ Commit(t, Overlay(One(e, [scene[t][p] EXCEPT !.v = 1, !.by = t]), scene[t]))
    /\ UNCHANGED <<import, shows, drag, noted>>

\* The grip holds one document until it is let go.
Gripped(f) == drag \subseteq {f} /\ f \in Stacked(scene[Owner])

\* handleMoveDocumentBy: the scene follows the pointer, versions as they were.
MoveBy(f) ==
    /\ Edit
    /\ Gripped(f)
    /\ drag' = {f}
    /\ LET s == [e \in DOMAIN scene[Owner] |->
                    IF e \in Carried(scene[Owner], f)
                    THEN [scene[Owner][e] EXCEPT !.at = 1 - @] ELSE scene[Owner][e]]
       IN scene' = [scene EXCEPT ![Owner] = s]
    /\ UNCHANGED <<import, room, view, out, link, base, shows, noted>>

\* handleMoveDocumentEnd; a keyboard nudge is MoveBy and MoveEnd at once.
MoveEnd(f) ==
    /\ f \in drag /\ drag' = {}
    /\ LET ids == Carried(scene[Owner], f)
           s == [e \in DOMAIN scene[Owner] |->
                    IF e \in ids THEN Bumped(scene[Owner][e], Owner) ELSE scene[Owner][e]]
       IN Commit(Owner, s) /\ Decides(s, ids)
    /\ UNCHANGED <<import, shows, edits>>

\* handleRemoveDocument.
RemoveDocument(f) ==
    /\ Edit
    /\ drag = {} /\ f \in Stacked(scene[Owner])
    /\ LET ids == Carried(scene[Owner], f)
           s == [e \in DOMAIN scene[Owner] |->
                    IF e \in ids THEN [Bumped(scene[Owner][e], Owner) EXCEPT !.gone = TRUE]
                    ELSE scene[Owner][e]]
       IN Commit(Owner, s) /\ Decides(s, ids)
    /\ UNCHANGED <<import, shows, drag>>

\* The pager's two buttons.
Beside(f) ==
    LET now == Showing(scene[Owner], f, shows[Owner][f])
    IN {now - 1, now + 1} \intersect Index(f)
\* The owner turns to a neighbouring page; the frame comes to the others later.
TurnPage(f) ==
    /\ Edit
    /\ f \in Stacked(scene[Owner])
    /\ \E i \in Beside(f) : shows' = [shows EXCEPT ![Owner][f] = i]
    /\ UNCHANGED <<import, boards, drag, noted>>
TurnArrives(t, f) ==
    /\ shows[t][f] # shows[Owner][f]
    /\ shows' = [shows EXCEPT ![t][f] = shows[Owner][f]]
    /\ UNCHANGED <<import, boards, drag, noted, edits>>

-----------------------------------------------------------------------------
(* Importing a PDF (processPdfQueue) *)

\* The next document of the queue is opened, its cancel forgotten.
\* Mutant: the drain ends after one document.
NextItem_One(q) ==
    /\ queue' = q
    /\ stage' = IF stage = "idle" THEN "opening" ELSE "idle"
    /\ cancel' = FALSE
    /\ left' = 0
NextItem(q) ==
    /\ queue' = q
    /\ stage' = IF q = <<>> THEN "idle" ELSE "opening"
    /\ cancel' = IF q = <<>> THEN cancel ELSE FALSE
    /\ left' = 0
Finished == NextItem(Tail(queue)) /\ UNCHANGED <<dropped, thrown>>
Still == UNCHANGED <<boards, shows, drag, noted, edits>>

\* takePdfsFromFiles: files are queued; a drain that is under way will reach
\* them, else one starts at the head, which may be one an exception left.
\* An editor's drop is refused and leaves no trace.
Drop(fs) ==
    /\ fs # <<>> /\ IsInjective(fs) /\ Range(fs) \intersect dropped = {}
    /\ dropped' = dropped \union Range(fs)
    /\ IF stage = "idle" THEN NextItem(queue \o fs)
       ELSE queue' = queue \o fs /\ UNCHANGED <<stage, left, cancel>>
    /\ UNCHANGED thrown /\ Still

\* openPdf: a locked or broken file is told of and left out.
OpenFails == stage = "opening" /\ Finished /\ Still
Opened ==
    /\ stage = "opening"
    /\ stage' = IF Head(queue) \in Long THEN "asking" ELSE "placing"
    /\ UNCHANGED <<dropped, queue, thrown, left, cancel>> /\ Still

\* The owner chooses pages of a long document, or gives it up.
Chosen ==
    /\ stage = "asking" /\ stage' = "placing"
    /\ UNCHANGED <<dropped, queue, thrown, left, cancel>> /\ Still
Declined == stage = "asking" /\ Finished /\ Still

\* The first page gives the place; an exception here ends the drain with the
\* file still at its head.
Placed ==
    /\ stage = "placing"
    /\ stage' = "rendering" /\ left' = Length[Head(queue)]
    /\ UNCHANGED <<dropped, queue, thrown, cancel>> /\ Still
Thrown ==
    /\ stage = "placing"
    /\ stage' = "idle" /\ thrown' = thrown \union {Head(queue)}
    /\ UNCHANGED <<dropped, queue, left, cancel>> /\ Still

\* One page is rendered, unless the import was cancelled, or it cannot be.
Render ==
    /\ stage = "rendering" /\ ~cancel /\ left > 0
    /\ left' = left - 1
    /\ UNCHANGED <<dropped, queue, stage, thrown, cancel>> /\ Still
PageFails == stage = "rendering" /\ ~cancel /\ left > 0 /\ Finished /\ Still
Stops == cancel
Cancelled == stage = "rendering" /\ Stops /\ Finished /\ Still
Rendered ==
    /\ stage = "rendering" /\ ~Stops /\ left = 0
    /\ stage' = "measuring"
    /\ UNCHANGED <<dropped, queue, thrown, left, cancel>> /\ Still

\* importTooLargeMessage, on what readRoomStorage answers.
TooLarge == stage = "measuring" /\ Finished /\ Still

\* insertPages: the whole import in one update.
Insert ==
    /\ stage = "measuring"
    /\ LET f == Head(queue)
           new == [p \in {f} \X Index(f) |-> [v |-> 1, by |-> Owner, gone |-> FALSE,
                        at |-> 0, page |-> p, on |-> NoPage]]
       IN Commit(Owner, Overlay(new, scene[Owner])) /\ Decides(new, DOMAIN new)
    /\ Finished
    /\ UNCHANGED <<shows, drag, edits>>

\* The Cancel button beside the progress line.
Cancel ==
    /\ stage \in {"rendering", "measuring"} /\ ~cancel
    /\ cancel' = TRUE
    /\ UNCHANGED <<dropped, queue, stage, thrown, left>> /\ Still

-----------------------------------------------------------------------------

PagedInit ==
    /\ dropped = {} /\ queue = <<>> /\ stage = "idle" /\ thrown = {} /\ left = 0
    /\ cancel = FALSE
    /\ room = [e \in {} |-> Absent]
    /\ view = [t \in Tabs |-> room] /\ scene = view
    /\ link = [t \in Tabs |-> [e \in Ids |-> "same"]]
    /\ out = [t \in Tabs |-> <<>>]
    /\ base = [t \in Tabs |-> [e \in {} |-> 0]]
    /\ shows = [t \in Tabs |-> [f \in Files |-> 1]]
    /\ drag = {} /\ edits = 0
    /\ will = [p \in Pages |-> Never] /\ beaten = {} /\ twinned = {}

Drain ==
    \/ OpenFails \/ Opened \/ Chosen \/ Declined \/ Placed \/ Thrown \/ Render
    \/ PageFails \/ Cancelled \/ Rendered \/ TooLarge \/ Insert

PagedNext ==
    \/ Drain \/ Cancel
    \/ \E fs \in SeqOf(Files, Cardinality(Files)) : Drop(fs)
    \/ \E t \in Tabs :
        \/ Publish(t) \/ PublishStroke(t) \/ Push(t)
        \/ \E told \in Tellings(t) : Pull(t, told)
        \/ \E e \in DOMAIN scene[t] : Erase(t, e)
        \/ \E e \in Shapes : Draw(t, e) \/ \E p \in DOMAIN scene[t] : Copy(t, e, p)
        \/ \E f \in Files : TurnArrives(t, f)
    \/ \E f \in Files : MoveBy(f) \/ MoveEnd(f) \/ RemoveDocument(f) \/ TurnPage(f)

PagedSpec == PagedInit /\ [][PagedNext]_pagedVars
\* Reads, renders and answers come, and the owner answers the question of a
\* long document.
FairPagedSpec == PagedSpec /\ WF_pagedVars(Drain)

-----------------------------------------------------------------------------

\* Whatever an editor's tab does to pages and in whatever order its frames meet
\* the owner's, a page in the room is as the owner made it, and no page is there
\* that the owner did not make (spec section 7, documentPageGuard); but where a
\* second entry was made for a page's id the guard may have taken the first for it.
PagesAreTheOwners ==
    \A e \in DOMAIN room \ twinned :
        room[e].page # NoPage => room[e].by = Owner /\ e \in Pages

\* The owner's tab has nothing to send and nothing to take in.
AtRest == /\ out[Owner] = <<>> /\ view[Owner] = room /\ drag = {}
          /\ Changed(base[Owner], scene[Owner]) = {}

\* What the owner last did to a page is what the room comes to: an import stays
\* whole and where it was put, even if an editor's refused change or its sweep of
\* erased elements came between and beat the owner's write, and a document that
\* was removed stays away unless the removal itself was beaten.
OwnerPrevails ==
    AtRest => \A p \in Pages \ twinned :
        IF will[p] = Gone THEN p \in beaten \/ p \notin Standing(room)
        ELSE will[p] # Never => p \in Standing(room) /\ room[p].at = will[p]

\* Every dropped file is dealt with: put on the board, refused or given up. Not
\* so behind one whose first page cannot be read, which stays at the head.
DropsSettle ==
    \A f \in Files : f \in Range(queue) ~>
        f \notin Range(queue) \/ thrown \intersect Range(queue) # {}

=============================================================================
