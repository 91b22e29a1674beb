----------------------------- MODULE BoardSync -----------------------------
(* A board being drawn by several tabs: every tab keeps an Excalidraw scene  *)
(* and a Y.Doc, the room object keeps a Y.Doc and, behind it, a stored row;  *)
(* lib/whiteboard/yjsDoc.ts, scenePublish.ts, excalidrawSyncCore.ts and      *)
(* components/whiteboard/ExcalidrawWrapper.tsx move strokes between them.    *)
(* A Y.Doc is the prefixes it holds of the writers' logs (its state vector); *)
(* the link delivers late, never out of order. A stroke's points, colour and *)
(* place are abstracted to its version and the tab that made it.             *)
EXTENDS Integers, Sequences, FiniteSets, Functions, SequencesExt

CONSTANTS
    Tabs,       \* browser tabs, each opening the room once: positive numbers
    ElementIds, \* element ids
    Here,       \* the tabs that are already in the room
    Ranks,      \* the orders of Yjs client ids: each a function from Writers
    MaxActs     \* bound: elements held at first, local edits over all the tabs,
                \* boards cleared by the owner and tabs closed, together

ASSUME TabsAssumption == Tabs \subseteq Nat \ {0} /\ IsFiniteSet(Tabs)
ASSUME IdsAssumption == IsFiniteSet(ElementIds)

Server == 0
Writers == Tabs \union {Server}

ASSUME RanksAssumption == Ranks \subseteq [Writers -> Int]

VARIABLES
    log,      \* writer -> what it wrote, in order
    held,     \* writer -> writer -> how much of that log its Y.Doc holds
    rank,     \* writer -> its place in the order of Yjs client ids
    row,      \* rooms.elements: the scene GET /room answers with
    tab,      \* tab -> "away", "prompt" (row read, not joined), "in", "gone"
    pending,  \* tab -> the row it read and has not put in its Y.Doc yet
    scene,    \* tab -> what its editor holds, erased elements included
    base,     \* tab -> element -> version last published (publishedVersionsRef)
    sent,     \* tab -> the ids of its last publish (lastPublishedIdsRef)
    met,      \* tab -> every id the room ever showed it (seenRemoteIdsRef)
    down,     \* tab -> is the pointer down
    acts

board == <<log, held, rank>>
editor == <<scene, base, sent, met>>
syncVars == <<board, row, tab, pending, editor, down, acts>>

-----------------------------------------------------------------------------
(* Y.Doc *)

Empty == [e \in {} |-> 0]
NoDoc == [a \in Writers |-> 0]
Joined(v, w) == [a \in Writers |-> IF v[a] > w[a] THEN v[a] ELSE w[a]]

\* The writes a document with state vector v holds.
Writes(l, v) == UNION {{l[a][i] : i \in 1 .. v[a]} : a \in Writers}

\* Entries of the elements array for one id: created and not deleted.
Entries(W, e) ==
    {w.entry : w \in {x \in W : x.kind = "new" /\ x.id = e}}
        \ {w.entry : w \in {x \in W : x.kind = "delete"}}

\* Of an entry's writes, those no other one was made after; the highest client
\* id wins among them (Y.Map).
Value(W, entry) ==
    LET puts == {w \in W : w.entry = entry /\ w.kind # "delete"}
        last == {w \in puts : \A x \in puts : x # w => x.past[w.by] < w.n}
    IN (CHOOSE w \in last : \A x \in last : rank[x.by] <= rank[w.by]).val

\* Twins stand in the array in the order of their creators' client ids.
FirstOf(entries) == CHOOSE x \in entries : \A y \in entries : rank[x[1]] <= rank[y[1]]
LastOf(entries) == CHOOSE x \in entries : \A y \in entries : rank[y[1]] <= rank[x[1]]

\* getElementsFromArray, by id; a twin that comes later is shadowed.
Remote(W) ==
    [e \in {x \in ElementIds : Entries(W, x) # {}} |-> Value(W, FirstOf(Entries(W, e)))]
Visible(s) == Restrict(s, {e \in DOMAIN s : ~s[e].erased})

\* One transaction: writer a appends the changes ws to its log and holds them.
Stamped(l, v, a, ws) ==
    [i \in 1 .. Len(ws) |->
        LET n == Len(l[a]) + i IN
        [by |-> a, n |-> n, past |-> v, kind |-> ws[i].kind, id |-> ws[i].id,
         entry |-> IF ws[i].kind = "new" THEN <<a, n>> ELSE ws[i].entry,
         val |-> ws[i].val]]
Appended(l, v, a, ws) == [l EXCEPT ![a] = @ \o Stamped(l, v, a, ws)]
Held(v, a, ws) == [v EXCEPT ![a] = @ + Len(ws)]

Change(kind, e, entry, val) == [kind |-> kind, id |-> e, entry |-> entry, val |-> val]
NoVal == [version |-> 0, by |-> Server, erased |-> TRUE]

\* replaceSharedElements: upsert the elements of s by id; of the ids in swept,
\* delete the entries s does not have.
Replacing(W, s, swept) ==
    LET fresh == {e \in DOMAIN s : Entries(W, e) = {}}
        moved == {e \in DOMAIN s \ fresh : Value(W, LastOf(Entries(W, e))) # s[e]}
        stale == UNION {{<<e, x>> : x \in Entries(W, e)} : e \in swept \ DOMAIN s}
    IN SetToSeq({Change("new", e, <<>>, s[e]) : e \in fresh}
        \union {Change("set", e, LastOf(Entries(W, e)), s[e]) : e \in moved}
        \union {Change("delete", p[1], p[2], NoVal) : p \in stale})

LiveEntries(W, e) == {x \in Entries(W, e) : ~Value(W, x).erased}
Twins(W) ==
    SetToSeq(UNION {{Change("delete", e, x, NoVal) :
        x \in {y \in LiveEntries(W, e) : y # FirstOf(LiveEntries(W, e))}} : e \in ElementIds})

-----------------------------------------------------------------------------
(* The editor takes in a remote scene *)

KeepsMine(mine, theirs) ==
    \/ mine.version > theirs.version
    \/ mine.version = theirs.version /\ mine.by <= theirs.by

\* selectElementsForRemoteReconciliation, then reconcileElements.
\* Mutant: what the room once showed is not told from what it never showed.
Reconciled_Unseen(mine, remote, isDown, seen, published) ==
    LET only == {e \in DOMAIN mine \ DOMAIN remote : isDown /\ e \notin published}
    IN [e \in DOMAIN remote \union only |->
            IF e \notin DOMAIN remote THEN mine[e]
            ELSE IF e \in DOMAIN mine /\ KeepsMine(mine[e], remote[e]) THEN mine[e]
            ELSE remote[e]]
Reconciled(mine, remote, isDown, seen, published) ==
    LET only == {e \in DOMAIN mine \ DOMAIN remote :
                    isDown /\ e \notin seen /\ e \notin published}
    IN [e \in DOMAIN remote \union only |->
            IF e \notin DOMAIN remote THEN mine[e]
            ELSE IF e \in DOMAIN mine /\ KeepsMine(mine[e], remote[e]) THEN mine[e]
            ELSE remote[e]]

\* adoptVersionBaseline: a winner of the remote's version but not its value is
\* marked as still to be published.
\* Mutant: the marking is left out.
Adopted_ByVersion(s, remote, b) ==
    [e \in {x \in DOMAIN s : x \in DOMAIN remote \/ x \in DOMAIN b} |->
        IF e \in DOMAIN remote THEN remote[e].version ELSE b[e]]
Adopted(s, remote, b) ==
    [e \in {x \in DOMAIN s : x \in DOMAIN remote \/ x \in DOMAIN b} |->
        IF e \notin DOMAIN remote THEN b[e]
        ELSE IF s[e] # remote[e] /\ s[e].version = remote[e].version
             THEN s[e].version - 1
        ELSE remote[e].version]

\* Tab c's Y.Doc comes to hold v under the logs l by any transaction but its
\* own publish: the observer collapses twins, then the editor reconciles.
Observe(c, l, v) ==
    LET twins == Twins(Writes(l, v))
        l2 == Appended(l, v, c, twins)
        v2 == Held(v, c, twins)
        remote == Remote(Writes(l2, v2))
        seen == met[c] \union DOMAIN remote
        s == Reconciled(Visible(scene[c]), remote, down[c], seen, sent[c])
    IN /\ log' = l2
       /\ held' = [held EXCEPT ![c] = v2]
       /\ met' = [met EXCEPT ![c] = seen]
       /\ scene' = [scene EXCEPT ![c] = s]
       /\ base' = [base EXCEPT ![c] = Adopted(s, remote, base[c])]
       /\ UNCHANGED <<rank, sent>>

-----------------------------------------------------------------------------
(* The editor publishes *)

\* diffScene against the baseline.
Changed(b, s) == {e \in DOMAIN s : e \notin DOMAIN b \/ b[e] # s[e].version}
Removed(b, s) == DOMAIN b \ DOMAIN s
Due(b, s) == Changed(b, s) # {} \/ Removed(b, s) # {}

\* elementsToPublish and publishScene: what commitElements writes for scene s.
Published(c, s, force) ==
    LET W == Writes(log, held[c])
    IN IF Removed(base[c], s) # {} THEN Replacing(W, s, sent[c])
       ELSE IF force /\ Changed(base[c], s) = {} THEN Replacing(W, s, {})
       ELSE Replacing(W, Restrict(s, Changed(base[c], s)), {})

Commit(c, s, force) ==
    LET ws == Published(c, s, force) IN
    /\ log' = Appended(log, held[c], c, ws)
    /\ held' = [held EXCEPT ![c] = Held(@, c, ws)]
    /\ base' = [base EXCEPT ![c] = [e \in DOMAIN s |-> s[e].version]]
    /\ sent' = [sent EXCEPT ![c] = DOMAIN s]
    /\ UNCHANGED <<rank, met>>

-----------------------------------------------------------------------------
(* Opening and leaving the room *)

\* loadRoom: the row is read while the visitor is still at the name prompt.
Open(c) ==
    /\ tab[c] = "away"
    /\ tab' = [tab EXCEPT ![c] = "prompt"]
    /\ pending' = [pending EXCEPT ![c] = row]
    /\ UNCHANGED <<board, row, editor, down, acts>>

\* createCollaboration: an empty Y.Doc and a socket that will fill it.
Join(c) ==
    /\ tab[c] = "prompt"
    /\ tab' = [tab EXCEPT ![c] = "in"]
    /\ UNCHANGED <<board, row, pending, editor, down, acts>>

\* publishPending: within 250 ms the row read at Open goes into the Y.Doc.
Drain(c) ==
    /\ tab[c] = "in" /\ pending[c] # Empty
    /\ pending' = [pending EXCEPT ![c] = Empty]
    /\ LET ws == Replacing(Writes(log, held[c]), pending[c], {})
       IN Observe(c, Appended(log, held[c], c, ws), Held(held[c], c, ws))
    /\ UNCHANGED <<row, tab, down, acts>>

\* The tab closes, with whatever it had not sent.
Leave(c) ==
    /\ tab[c] = "in"
    /\ acts < MaxActs /\ acts' = acts + 1
    /\ tab' = [tab EXCEPT ![c] = "gone"]
    /\ pending' = [pending EXCEPT ![c] = Empty]
    /\ down' = [down EXCEPT ![c] = FALSE]
    /\ UNCHANGED <<board, row, editor>>

Present == {c \in Tabs : tab[c] = "in"}

-----------------------------------------------------------------------------
(* The link and the room object *)

\* Sync steps and updates, from the room to a tab.
Pull(c) ==
    /\ tab[c] = "in"
    /\ Joined(held[c], held[Server]) # held[c]
    /\ Observe(c, log, Joined(held[c], held[Server]))
    /\ UNCHANGED <<row, tab, pending, down, acts>>

\* webSocketMessage: the room applies what a tab sent.
Push(c) ==
    /\ tab[c] = "in"
    /\ Joined(held[c], held[Server]) # held[Server]
    /\ held' = [held EXCEPT ![Server] = Joined(held[c], held[Server])]
    /\ UNCHANGED <<log, rank, row, tab, pending, editor, down, acts>>

\* clearBoard: the owner's request deletes every entry.
Clear ==
    /\ acts < MaxActs /\ acts' = acts + 1
    /\ LET ws == Replacing(Writes(log, held[Server]), Empty, ElementIds)
       IN /\ ws # <<>>
          /\ log' = Appended(log, held[Server], Server, ws)
          /\ held' = [held EXCEPT ![Server] = Held(@, Server, ws)]
    /\ UNCHANGED <<rank, row, tab, pending, editor, down>>

\* A flush brings the row up to the document.
SaveRow ==
    /\ row # Visible(Remote(Writes(log, held[Server])))
    /\ row' = Visible(Remote(Writes(log, held[Server])))
    /\ UNCHANGED <<board, tab, pending, editor, down, acts>>

\* ... and, when nobody holds a socket, drops the tombstones first.
PruneDoc ==
    /\ Present = {}
    /\ LET W == Writes(log, held[Server])
           ws == SetToSeq(UNION {{Change("delete", e, x, NoVal) :
                   x \in Entries(W, e) \ LiveEntries(W, e)} : e \in ElementIds})
       IN /\ ws # <<>>
          /\ log' = Appended(log, held[Server], Server, ws)
          /\ held' = [held EXCEPT ![Server] = Held(@, Server, ws)]
    /\ UNCHANGED <<rank, row, tab, pending, editor, down, acts>>

-----------------------------------------------------------------------------
(* Drawing. A new element has an id nobody used; undo is left out. *)

Touched(c, e, erased) ==
    LET old == IF e \in DOMAIN scene[c] THEN scene[c][e].version ELSE 0
    IN [x \in DOMAIN scene[c] \union {e} |->
            IF x = e THEN [version |-> old + 1, by |-> c, erased |-> erased] ELSE scene[c][x]]
Unused(e) ==
    /\ \A a \in Writers : \A i \in 1 .. Len(log[a]) : log[a][i].id # e
    /\ \A c \in Tabs : e \notin DOMAIN scene[c]

\* A pointer sample: an element begins, grows or is dragged, and waits for a
\* commit. Samples that change nothing are left out.
Sketch(c, e) ==
    /\ tab[c] = "in" /\ acts < MaxActs /\ acts' = acts + 1
    /\ down' = [down EXCEPT ![c] = TRUE]
    /\ Unused(e) \/ e \in DOMAIN Visible(scene[c])
    /\ scene' = [scene EXCEPT ![c] = Touched(c, e, FALSE)]
    /\ UNCHANGED <<board, row, tab, pending, base, sent, met>>

\* handleElementsChange with the pointer up (a remote scene applied, a key
\* pressed), where a scene that reads empty is taken for a glitch; and its
\* throttled calls, or the trailing one, while the pointer is down.
HasNews(c) ==
    IF down[c] THEN Changed(base[c], Visible(scene[c])) # {}
    ELSE Due(base[c], scene[c]) /\ (scene[c] # Empty \/ base[c] = Empty)
Publish(c) ==
    /\ tab[c] = "in" /\ HasNews(c)
    /\ \E s \in {scene[c]} \union IF down[c] THEN {Visible(scene[c])} ELSE {} :
        Commit(c, s, FALSE)
    /\ UNCHANGED <<row, tab, pending, scene, down, acts>>

\* An erasure is one key press or one lift of the eraser: it commits at once.
Erase(c, e) ==
    /\ tab[c] = "in" /\ ~down[c] /\ acts < MaxActs /\ acts' = acts + 1
    /\ e \in DOMAIN Visible(scene[c])
    /\ scene' = [scene EXCEPT ![c] = Touched(c, e, TRUE)]
    /\ Commit(c, scene'[c], FALSE)
    /\ UNCHANGED <<row, tab, pending, down>>

\* handlePointerUp: the finished stroke is published by force, except that a
\* scene that reads empty is taken for a glitch.
Lift(c) ==
    /\ tab[c] = "in" /\ down[c]
    /\ down' = [down EXCEPT ![c] = FALSE]
    /\ LET s == Visible(scene[c]) IN
       \/ /\ s = Empty /\ base[c] # Empty
          /\ UNCHANGED <<board, editor>>
       \/ /\ s # Empty \/ base[c] = Empty
          /\ Commit(c, s, TRUE)
          /\ UNCHANGED scene
    /\ UNCHANGED <<row, tab, pending, acts>>

-----------------------------------------------------------------------------

Old == [version |-> 1, by |-> Server, erased |-> FALSE]
SyncInit ==
    \E drawn \in SUBSET ElementIds :
    LET ws == SetToSeq({Change("new", e, <<>>, Old) : e \in drawn})
        full == Held(NoDoc, Server, ws)
    IN /\ log = Appended([a \in Writers |-> <<>>], NoDoc, Server, ws)
       /\ held = [a \in Writers |-> IF a \in Here \union {Server} THEN full ELSE NoDoc]
       /\ rank \in Ranks
       /\ row = [e \in drawn |-> Old]
       /\ tab = [c \in Tabs |-> IF c \in Here THEN "in" ELSE "away"]
       /\ pending = [c \in Tabs |-> Empty]
       /\ scene = [c \in Tabs |-> IF c \in Here THEN row ELSE Empty]
       /\ base = [c \in Tabs |-> IF c \in Here THEN [e \in drawn |-> 1] ELSE Empty]
       /\ sent = [c \in Tabs |-> {}]
       /\ met = [c \in Tabs |-> IF c \in Here THEN drawn ELSE {}]
       /\ down = [c \in Tabs |-> FALSE]
       /\ acts = Cardinality(drawn)

SyncNext ==
    \/ \E c \in Tabs :
        \/ Open(c) \/ Join(c) \/ Drain(c) \/ Leave(c) \/ Pull(c) \/ Push(c)
        \/ Publish(c) \/ Lift(c)
        \/ \E e \in ElementIds : Sketch(c, e) \/ Erase(c, e)
    \/ Clear \/ SaveRow \/ PruneDoc

SyncSpec == SyncInit /\ [][SyncNext]_syncVars

-----------------------------------------------------------------------------

Room == Writes(log, held[Server])

\* Nothing is under way: every tab in the room has what the room has, its
\* pointer is up and its editor has nothing to publish.
Resting ==
    \A c \in Present : /\ held[c] = held[Server] /\ pending[c] = Empty
                       /\ ~down[c] /\ ~Due(base[c], scene[c])
Whole(e) == Cardinality(Entries(Room, e)) <= 1
Shown(s, e) == IF e \in DOMAIN Visible(s) THEN {s[e]} ELSE {}

\* Once nothing is under way, every tab shows what the document holds: two edits
\* of one version, of which Yjs keeps one and the editors another, end in one
\* scene. Elements with a twin left are excepted: the editor reads the first
\* entry and writes the last one.
SettledBoardsAgree ==
    Resting => \A c \in Present : \A e \in ElementIds :
        Whole(e) => Shown(scene[c], e) = Shown(Remote(Room), e)

NewWrites(c) == {log'[c][i] : i \in Len(log[c]) + 1 .. Len(log'[c])}

\* A board that was cleared, or an element that was erased and pruned, is not
\* brought back by an editor that saw it, not even one in the middle of a
\* stroke; only the row drained late can do that.
ClearedStaysCleared ==
    [][\A c \in Tabs : pending'[c] = pending[c] =>
        \A w \in NewWrites(c) : w.kind = "new" /\ ~w.val.erased => w.id \notin met[c]]_syncVars

=============================================================================
