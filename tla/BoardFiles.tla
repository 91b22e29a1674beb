---------------------------- MODULE BoardFiles ----------------------------
(* The pictures of one room. An element carries only the id of a picture;    *)
(* its bytes go by a PUT of their own from a tab's uploader                  *)
(* (components/whiteboard/ExcalidrawWrapper.tsx) through the worker          *)
(* (worker.ts) to the bucket, against a quota the room object keeps          *)
(* (do/RoomDO.ts), whose alarm collects the pictures nothing mentions        *)
(* (lib/whiteboard/orphanFiles.ts). Ids are content addressed: the same      *)
(* picture pasted twice, or by two people, is one file. The shared document  *)
(* is taken as delivered at once (BoardSync.tla has its races), a room's     *)
(* purge is in RoomLife.tla, and all pictures weigh one unit.                *)
EXTENDS Integers, FiniteSets

CONSTANTS
    Tab, File,
    Quota,       \* MAX_ROOM_FILE_BYTES_TOTAL, in pictures
    UploadTries, \* MAX_UPLOAD_ATTEMPTS
    FetchTries,  \* IMAGE_MAX_RETRIES
    MaxActs,     \* bound: pastes, clears, shapes saved, retries pressed, reloads
    MaxFaults    \* bound: requests cut off, refused or failed

ASSUME BoardFilesAssumption ==
    /\ IsFiniteSet(Tab) /\ IsFiniteSet(File)
    /\ Quota \in Nat
    /\ UploadTries \in Nat \ {0}
    /\ FetchTries \in Nat \ {0}
    /\ MaxActs \in Nat /\ MaxFaults \in Nat

\* How far the worker's handler of one PUT has got, and its answer.
Asking == {"authorize", "same-size", "reserve", "put"}
Answers == {"created", "later", "refused"}

VARIABLES
    up,      \* tab -> file -> what its uploader remembers
    put,     \* tab -> file -> the PUT it waits for, "none" without one
    stray,   \* a PUT still at work whose tab has gone: [tab, file, at]
    get,     \* tab -> file -> the GET it waits for
    missed,  \* tab -> file -> 404s recorded against the picture
    hinted,  \* tabs with a change of the fileReady map on its way
    board,   \* pictures the shared document mentions
    ready,   \* keys of the document's fileReady map
    library, \* pictures the room's shape library mentions
    bucket,  \* file -> "absent", "young" (within the grace) or "old"
    total,   \* file_bytes_total
    sweep,   \* sweepOrphanFiles: [at, kept, doomed]
    uncounted, \* history: PUTs that took an object for present and stored it anew
    collected, \* history: pictures the sweep has deleted
    forsaken,  \* history: pictures whose tab was left while it was sending them
    acts, faults

client == <<up, put, get, missed, hinted>>
roomObject == <<board, ready, library, total>>
history == <<uncounted, collected, forsaken>>
bounds == <<acts, faults>>
vars == <<client, stray, roomObject, bucket, sweep, history, bounds>>

Act == acts < MaxActs /\ acts' = acts + 1 /\ UNCHANGED faults
Fault == faults < MaxFaults /\ faults' = faults + 1 /\ UNCHANGED acts
Held(f) == bucket[f] # "absent"

-----------------------------------------------------------------------------
(* A tab's uploader: what it remembers of one picture *)

Memory == [bytes : BOOLEAN, marked : BOOLEAN, confirmed : BOOLEAN,
           pending : BOOLEAN, tries : 0..UploadTries, timer : BOOLEAN, failed : BOOLEAN]

Unknown == [bytes |-> FALSE, marked |-> FALSE, confirmed |-> FALSE,
            pending |-> FALSE, tries |-> 0, timer |-> FALSE, failed |-> FALSE]

\* uploadBoardFile sends only what it is not already sending, and has not given up on.
Sends(t, f, u) ==
    /\ ~u.confirmed /\ ~u.failed
    /\ put[t][f] = "none"
    /\ u.tries < UploadTries

\* The picture is its own entry while it waits; one that is sent needs no entry.
Sending(t, f, u) == IF Sends(t, f, u) THEN [u EXCEPT !.pending = TRUE] ELSE u

\* handleElementsChange: what the editor holds and was not marked is uploaded.
Unsent(t) == {f \in File : up[t][f].bytes /\ ~up[t][f].marked}
Marked(u) == [u EXCEPT !.marked = TRUE]

\* Uploads of the pictures fs start in tab t, whose uploader remembers mem.
Upload(t, fs, mem) ==
    /\ up' = [up EXCEPT ![t] =
                [f \in File |-> IF f \in fs THEN Sending(t, f, mem[f]) ELSE mem[f]]]
    /\ put' = [put EXCEPT ![t] =
                [f \in File |-> IF f \in fs /\ Sends(t, f, mem[f]) THEN "authorize" ELSE @[f]]]

\* Mutant: a transient failure leaves the mark on and sets no timer.
Deferred_Once(u) == [u EXCEPT !.tries = @ + 1, !.failed = u.tries + 1 >= UploadTries]

\* A transient failure: another go is due, by a timer or the next change, or
\* the picture has had its tries and is shown as failed.
Deferred(u) ==
    IF u.tries + 1 >= UploadTries
    THEN [u EXCEPT !.tries = @ + 1, !.failed = TRUE, !.timer = FALSE]
    ELSE [u EXCEPT !.tries = @ + 1, !.marked = FALSE, !.timer = TRUE]

\* Mutant: a refused picture is forgotten, as one that is sent is.
GivenUp_Forgets(u) == [u EXCEPT !.tries = @ + 1, !.pending = FALSE, !.timer = FALSE]

\* An answer that will not change: shown as failed, with a retry by hand.
GivenUp(u) == [u EXCEPT !.tries = @ + 1, !.failed = TRUE, !.timer = FALSE]
Confirmed(u) == [u EXCEPT !.confirmed = TRUE, !.pending = FALSE, !.timer = FALSE,
                          !.failed = FALSE, !.tries = 0]
Renewed(u) == [u EXCEPT !.tries = 0, !.timer = FALSE, !.failed = FALSE, !.marked = FALSE]

\* Requests of tab t the worker still works at when nobody waits for them.
Cut(t, fs) == {[tab |-> t, file |-> f, at |-> put[t][f]] : f \in {g \in fs : put[t][g] \in Asking}}

\* Mutant: a picture answered "not found" once is not asked for again.
Wanted_Once(t, miss) == {f \in board : ~up[t][f].bytes /\ get[t][f] = "none" /\ miss[f] = 0}

\* fetchMissingBoardFiles: pictures on the board the tab does not hold, is not
\* fetching and has not given up on.
Wanted(t, miss) == {f \in board : ~up[t][f].bytes /\ get[t][f] = "none" /\ miss[f] < FetchTries}
Fetch(t, fs) == get' = [get EXCEPT ![t] = [f \in File |-> IF f \in fs THEN "asked" ELSE @[f]]]

-----------------------------------------------------------------------------
(* What people do *)

\* A picture is pasted: the element is published, the bytes follow on their own.
Paste(t, f) ==
    /\ Act
    /\ f \notin board \/ ~up[t][f].bytes
    /\ board' = board \union {f}
    /\ LET mem == [up[t] EXCEPT ![f].bytes = TRUE]
           fs == {g \in File : mem[g].bytes /\ ~mem[g].marked}
       IN Upload(t, fs, [g \in File |-> IF g \in fs THEN Marked(mem[g]) ELSE mem[g]])
    /\ UNCHANGED <<get, missed, hinted, ready, library, total, stray, bucket, sweep, history>>

\* A change of somebody else's arrives: missing pictures are asked for, and the
\* editor's onChange that follows uploads what it holds.
RemoteChange(t) ==
    /\ Wanted(t, missed[t]) \union Unsent(t) # {}
    /\ Fetch(t, Wanted(t, missed[t]))
    /\ Upload(t, Unsent(t), [f \in File |-> IF f \in Unsent(t) THEN Marked(up[t][f]) ELSE up[t][f]])
    /\ UNCHANGED <<missed, hinted, roomObject, stray, bucket, sweep, history, bounds>>

\* The board is cleared: the document mentions nothing any more.
Clear ==
    /\ Act
    /\ board # {}
    /\ board' = {}
    /\ UNCHANGED <<client, ready, library, total, stray, bucket, sweep, history>>

\* The owner saves a picture of the board as a shape of the room's library.
SaveShape(f) ==
    /\ Act
    /\ f \in board \ library
    /\ library' = library \union {f}
    /\ UNCHANGED <<client, board, ready, total, stray, bucket, sweep, history>>

\* "Retry": every picture shown as failed starts over.
RetryFailed(t) ==
    /\ Act
    /\ \E f \in File : up[t][f].failed
    /\ LET fs == {f \in File : up[t][f].failed}
       IN Upload(t, fs, [f \in File |-> IF f \in fs THEN Renewed(up[t][f]) ELSE up[t][f]])
    /\ UNCHANGED <<get, missed, hinted, roomObject, stray, bucket, sweep, history>>

\* The page is reloaded, in spite of the warning when pictures are still on
\* their way; the editor opens with the board's elements and asks for pictures.
Reload(t) ==
    /\ Act
    /\ stray' = stray \union Cut(t, File)
    /\ forsaken' = forsaken \union {f \in File : up[t][f].pending}
    /\ up' = [up EXCEPT ![t] = [f \in File |-> Unknown]]
    /\ put' = [put EXCEPT ![t] = [f \in File |-> "none"]]
    /\ get' = [get EXCEPT ![t] = [f \in File |-> IF f \in board THEN "asked" ELSE "none"]]
    /\ missed' = [missed EXCEPT ![t] = [f \in File |-> 0]]
    /\ hinted' = hinted \ {t}
    /\ UNCHANGED <<roomObject, bucket, sweep, uncounted, collected>>

-----------------------------------------------------------------------------
(* One PUT, in the worker *)

\* Mutant: the count starts over.
Refunded_Whole(n) == 0

\* subtractFileBytes gives the bytes of one picture back, floored at zero.
Refunded(n) == IF n = 0 THEN 0 ELSE n - 1
Settled(n) == Refunded(n)

\* The room object authorises the write and the worker looks whether the key
\* holds bytes; faults stand for a missing grant, a rate limit, a service that
\* fails or a request the worker will never take.
Authorized(f, at, to) ==
    /\ at = "authorize"
    /\ \/ to = (IF Held(f) THEN "same-size" ELSE "reserve") /\ UNCHANGED bounds
       \/ to \in {"later", "refused"} /\ Fault
    /\ UNCHANGED <<bucket, total, uncounted>>

\* One turn of the room object: the quota is checked and the bytes counted.
Reserved(f, at, to) ==
    /\ at = "reserve"
    /\ IF total + 1 > Quota
       THEN to = "refused" /\ UNCHANGED total
       ELSE to = "put" /\ total' = total + 1
    /\ UNCHANGED <<bucket, uncounted, bounds>>

\* The bytes reach the bucket; or nothing was stored and the reservation is
\* settled; or the put throws and the reservation stays.
Stored(f, at, to) ==
    /\ at = "put"
    /\ UNCHANGED uncounted
    /\ \/ to = "created" /\ bucket' = [bucket EXCEPT ![f] = "young"] /\ UNCHANGED <<total, bounds>>
       \/ to = "later" /\ Fault /\ total' \in {total, Settled(total)} /\ UNCHANGED bucket

\* Bytes of the size already stored are put again, free of charge.
StoredAgain(f, at, to) ==
    /\ at = "same-size"
    /\ to = "created"
    /\ bucket' = [bucket EXCEPT ![f] = "young"]
    /\ uncounted' = IF Held(f) THEN uncounted ELSE uncounted + 1
    /\ UNCHANGED <<total, bounds>>

Serves(f, at, to) ==
    \/ Authorized(f, at, to)
    \/ Reserved(f, at, to)
    \/ Stored(f, at, to)
    \/ StoredAgain(f, at, to)

Serve(t, f) ==
    /\ \E to \in Asking \union Answers :
        /\ Serves(f, put[t][f], to)
        /\ put' = [put EXCEPT ![t][f] = to]
    /\ UNCHANGED <<up, get, missed, hinted, stray, board, ready, library, sweep,
                   collected, forsaken>>

\* The worker goes on with a request nobody waits for any more.
ServeStray(r) ==
    /\ r \in stray
    /\ \E to \in Asking \union Answers :
        /\ Serves(r.file, r.at, to)
        /\ stray' = IF to \in Answers THEN stray \ {r}
                    ELSE (stray \ {r}) \union {[r EXCEPT !.at = to]}
    /\ UNCHANGED <<client, board, ready, library, sweep, collected, forsaken>>

-----------------------------------------------------------------------------
(* What the tab does with the answer *)

\* The bytes are stored: peers are told through the document.
Created(t, f) ==
    /\ put[t][f] = "created"
    /\ put' = [put EXCEPT ![t][f] = "none"]
    /\ up' = [up EXCEPT ![t][f] = Confirmed(@)]
    /\ ready' = ready \union {f}
    /\ hinted' = hinted \union {u \in Tab : \E g \in ready' : ~up'[u][g].bytes}
    /\ UNCHANGED <<get, missed, board, library, total, stray, bucket, sweep, history, bounds>>

PutOff(t, f) ==
    /\ put[t][f] = "later"
    /\ put' = [put EXCEPT ![t][f] = "none"]
    /\ up' = [up EXCEPT ![t][f] = Deferred(@)]
    /\ UNCHANGED <<get, missed, hinted, roomObject, stray, bucket, sweep, history, bounds>>

Refused(t, f) ==
    /\ put[t][f] = "refused"
    /\ put' = [put EXCEPT ![t][f] = "none"]
    /\ up' = [up EXCEPT ![t][f] = GivenUp(@)]
    /\ UNCHANGED <<get, missed, hinted, roomObject, stray, bucket, sweep, history, bounds>>

\* The connection breaks: fetch throws, while the worker may go on.
CutOff(t, f) ==
    /\ Fault
    /\ put[t][f] \in Asking \union Answers
    /\ put' = [put EXCEPT ![t][f] = "none"]
    /\ up' = [up EXCEPT ![t][f] = Deferred(@)]
    /\ stray' = stray \union Cut(t, {f})
    /\ UNCHANGED <<get, missed, hinted, roomObject, bucket, sweep, history>>

\* The retry timer fires.
RetryDue(t, f) ==
    /\ up[t][f].timer
    /\ LET mem == [up[t] EXCEPT ![f].timer = FALSE]
       IN Upload(t, {g \in {f} : mem[f].pending}, mem)
    /\ UNCHANGED <<get, missed, hinted, roomObject, stray, bucket, sweep, history, bounds>>

-----------------------------------------------------------------------------
(* Fetching a picture another tab pasted *)

\* The worker looks the object up.
GetServed(t, f) ==
    /\ get[t][f] = "asked"
    /\ get' = [get EXCEPT ![t][f] = IF Held(f) THEN "bytes" ELSE "missing"]
    /\ UNCHANGED <<up, put, missed, hinted, roomObject, stray, bucket, sweep, history, bounds>>

\* The answer arrives: the bytes, a 404 that is recorded, or an error that is not.
GetAnswered(t, f) ==
    /\ get[t][f] # "none"
    /\ get' = [get EXCEPT ![t][f] = "none"]
    /\ \/ get[t][f] = "bytes" /\ up' = [up EXCEPT ![t][f].bytes = TRUE]
          /\ UNCHANGED <<missed, bounds>>
       \/ get[t][f] = "missing" /\ missed' = [missed EXCEPT ![t][f] = @ + 1]
          /\ UNCHANGED <<up, bounds>>
       \/ Fault /\ UNCHANGED <<up, missed>>
    /\ UNCHANGED <<put, hinted, roomObject, stray, bucket, sweep, history>>

\* A change of fileReady arrives: recorded 404s are forgotten and the board's
\* missing pictures asked for again.
HintArrives(t) ==
    /\ t \in hinted
    /\ hinted' = hinted \ {t}
    /\ missed' = [missed EXCEPT ![t] = [f \in File |-> IF f \in ready THEN 0 ELSE @[f]]]
    /\ Fetch(t, IF \E f \in ready : missed[t][f] > 0 THEN Wanted(t, missed'[t]) ELSE {})
    /\ UNCHANGED <<up, put, roomObject, stray, bucket, sweep, history, bounds>>

-----------------------------------------------------------------------------
(* The room object's alarm *)

\* Ten minutes pass since the bytes were stored.
GraceEnds(f) ==
    /\ bucket[f] = "young"
    /\ bucket' = [bucket EXCEPT ![f] = "old"]
    /\ UNCHANGED <<client, roomObject, stray, sweep, history, bounds>>

\* The alarm flushes the document to the row, and the sweep reads from it what
\* the board mentions, and from storage what the library does.
SweepStarts ==
    /\ sweep.at = "idle"
    /\ \E f \in File : bucket[f] = "old" /\ f \notin board \union library
    /\ sweep' = [at |-> "listing", kept |-> board \union library, doomed |-> {}]
    /\ UNCHANGED <<client, roomObject, stray, bucket, history, bounds>>

\* The prefix is listed, and what nothing mentions and is past its grace chosen.
Doomed(kept) == {f \in File : bucket[f] = "old" /\ f \notin kept}

SweepLists ==
    /\ sweep.at = "listing"
    /\ sweep' = [sweep EXCEPT !.at = IF Doomed(sweep.kept) = {} THEN "idle" ELSE "deleting",
                              !.doomed = Doomed(sweep.kept)]
    /\ UNCHANGED <<client, roomObject, stray, bucket, history, bounds>>

\* One object goes and its bytes go back to the room.
SweepDeletes(f) ==
    /\ f \in sweep.doomed
    /\ bucket' = [bucket EXCEPT ![f] = "absent"]
    /\ total' = Refunded(total)
    /\ sweep' = [sweep EXCEPT !.doomed = @ \ {f},
                              !.at = IF sweep.doomed = {f} THEN "idle" ELSE @]
    /\ collected' = collected \union {f}
    /\ UNCHANGED <<client, board, ready, library, stray, uncounted, forsaken, bounds>>

-----------------------------------------------------------------------------
Init ==
    /\ up = [t \in Tab |-> [f \in File |-> Unknown]]
    /\ put = [t \in Tab |-> [f \in File |-> "none"]]
    /\ get = put
    /\ missed = [t \in Tab |-> [f \in File |-> 0]]
    /\ hinted = {} /\ stray = {}
    /\ board = {} /\ ready = {} /\ library = {}
    /\ bucket = [f \in File |-> "absent"]
    /\ total = 0
    /\ sweep = [at |-> "idle", kept |-> {}, doomed |-> {}]
    /\ uncounted = 0 /\ collected = {} /\ forsaken = {}
    /\ acts = 0 /\ faults = 0

Next ==
    \/ Clear \/ SweepStarts \/ SweepLists
    \/ \E f \in File : SaveShape(f) \/ GraceEnds(f) \/ SweepDeletes(f)
    \/ \E t \in Tab : RemoteChange(t) \/ RetryFailed(t) \/ Reload(t) \/ HintArrives(t)
    \/ \E t \in Tab, f \in File :
        Paste(t, f) \/ Serve(t, f) \/ Created(t, f) \/ PutOff(t, f) \/ Refused(t, f)
        \/ CutOff(t, f) \/ RetryDue(t, f) \/ GetServed(t, f) \/ GetAnswered(t, f)
    \/ \E r \in stray : ServeStray(r)

Spec == Init /\ [][Next]_vars

\* Requests are answered, timers fire and the document reaches everybody, and
\* the room is in use: other people's changes keep arriving. On an idle board a
\* picture whose 404 arrives after its hint is not asked for again.
FairSpec ==
    /\ Spec
    /\ \A t \in Tab, f \in File :
        /\ WF_vars(Serve(t, f))
        /\ WF_vars(Created(t, f) \/ PutOff(t, f) \/ Refused(t, f))
        /\ WF_vars(RetryDue(t, f))
        /\ WF_vars(GetServed(t, f)) /\ WF_vars(GetAnswered(t, f) /\ get[t][f] # "asked")
    /\ \A t \in Tab : WF_vars(HintArrives(t)) /\ WF_vars(RemoteChange(t))

-----------------------------------------------------------------------------
(* Properties *)

TypeOK ==
    /\ up \in [Tab -> [File -> Memory]]
    /\ put \in [Tab -> [File -> Asking \union Answers \union {"none"}]]
    /\ get \in [Tab -> [File -> {"none", "asked", "bytes", "missing"}]]
    /\ missed \in [Tab -> [File -> 0..FetchTries]]
    /\ stray \subseteq [tab : Tab, file : File, at : Asking]
    /\ board \subseteq File /\ ready \subseteq File
    /\ library \subseteq File /\ hinted \subseteq Tab
    /\ bucket \in [File -> {"absent", "young", "old"}]
    /\ total \in 0..Quota
    /\ sweep \in [at : {"idle", "listing", "deleting"}, kept : SUBSET File, doomed : SUBSET File]
    /\ uncounted \in Nat /\ collected \subseteq File /\ forsaken \subseteq File
    /\ acts \in 0..MaxActs /\ faults \in 0..MaxFaults

\* A picture on the board whose bytes the room does not have is still being
\* sent by a tab or shown there as failed, with a retry: bytes are lost only by
\* leaving in spite of the warning, or to the sweep.
LossIsVisible ==
    \A f \in board \ (forsaken \union collected) :
        Held(f) \/ \E t \in Tab : up[t][f].pending

\* The quota is never handed out twice: what the bucket holds and what has been
\* reserved is counted, but for bytes put again while the sweep deleted them.
Spent == Cardinality({f \in File : Held(f)})

BytesAreCounted == Spent <= total + uncounted

\* An upload is decided: a tab that is sending a picture comes to have it
\* confirmed or to show that it failed, unless the page is reloaded.
UploadsResolve ==
    \A t \in Tab, f \in File :
        (up[t][f].pending /\ ~up[t][f].failed) ~> (~up[t][f].pending \/ up[t][f].failed)

\* While the room is in use, a picture whose bytes are stored and confirmed
\* reaches every tab, also one that was told "not found" before: for as long as
\* the board mentions it and the sweep leaves it.
PicturesArrive ==
    \A t \in Tab, f \in File :
        (f \in board \cap ready /\ Held(f) /\ ~up[t][f].bytes)
            ~> (up[t][f].bytes \/ f \notin board \/ ~Held(f))
=============================================================================
