----------------------------- MODULE LiveRoom -----------------------------
(* A room's call and its page turns, from the buttons to the microphone.     *)
(* do/RoomDO.ts stores the call and the page shown and relays the host's     *)
(* frames; hooks/useCollaboration.ts and RoomClient.tsx follow them;         *)
(* hooks/useAvSession.ts and lib/av/ fetch a token, join the media server    *)
(* and take the microphone; moderation takes all of it away again. The media *)
(* server and the browser's devices are external. One host tab, one imported *)
(* document; guide frames, mute, screen share and device pickers left out.   *)
EXTENDS Integers, Sequences, FiniteSets

CONSTANTS
    Host, Students,
    MaxActs,     \* bound: starts pressed, pages turned, tabs hidden and moderation, together
    MaxEnds,     \* bound: calls ended for everyone
    MaxFaults    \* bound: sockets dropped, pages reloaded, requests failed

ASSUME HostAssumption == Host \notin Students
ASSUME BoundsAreCounts == {MaxActs, MaxEnds, MaxFaults} \subseteq Nat

People == Students \union {Host}
Pages == {0, 1}
NoPage == -1

\* How far a start() of useAvSession has got.
Stages == {"off", "asking", "connecting", "publishing", "joined", "failed", "dropped"}

VARIABLES
    role,    \* person -> "owner", "editor", "waiting", "banned": its grant
    call,    \* activeCall: is a call stored for the room
    turned,  \* pageEntries: the page stored for the document
    on,      \* people whose browser has a socket to the room
    ghost,   \* people of whom the room object still holds a dead socket
    sent,    \* frames from the host on their way to the room object
    heard,   \* person -> frames from the room object on their way to it
    client,  \* person -> the state of its room page
    av,      \* person -> its media sessions and devices
    evict,   \* people with a RemoveParticipant request on its way
    acts, ends, faults

server == <<role, call, turned>>
links == <<on, ghost, sent, heard>>
media == <<av, evict>>
bounds == <<acts, ends, faults>>
vars == <<server, links, client, media, bounds>>

CallFrame(active) == [kind |-> "call", active |-> active]
PageFrame(index) == [kind |-> "page", index |-> index]

Granted(p) == role[p] \in {"owner", "editor"}
Acts == acts < MaxActs /\ acts' = acts + 1 /\ UNCHANGED <<ends, faults>>
Fault == faults < MaxFaults /\ faults' = faults + 1 /\ UNCHANGED <<acts, ends>>

-----------------------------------------------------------------------------
(* What a room page does when its state changes *)

Allowed(c) == c.view = "in"
Enabled(c) == Allowed(c) /\ c.want
Card(c) == Allowed(c) /\ c.check

\* peerCallEntryAction: a student asked into a running call, or out of one over.
Asked(c) == [c EXCEPT !.check = @ \/ (Allowed(c) /\ ~c.answered)]
Over(was, c) == [c EXCEPT !.answered = @ /\ ~was.told, !.want = FALSE, !.check = FALSE]

\* The effects of a page after told or its admission changed.
Followed(p, was, c) ==
    LET news == was.told # c.told \/ Allowed(was) # Allowed(c)
        peer == IF p = Host \/ ~news THEN c ELSE IF c.told THEN Asked(c) ELSE Over(was, c)
    IN [peer EXCEPT !.want = @ /\ Allowed(c)]

\* The cleanup of useAvSession's effect: cancelled is set and the session left.
\* A start that waits for its token stops at its next check of cancelled; a later
\* one goes on beside the next start. Two at one stage go on as one.
Cancelled(a) ==
    [start |-> "off",
     stray |-> a.stray \union ({a.start} \intersect {"connecting", "publishing"}),
     sfu |-> IF a.sfu = "now" THEN "none" ELSE a.sfu,
     mic |-> a.mic \ {"now"}]

Switched(was, c, a) ==
    IF Enabled(c) = Enabled(was) THEN a
    ELSE IF Enabled(c) THEN [a EXCEPT !.start = "asking"]
    ELSE Cancelled(a)

\* shouldBroadcastCallStart
Announces(p, c, a) == p = Host /\ c.want /\ ~c.told /\ a.start = "joined" /\ ~c.announced

\* A frame to a socket that is not open is lost (sendCallMessage's false).
Posted(p, frames, f) == IF p \in on THEN Append(frames, f) ELSE frames

\* Person p's page takes state c and session a, and runs its effects.
Renders(p, c, a, frames) ==
    LET f == Followed(p, client[p], c)
        b == Switched(client[p], f, a)
        news == Announces(p, f, b)
    IN /\ client' = [client EXCEPT ![p] =
            [f EXCEPT !.announced = f.want /\ (@ \/ news)]]
       /\ av' = [av EXCEPT ![p] = b]
       /\ sent' = IF news THEN Posted(p, frames, CallFrame(TRUE)) ELSE frames

\* loadRoom and the first heartbeat
FirstView(p) ==
    CASE Granted(p) -> "in" [] role[p] = "waiting" -> "waiting" [] OTHER -> "kicked"
Fresh(p) ==
    [told |-> FALSE, shown |-> 0, want |-> FALSE, check |-> FALSE, answered |-> FALSE,
     announced |-> FALSE, view |-> FirstView(p), asks |-> "beats"]
Idle == [start |-> "off", stray |-> {}, sfu |-> "none", mic |-> {}]

-----------------------------------------------------------------------------
(* Sockets *)

\* What the room object sends a socket it accepts.
\* Mutants: the call, the page is not sent.
Replay_NoCall(active, index) == IF index # NoPage THEN <<PageFrame(index)>> ELSE <<>>
Replay_NoPage(active, index) == IF active THEN <<CallFrame(TRUE)>> ELSE <<>>
Replay(active, index) ==
    (IF active THEN <<CallFrame(TRUE)>> ELSE <<>>)
        \o (IF index # NoPage THEN <<PageFrame(index)>> ELSE <<>>)

Connect(p) ==
    /\ p \notin on
    /\ Granted(p) /\ Allowed(client[p])
    /\ on' = on \union {p}
    /\ heard' = [heard EXCEPT ![p] = Replay(call, turned)]
    /\ client' = [client EXCEPT ![p].asks = IF @ = "lost" THEN "beats" ELSE @]
    /\ UNCHANGED <<server, ghost, sent, media, bounds>>

\* The socket of p is gone, with the frames it carried; the room object does
\* not know yet.
Hushed(p) == [heard EXCEPT ![p] = <<>>]
Unsent(p, frames) == IF p = Host THEN <<>> ELSE frames
Cut(p) ==
    /\ on' = on \ {p}
    /\ ghost' = IF p \in on THEN ghost \union {p} ELSE ghost
    /\ heard' = Hushed(p)

Drop(p) ==
    /\ p \in on
    /\ Fault
    /\ Cut(p)
    /\ sent' = Unsent(p, sent)
    /\ UNCHANGED <<server, client, media>>

Farewell(p) == heard

\* handleSocketGone: the call ends with the last socket, not with the host's.
Gone(p) ==
    /\ p \in ghost
    /\ ghost' = ghost \ {p}
    /\ call' = (call /\ on \union ghost' # {})
    /\ heard' = Farewell(p)
    /\ UNCHANGED <<role, turned, on, sent, client, media, bounds>>

\* A refresh: pagehide leaves the session, the page starts again.
Reload(p) ==
    /\ Fault
    /\ Cut(p)
    /\ sent' = Unsent(p, sent)
    /\ client' = [client EXCEPT ![p] = Fresh(p)]
    /\ av' = [av EXCEPT ![p] = Idle]
    /\ UNCHANGED <<server, evict>>

-----------------------------------------------------------------------------
(* Frames *)

Broadcast(f) ==
    heard' = [p \in People |->
        IF p \in on \ {Host} /\ Granted(p) THEN Append(heard[p], f) ELSE heard[p]]

\* webSocketMessage, a frame of the owner: stored, then sent to the others.
Stored(f) ==
    /\ call' = IF f.kind = "call" THEN f.active ELSE call
    /\ turned' = IF f.kind = "page" THEN f.index ELSE turned

Frame ==
    /\ sent # <<>>
    /\ Stored(Head(sent))
    /\ Broadcast(Head(sent))
    /\ sent' = Tail(sent)
    /\ UNCHANGED <<role, on, ghost, client, media, bounds>>

\* handleCall and handlePage
Arrive(p) ==
    LET f == Head(heard[p])
        c == IF f.kind = "call" THEN [client[p] EXCEPT !.told = f.active]
             ELSE [client[p] EXCEPT !.shown = f.index]
    IN /\ heard[p] # <<>>
       /\ heard' = [heard EXCEPT ![p] = Tail(@)]
       /\ Renders(p, c, av[p], sent)
       /\ UNCHANGED <<server, on, ghost, evict, bounds>>

-----------------------------------------------------------------------------
(* The people *)

Here(p) == UNCHANGED <<server, on, ghost, heard, evict>>

\* shouldShowStartCall, handleStartCall
PressStart(p) ==
    LET c == client[p] IN
    /\ Allowed(c) /\ ~Enabled(c) /\ (p = Host \/ c.told)
    /\ ~c.check
    /\ Acts
    /\ Renders(p, [c EXCEPT !.check = TRUE], av[p], sent)
    /\ Here(p)

Confirm(p) ==
    /\ Card(client[p])
    /\ Renders(p, [client[p] EXCEPT !.answered = TRUE, !.check = FALSE, !.want = TRUE], av[p], sent)
    /\ Here(p) /\ UNCHANGED bounds

Decline(p) ==
    /\ Card(client[p])
    /\ Renders(p, [client[p] EXCEPT !.answered = TRUE, !.check = FALSE], av[p], sent)
    /\ Here(p) /\ UNCHANGED bounds

Leave(p) ==
    /\ Enabled(client[p])
    /\ Renders(p, [client[p] EXCEPT !.want = FALSE], av[p], sent)
    /\ Here(p) /\ UNCHANGED bounds

EndForEveryone ==
    /\ Enabled(client[Host])
    /\ ends < MaxEnds /\ ends' = ends + 1
    /\ Renders(Host, [client[Host] EXCEPT !.want = FALSE], av[Host],
               Posted(Host, sent, CallFrame(FALSE)))
    /\ Here(Host) /\ UNCHANGED <<acts, faults>>

\* turnPage: the owner sees it at once.
TurnPage ==
    LET index == 1 - client[Host].shown IN
    /\ Acts
    /\ Renders(Host, [client[Host] EXCEPT !.shown = index], av[Host],
               Posted(Host, sent, PageFrame(index)))
    /\ Here(Host)

\* retry: the button of a call that failed or was dropped.
Retry(p) ==
    /\ Enabled(client[p])
    /\ av[p].start \in {"failed", "dropped"}
    /\ Acts
    /\ av' = [av EXCEPT ![p] = [Cancelled(@) EXCEPT !.start = "asking"]]
    /\ UNCHANGED <<server, links, client, evict>>

-----------------------------------------------------------------------------
(* The media session *)

Steps(p, a) ==
    /\ Renders(p, client[p], a, sent)
    /\ Here(p) /\ UNCHANGED bounds

\* issueAvTokenResponse mints for the owner and the admitted, start() reads its
\* answer, makes a provider and connects.
TokenFor(p) == Granted(p)
Mint(p) ==
    /\ av[p].start = "asking"
    /\ Steps(p, [av[p] EXCEPT !.start = IF TokenFor(p) THEN "connecting" ELSE "failed"])

RequestFails(p) ==
    /\ av[p].start \in {"asking", "connecting"}
    /\ Fault
    /\ av' = [av EXCEPT ![p].start = "failed"]
    /\ UNCHANGED <<server, links, client, evict>>

\* The media server takes one session per identity: an earlier one is dropped.
Reach(p) ==
    /\ av[p].start = "connecting"
    /\ Steps(p, [av[p] EXCEPT !.start = "publishing", !.sfu = "now", !.mic = @ \ {"before"}])

\* The microphone is granted or refused; refused is no error of the call.
Publish(p, taken) ==
    /\ av[p].start = "publishing"
    /\ Steps(p, [av[p] EXCEPT !.start = "joined", !.mic = @ \union taken])

\* The session in place loses the media server. A join still publishing reports
\* "joined" all the same when its connect returns.
Dropped(a) ==
    [a EXCEPT !.start = IF @ = "joined" THEN "dropped" ELSE @,
              !.sfu = "none", !.mic = @ \ {"now"}]

\* A start cancelled while connecting: aborted, or it arrives all the same.
StrayReaches(p) ==
    LET others == av[p].stray \ {"connecting"} IN
    /\ "connecting" \in av[p].stray
    /\ \/ Steps(p, [av[p] EXCEPT !.stray = others])
       \/ Steps(p, [(IF av[p].sfu = "now" THEN Dropped(av[p]) ELSE av[p])
                       EXCEPT !.stray = others \union {"publishing"}, !.sfu = "before"])

\* It may get the microphone before it finds itself cancelled and leaves.
Left(a) ==
    [a EXCEPT !.stray = @ \ {"publishing"}, !.mic = @ \ {"before"},
              !.sfu = IF @ = "before" THEN "none" ELSE @]
StrayEnds(p, taken) ==
    /\ "publishing" \in av[p].stray
    /\ Steps(p, Left([av[p] EXCEPT !.mic = @ \union taken]))

-----------------------------------------------------------------------------
(* Moderation *)

\* A kick, a ban or a suspension: closeAccountSockets, and a request to the
\* media server.
Remove(s, as) ==
    /\ role[s] = "editor"
    /\ Acts
    /\ role' = [role EXCEPT ![s] = as]
    /\ Cut(s)
    /\ evict' = evict \union {s}
    /\ UNCHANGED <<call, turned, sent, client, av>>

Admit(s) ==
    /\ role[s] = "waiting"
    /\ Acts
    /\ role' = [role EXCEPT ![s] = "editor"]
    /\ UNCHANGED <<call, turned, links, client, media>>

Evicted(p) ==
    /\ p \in evict
    /\ evict' = evict \ {p}
    /\ Renders(p, client[p],
               CASE av[p].sfu = "now" -> Dropped(av[p])
                 [] av[p].sfu = "before" -> [av[p] EXCEPT !.sfu = "none"]
                 [] OTHER -> av[p], sent)
    /\ UNCHANGED <<server, on, ghost, heard, bounds>>

\* removeLiveKitParticipant fails: logged.
EvictionFails(p) ==
    /\ p \in evict
    /\ Fault
    /\ evict' = evict \ {p}
    /\ UNCHANGED <<server, links, client, av>>

\* What the heartbeat's answer makes of the page; kicked is for good.
\* Mutant: a ban is taken for an error.
Seen_NoBan(view, r) ==
    CASE r = "editor" -> "in" [] r = "waiting" -> "waiting" [] OTHER -> view
Seen(view, r) ==
    CASE view = "kicked" \/ r = "banned" -> "kicked"
      [] r = "editor" -> "in"
      [] OTHER -> "waiting"

\* updatePresence; a page that is out of the room closes its socket.
Beats(s, asks) ==
    LET c == [client[s] EXCEPT !.view = Seen(@, role[s]), !.asks = asks] IN
    /\ c # client[s]
    /\ Renders(s, c, av[s], sent)
    /\ IF Allowed(c) THEN UNCHANGED <<on, ghost, heard>> ELSE Cut(s)
    /\ UNCHANGED <<server, evict, bounds>>

Poll(s) == client[s].asks = "beats" /\ Beats(s, "beats")

\* shouldPollPresence: a hidden tab with no call joined rests.
Hides(s) ==
    /\ client[s].asks = "beats" /\ client[s].view = "in" /\ av[s].start # "joined"
    /\ Acts
    /\ client' = [client EXCEPT ![s].asks = "rests"]
    /\ UNCHANGED <<server, links, media>>

\* hasGivenUp: five minutes without a socket.
GivesUp(s) ==
    /\ s \notin on /\ client[s].asks = "beats" /\ client[s].view # "kicked"
    /\ client' = [client EXCEPT ![s].asks = "lost"]
    /\ UNCHANGED <<server, links, media, bounds>>

\* onVisible: a tab that is looked at again asks once, whatever it had given up.
LooksBack(s) ==
    \/ client[s].asks = "rests" /\ Beats(s, "beats")
    \/ client[s].asks = "lost" /\ Beats(s, "lost")

-----------------------------------------------------------------------------
Init ==
    /\ role = [p \in People |-> IF p = Host THEN "owner" ELSE "editor"]
    /\ call = FALSE /\ turned = NoPage
    /\ on = {} /\ ghost = {}
    /\ sent = <<>> /\ heard = [p \in People |-> <<>>]
    /\ client = [p \in People |-> Fresh(p)]
    /\ av = [p \in People |-> Idle] /\ evict = {}
    /\ acts = 0 /\ ends = 0 /\ faults = 0

Social(p) ==
    \/ PressStart(p) \/ Confirm(p) \/ Decline(p) \/ Leave(p) \/ Retry(p)
    \/ Drop(p) \/ Reload(p) \/ RequestFails(p) \/ EvictionFails(p)

Session(p) ==
    \/ Mint(p) \/ Reach(p) \/ \E taken \in {{}, {"now"}} : Publish(p, taken)
    \/ StrayReaches(p) \/ \E taken \in {{}, {"before"}} : StrayEnds(p, taken)

Moderate(s) == Admit(s) \/ \E as \in {"waiting", "banned"} : Remove(s, as)

Next ==
    \/ Frame \/ EndForEveryone \/ TurnPage
    \/ \E p \in People :
        \/ Connect(p) \/ Gone(p) \/ Arrive(p) \/ Evicted(p)
        \/ Social(p) \/ Session(p)
    \/ \E s \in Students : Moderate(s) \/ Poll(s) \/ Hides(s) \/ GivesUp(s) \/ LooksBack(s)

Spec == Init /\ [][Next]_vars

\* A page's start() and its device requests go on by themselves, and so does the
\* heartbeat of a page that still asks: of its requests, one is answered.
Fairness == \A p \in People : WF_vars(Session(p))
FairSpec == Spec /\ Fairness /\ \A s \in Students : WF_vars(Poll(s))

-----------------------------------------------------------------------------
(* Properties *)

TypeOK ==
    /\ role \in [People -> {"owner", "editor", "waiting", "banned"}]
    /\ call \in BOOLEAN /\ turned \in Pages \union {NoPage}
    /\ on \subseteq People /\ ghost \subseteq People /\ evict \subseteq People
    /\ client \in [People ->
        [told : BOOLEAN, shown : Pages, want : BOOLEAN, check : BOOLEAN, answered : BOOLEAN,
         announced : BOOLEAN, view : {"in", "waiting", "kicked"},
         asks : {"beats", "rests", "lost"}]]
    /\ av \in [People ->
        [start : Stages, stray : SUBSET {"connecting", "publishing"},
         sfu : {"none", "now", "before"}, mic : SUBSET {"now", "before"}]]
    /\ acts \in 0 .. MaxActs /\ ends \in 0 .. MaxEnds /\ faults \in 0 .. MaxFaults

\* Nothing is on its way between the room object and p.
Settled(p) == p \in on /\ sent = <<>> /\ heard[p] = <<>>

\* A student who is in the room while its call runs has been told, whatever
\* drops, suspensions and reloads it went through (RoomDO.ts connect replay).
CallKnownWhenSettled ==
    \A s \in Students : call /\ Settled(s) /\ role[s] = "editor" => client[s].told

\* And it looks at the page the host turned to (withPageEntry, page replay).
PagesAgreeWhenSettled ==
    \A s \in Students : Settled(s) /\ role[s] = "editor" =>
        client[s].shown = (IF turned = NoPage THEN 0 ELSE turned)

\* A page that is out of the call holds nothing of it, neither a session nor the
\* microphone, once its cancelled starts have ended (useAvSession.ts cleanup).
OutMeansSilent ==
    \A p \in People : ~Enabled(client[p]) /\ av[p].stray = {} =>
        av[p].sfu = "none" /\ av[p].mic = {}

\* A removed student leaves the call for good, even when the request to the
\* media server is lost or comes before its join, if the page has been told or
\* goes on asking: nothing else takes the call away from a page that rests in a
\* hidden tab or has given up.
GoesOnAsking(s) == client[s].asks = "beats" \/ client[s].view = "kicked"
RemovedLeavesTheCall ==
    \A s \in Students :
        []<>GoesOnAsking(s) =>
            (role[s] = "banned" ~> [](av[s].sfu = "none" /\ av[s].mic = {}))

=============================================================================
