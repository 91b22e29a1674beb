---------------------------- MODULE LiveRoomProofs ----------------------------
(***************************************************************************)
(* What LiveRoom guarantees for any number of students, acts, ends and       *)
(* faults, with frames that wait for as long as they like.                   *)
(*                                                                           *)
(* The argument.  A frame is stored and sent to those who have a socket in   *)
(* one step, and a socket begins with what is stored.  So what a student who *)
(* is in the room will know, once the frames on their way have arrived, is   *)
(* what is stored: the last of them says it, and without one its page does.  *)
(* A media session is a page's only while the page wants the call: whatever  *)
(* changes a page runs the cleanup (Renders).                                *)
(***************************************************************************)
EXTENDS LiveRoom, SequenceTheorems, TLAPS

-----------------------------------------------------------------------------
(* The invariant. *)

Client ==
    [told : BOOLEAN, shown : Pages, want : BOOLEAN, check : BOOLEAN, answered : BOOLEAN,
     announced : BOOLEAN, view : {"in", "waiting", "kicked"}, asks : {"beats", "rests", "lost"}]

Media ==
    [start : Stages, stray : SUBSET {"connecting", "publishing"},
     sfu : {"none", "now", "before"}, mic : SUBSET {"now", "before"}]

Frames == {CallFrame(active) : active \in BOOLEAN} \union {PageFrame(index) : index \in Pages}

FramesOK == sent \in Seq(Frames) /\ heard \in [People -> Seq(Frames)]

\* The frame f is the last of its kind in q.
LastIn(q, f) ==
    \E i \in 1 .. Len(q) : q[i] = f /\ \A j \in 1 .. Len(q) : j > i => q[j].kind # f.kind

NoneIn(q, kind) == \A i \in 1 .. Len(q) : q[i].kind # kind

\* A page that believes b, of a matter that frames of f's kind tell, will believe
\* f after the frames q.
Comes(q, f, b) == LastIn(q, f) \/ (NoneIn(q, f.kind) /\ b)

\* A socket is a granted person's: taking the grant away closes it.
SocketsAreGranted == \A p \in on : Granted(p)

CallComes(s) == s \in on /\ call => Comes(heard[s], CallFrame(TRUE), client[s].told)

\* Until a page is turned nobody is sent one.
PageComes(s) ==
    IF turned = NoPage THEN NoneIn(heard[s], "page") /\ client[s].shown = 0
    ELSE s \in on => Comes(heard[s], PageFrame(turned), client[s].shown = turned)

\* What a page that has state c may hold of the call.
Silent(c, a) ==
    /\ ~Enabled(c) => a.start = "off" /\ a.sfu # "now" /\ "now" \notin a.mic
    /\ a.sfu = "before" \/ "before" \in a.mic => "publishing" \in a.stray

AllSilent == \A p \in People : Silent(client[p], av[p])

AllKnow == \A s \in Students : CallComes(s) /\ PageComes(s)

Typed ==
    /\ role \in [People -> {"owner", "editor", "waiting", "banned"}]
    /\ call \in BOOLEAN /\ turned \in Pages \union {NoPage}
    /\ on \subseteq People /\ ghost \subseteq People /\ evict \subseteq People
    /\ client \in [People -> Client] /\ av \in [People -> Media]

Counted == acts \in 0 .. MaxActs /\ ends \in 0 .. MaxEnds /\ faults \in 0 .. MaxFaults

Kept == Typed /\ FramesOK /\ SocketsAreGranted /\ AllSilent /\ AllKnow

IInv == Kept /\ Counted

-----------------------------------------------------------------------------
(* Frames that wait. *)

LEMMA FrameKinds ==
    /\ \A b \in BOOLEAN : CallFrame(b) \in Frames /\ CallFrame(b).kind = "call"
                          /\ CallFrame(b).active = b
    /\ \A i \in Pages : PageFrame(i) \in Frames /\ PageFrame(i).kind = "page"
                        /\ PageFrame(i).index = i
    /\ \A f \in Frames :
          \/ f.kind = "call" /\ f.active \in BOOLEAN /\ f = CallFrame(f.active)
          \/ f.kind = "page" /\ f.index \in Pages /\ f = PageFrame(f.index)
<1>1. \A b \in BOOLEAN : CallFrame(b) \in Frames
  BY DEF Frames
<1>2. \A b \in BOOLEAN : CallFrame(b).kind = "call" /\ CallFrame(b).active = b
  BY DEF CallFrame
<1>3. \A i \in Pages : PageFrame(i) \in Frames
  BY DEF Frames
<1>4. \A i \in Pages : PageFrame(i).kind = "page" /\ PageFrame(i).index = i
  BY DEF PageFrame
<1>5. \A f \in Frames : (\E b \in BOOLEAN : f = CallFrame(b)) \/ (\E i \in Pages : f = PageFrame(i))
  BY DEF Frames
<1>6. ASSUME NEW f \in Frames
      PROVE  \/ f.kind = "call" /\ f.active \in BOOLEAN /\ f = CallFrame(f.active)
             \/ f.kind = "page" /\ f.index \in Pages /\ f = PageFrame(f.index)
  <2>1. CASE \E b \in BOOLEAN : f = CallFrame(b)
    <3>1. PICK b \in BOOLEAN : f = CallFrame(b)
      BY <2>1
    <3>2. f.kind = "call" /\ f.active = b
      BY <1>2, <3>1
    <3> QED BY <3>1, <3>2
  <2>2. CASE \E i \in Pages : f = PageFrame(i)
    <3>1. PICK i \in Pages : f = PageFrame(i)
      BY <2>2
    <3>2. f.kind = "page" /\ f.index = i
      BY <1>4, <3>1
    <3> QED BY <3>1, <3>2
  <2> QED BY <1>5, <2>1, <2>2
<1> QED BY <1>1, <1>2, <1>3, <1>4, <1>6

LEMMA AppendIsLast ==
    ASSUME NEW q \in Seq(Frames), NEW f \in Frames
    PROVE  Append(q, f) \in Seq(Frames) /\ LastIn(Append(q, f), f)
<1>1. Append(q, f) \in Seq(Frames) /\ Len(Append(q, f)) = Len(q) + 1 /\ Append(q, f)[Len(q) + 1] = f
  OBVIOUS
<1>2. Len(q) \in Nat
  OBVIOUS
<1> QED BY <1>1, <1>2 DEF LastIn

LEMMA AppendOfAnother ==
    ASSUME NEW q \in Seq(Frames), NEW g \in Frames, NEW f \in Frames, g.kind # f.kind, NEW b
    PROVE  /\ Comes(q, f, b) => Comes(Append(q, g), f, b)
           /\ NoneIn(q, f.kind) => NoneIn(Append(q, g), f.kind)
<1>1. /\ Append(q, g) \in Seq(Frames) /\ Len(Append(q, g)) = Len(q) + 1 /\ Len(q) \in Nat
      /\ Append(q, g)[Len(q) + 1] = g
      /\ \A i \in 1 .. Len(q) : Append(q, g)[i] = q[i]
  OBVIOUS
<1>2. \A i \in 1 .. Len(Append(q, g)) : i \in 1 .. Len(q) \/ i = Len(q) + 1
  BY <1>1
<1>3. NoneIn(q, f.kind) => NoneIn(Append(q, g), f.kind)
  BY <1>1, <1>2 DEF NoneIn
<1>4. ASSUME LastIn(q, f) PROVE LastIn(Append(q, g), f)
  <2>1. PICK i \in 1 .. Len(q) : q[i] = f /\ \A j \in 1 .. Len(q) : j > i => q[j].kind # f.kind
    BY <1>4 DEF LastIn
  <2>2. i \in 1 .. Len(Append(q, g)) /\ Append(q, g)[i] = f
    BY <1>1, <2>1
  <2>3. \A j \in 1 .. Len(Append(q, g)) : j > i => Append(q, g)[j].kind # f.kind
    BY <1>1, <1>2, <2>1
  <2> QED BY <2>2, <2>3 DEF LastIn
<1> QED BY <1>3, <1>4 DEF Comes

LEMMA TailForgets ==
    ASSUME NEW q \in Seq(Frames), q # <<>>, NEW f \in Frames, NEW b
    PROVE  /\ Head(q) \in Frames /\ Tail(q) \in Seq(Frames)
           /\ NoneIn(q, f.kind) => Head(q).kind # f.kind /\ NoneIn(Tail(q), f.kind)
           /\ Comes(q, f, b) /\ Head(q).kind # f.kind => Comes(Tail(q), f, b)
           /\ Comes(q, f, b) /\ Head(q).kind = f.kind => Comes(Tail(q), f, Head(q) = f)
<1> DEFINE n == Len(q) - 1
<1>1. /\ Head(q) = q[1] /\ Head(q) \in Frames /\ Tail(q) \in Seq(Frames)
      /\ Len(q) \in Nat \ {0} /\ Len(Tail(q)) = n /\ n \in Nat
      /\ \A i \in 1 .. n : Tail(q)[i] = q[i + 1]
  OBVIOUS
<1>2. \A i \in 1 .. Len(q) : i = 1 \/ (i - 1 \in 1 .. n /\ Tail(q)[i - 1] = q[i])
  BY <1>1
<1>3. \A i \in 1 .. n : i + 1 \in 1 .. Len(q) /\ i + 1 > 1
  BY <1>1
<1>4. NoneIn(q, f.kind) => Head(q).kind # f.kind /\ NoneIn(Tail(q), f.kind)
  BY <1>1, <1>3 DEF NoneIn
<1>5. ASSUME LastIn(q, f) PROVE LastIn(Tail(q), f) \/ (Head(q) = f /\ NoneIn(Tail(q), f.kind))
  <2>1. PICK i \in 1 .. Len(q) : q[i] = f /\ \A j \in 1 .. Len(q) : j > i => q[j].kind # f.kind
    BY <1>5 DEF LastIn
  <2>2. CASE i = 1
    BY <1>1, <1>3, <2>1, <2>2 DEF NoneIn
  <2>3. CASE i # 1
    <3>1. i - 1 \in 1 .. Len(Tail(q)) /\ Tail(q)[i - 1] = f
      BY <1>1, <1>2, <2>1, <2>3
    <3>2. ASSUME NEW j \in 1 .. Len(Tail(q)), j > i - 1 PROVE Tail(q)[j].kind # f.kind
      <4>1. j + 1 \in 1 .. Len(q) /\ j + 1 > i /\ Tail(q)[j] = q[j + 1]
        BY <1>1, <1>3, <3>2
      <4> QED BY <2>1, <4>1
    <3> QED BY <3>1, <3>2 DEF LastIn
  <2> QED BY <2>2, <2>3
<1>6. Comes(q, f, b) /\ Head(q).kind # f.kind => Comes(Tail(q), f, b)
  BY <1>4, <1>5 DEF Comes
<1>7. Comes(q, f, b) /\ Head(q).kind = f.kind => Comes(Tail(q), f, Head(q) = f)
  BY <1>4, <1>5 DEF Comes
<1> QED BY <1>1, <1>4, <1>6, <1>7

LEMMA ReplayTells ==
    ASSUME NEW active \in BOOLEAN, NEW index \in Pages \union {NoPage}
    PROVE  /\ Replay(active, index) \in Seq(Frames)
           /\ active => LastIn(Replay(active, index), CallFrame(TRUE))
           /\ index # NoPage => LastIn(Replay(active, index), PageFrame(index))
           /\ index = NoPage => NoneIn(Replay(active, index), "page")
<1> DEFINE q == Replay(active, index)
           f == CallFrame(TRUE)
           g == PageFrame(index)
<1>1. f \in Frames /\ f.kind = "call" /\ (index # NoPage => g \in Frames /\ g.kind = "page")
  BY FrameKinds
<1> HIDE DEF f, g
<1>2. CASE active /\ index # NoPage
  <2>1. q = <<f>> \o <<g>>
    BY <1>2 DEF Replay, f, g
  <2> HIDE DEF q
  <2>2. q \in Seq(Frames) /\ Len(q) = 2 /\ q[1] = f /\ q[2] = g
    <3>1. <<f>> \in Seq(Frames) /\ Len(<<f>>) = 1 /\ <<f>>[1] = f
      BY <1>1
    <3>2. <<g>> \in Seq(Frames) /\ Len(<<g>>) = 1 /\ <<g>>[1] = g
      BY <1>1, <1>2
    <3> QED BY <2>1, <3>1, <3>2, ConcatProperties
  <2>3. \A i \in 1 .. Len(q) : i = 1 \/ i = 2
    BY <2>2
  <2>4. LastIn(q, f) /\ LastIn(q, g)
    BY <1>1, <1>2, <2>2, <2>3 DEF LastIn
  <2> QED BY <1>2, <2>2, <2>4 DEF q, f, g
<1>3. CASE active /\ index = NoPage
  <2>1. q = <<f>> \o <<>>
    BY <1>3 DEF Replay, f
  <2> HIDE DEF q
  <2>2. q \in Seq(Frames) /\ Len(q) = 1 /\ q[1] = f
    <3>1. <<f>> \in Seq(Frames) /\ Len(<<f>>) = 1 /\ <<f>>[1] = f
      BY <1>1
    <3> QED BY <2>1, <3>1, ConcatEmptySeq
  <2>3. \A i \in 1 .. Len(q) : i = 1
    BY <2>2
  <2>4. LastIn(q, f) /\ NoneIn(q, "page")
    BY <1>1, <2>2, <2>3 DEF LastIn, NoneIn
  <2> QED BY <1>3, <2>2, <2>4 DEF q, f
<1>4. CASE ~active /\ index # NoPage
  <2>1. q = <<g>>
    BY <1>4 DEF Replay, f, g
  <2> HIDE DEF q
  <2>2. q \in Seq(Frames) /\ Len(q) = 1 /\ q[1] = g
    BY <1>1, <1>4, <2>1
  <2>3. \A i \in 1 .. Len(q) : i = 1
    BY <2>2
  <2>4. LastIn(q, g)
    BY <2>2, <2>3 DEF LastIn
  <2> QED BY <1>4, <2>2, <2>4 DEF q, g
<1>5. CASE ~active /\ index = NoPage
  <2>1. q = <<>>
    BY <1>5 DEF Replay
  <2> HIDE DEF q
  <2>2. q \in Seq(Frames) /\ NoneIn(q, "page")
    BY <2>1 DEF NoneIn
  <2> QED BY <1>5, <2>2 DEF q
<1> QED BY <1>2, <1>3, <1>4, <1>5

-----------------------------------------------------------------------------
(* A page that takes a new state. *)

LEMMA FollowedKeeps ==
    ASSUME NEW p \in People, NEW was \in Client, NEW c \in Client
    PROVE  /\ Followed(p, was, c) \in Client
           /\ Followed(p, was, c).told = c.told
           /\ Followed(p, was, c).shown = c.shown
<1>1. Asked(c) \in Client /\ Asked(c).told = c.told /\ Asked(c).shown = c.shown
  BY DEF Asked, Client, Allowed
<1>2. Over(was, c) \in Client /\ Over(was, c).told = c.told /\ Over(was, c).shown = c.shown
  BY DEF Over, Client
<1>3. ASSUME NEW d \in Client
      PROVE  LET e == [d EXCEPT !.want = @ /\ Allowed(c)]
             IN  e \in Client /\ e.told = d.told /\ e.shown = d.shown
  BY DEF Client, Allowed
<1> QED BY <1>1, <1>2, <1>3 DEF Followed

LEMMA SwitchedIsSilent ==
    ASSUME NEW was \in Client, NEW c \in Client, NEW a \in Media, Silent(was, a)
    PROVE  Switched(was, c, a) \in Media /\ Silent(c, Switched(was, c, a))
<1>1. Cancelled(a) \in Media /\ Silent(c, Cancelled(a))
  BY DEF Cancelled, Media, Silent, Stages
<1>2. ASSUME Enabled(c)
      PROVE  [a EXCEPT !.start = "asking"] \in Media /\ Silent(c, [a EXCEPT !.start = "asking"])
  BY <1>2 DEF Media, Silent, Stages
<1>3. Enabled(c) = Enabled(was) => Silent(c, a)
  BY DEF Silent
<1> QED BY <1>1, <1>2, <1>3 DEF Switched

LEMMA RendersEffect ==
    ASSUME Typed, AllSilent, NEW p \in People, NEW c \in Client, NEW a \in Media,
           NEW frames \in Seq(Frames), Silent(client[p], a), Renders(p, c, a, frames)
    PROVE  /\ client' \in [People -> Client] /\ av' \in [People -> Media]
           /\ sent' \in Seq(Frames)
           /\ AllSilent'
           /\ client'[p].told = c.told /\ client'[p].shown = c.shown
           /\ \A q \in People : q # p => client'[q] = client[q]
<1> DEFINE f == Followed(p, client[p], c)
           b == Switched(client[p], f, a)
           news == Announces(p, f, b)
           told == f.want /\ (f.announced \/ news)
           d == [f EXCEPT !.announced = told]
<1>1. client[p] \in Client
  BY DEF Typed
<1>2. f \in Client /\ f.told = c.told /\ f.shown = c.shown
  BY <1>1, FollowedKeeps
<1>3. b \in Media /\ Silent(f, b)
  BY <1>1, <1>2, SwitchedIsSilent
<1>4. /\ client' = [client EXCEPT ![p] = d]
      /\ av' = [av EXCEPT ![p] = b]
      /\ sent' = IF news THEN Posted(p, frames, CallFrame(TRUE)) ELSE frames
  BY DEF Renders
<1>5. told \in BOOLEAN
  OBVIOUS
<1> HIDE DEF f, b, news, told
<1>6. d \in Client /\ d.told = c.told /\ d.shown = c.shown /\ Enabled(d) = Enabled(f)
  BY <1>2, <1>5 DEF Client, Enabled, Allowed
<1> HIDE DEF d
<1>7. /\ client' \in [People -> Client] /\ client'[p] = d
      /\ \A q \in People : q # p => client'[q] = client[q]
  BY <1>4, <1>6 DEF Typed
<1>8. /\ av' \in [People -> Media] /\ av'[p] = b
      /\ \A q \in People : q # p => av'[q] = av[q]
  BY <1>3, <1>4 DEF Typed
<1>9. sent' \in Seq(Frames)
  <2>1. CallFrame(TRUE) \in Frames
    BY FrameKinds
  <2>2. Append(frames, CallFrame(TRUE)) \in Seq(Frames)
    BY <2>1, AppendIsLast
  <2> QED BY <1>4, <2>2 DEF Posted
<1>10. AllSilent'
  <2>1. Silent(d, b)
    BY <1>3, <1>6 DEF Silent
  <2>2. \A q \in People : Silent(client'[q], av'[q])
    BY <1>7, <1>8, <2>1 DEF AllSilent
  <2>3. AllSilent' <=> \A q \in People : Silent(client'[q], av'[q])
    BY DEF AllSilent, Silent, Enabled, Allowed
  <2> QED BY <2>2, <2>3
<1> QED BY <1>6, <1>7, <1>8, <1>9, <1>10

-----------------------------------------------------------------------------
(* What a student knows, when its socket stays or goes. *)

LEMMA KnowledgeStays ==
    ASSUME Kept, call' => call, turned' = turned,
           \A s \in Students :
              \/ /\ client'[s].told = client[s].told /\ client'[s].shown = client[s].shown
                 /\ heard'[s] = heard[s] /\ (s \in on' => s \in on)
              \/ /\ s \notin on' /\ heard'[s] = <<>>
                 /\ client'[s].shown \in {client[s].shown, 0}
    PROVE  AllKnow'
<1> SUFFICES ASSUME NEW s \in Students
             PROVE  /\ s \in on' /\ call' => Comes(heard'[s], CallFrame(TRUE), client'[s].told)
                    /\ IF turned' = NoPage THEN NoneIn(heard'[s], "page") /\ client'[s].shown = 0
                       ELSE s \in on' => Comes(heard'[s], PageFrame(turned'), client'[s].shown = turned')
  BY DEF AllKnow, CallComes, PageComes
<1>1. /\ s \in on /\ call => Comes(heard[s], CallFrame(TRUE), client[s].told)
      /\ IF turned = NoPage THEN NoneIn(heard[s], "page") /\ client[s].shown = 0
         ELSE s \in on => Comes(heard[s], PageFrame(turned), client[s].shown = turned)
  BY DEF Kept, AllKnow, CallComes, PageComes
<1>2. CASE /\ client'[s].told = client[s].told /\ client'[s].shown = client[s].shown
           /\ heard'[s] = heard[s] /\ (s \in on' => s \in on)
  BY <1>1, <1>2
<1>3. CASE s \notin on' /\ heard'[s] = <<>> /\ client'[s].shown \in {client[s].shown, 0}
  <2>1. NoneIn(<<>>, "page")
    BY DEF NoneIn
  <2> QED BY <1>1, <1>3, <2>1
<1> QED BY <1>2, <1>3

\* A step of p's page or of its media session, with no frame arriving.
LEMMA PageSteps ==
    ASSUME Kept, NEW p \in People, NEW c \in Client, NEW a \in Media,
           NEW frames \in Seq(Frames), Silent(client[p], a), Renders(p, c, a, frames),
           UNCHANGED <<server, on, ghost, heard>>, evict' \subseteq People,
           c.told = client[p].told, p \in Students => c.shown = client[p].shown
    PROVE  Kept'
<1>1. /\ client' \in [People -> Client] /\ av' \in [People -> Media]
      /\ sent' \in Seq(Frames)
      /\ AllSilent'
      /\ client'[p].told = c.told /\ client'[p].shown = c.shown
      /\ \A q \in People : q # p => client'[q] = client[q]
  BY RendersEffect DEF Kept
<1>2. UNCHANGED <<role, call, turned, on, ghost, heard>>
  BY DEF server
<1>3. Typed' /\ FramesOK'
  BY <1>1, <1>2 DEF Kept, Typed, FramesOK
<1>4. SocketsAreGranted'
  BY <1>2 DEF Kept, SocketsAreGranted, Granted
<1>5. AllKnow'
  <2>1. \A s \in Students : client'[s].told = client[s].told /\ client'[s].shown = client[s].shown
    BY <1>1 DEF People
  <2> QED BY <1>2, <2>1, KnowledgeStays
<1> QED BY <1>1, <1>3, <1>4, <1>5 DEF Kept

\* A step that changes p's session only, without the effects of its page.
LEMMA SessionSteps ==
    ASSUME Kept, NEW p \in People, NEW a \in Media, Silent(client[p], a),
           av' = [av EXCEPT ![p] = a],
           UNCHANGED <<server, links, client>>, evict' \subseteq People
    PROVE  Kept'
<1>1. UNCHANGED <<role, call, turned, on, ghost, sent, heard, client>>
  BY DEF server, links
<1>2. av' \in [People -> Media] /\ av'[p] = a /\ \A q \in People : q # p => av'[q] = av[q]
  BY DEF Kept, Typed
<1>3. Typed' /\ FramesOK'
  BY <1>1, <1>2 DEF Kept, Typed, FramesOK
<1>4. SocketsAreGranted'
  BY <1>1 DEF Kept, SocketsAreGranted, Granted
<1>5. AllSilent'
  BY <1>1, <1>2 DEF Kept, AllSilent, Silent, Enabled, Allowed
<1>6. AllKnow'
  BY <1>1, KnowledgeStays
<1> QED BY <1>3, <1>4, <1>5, <1>6 DEF Kept

\* What a page knows of p's own state and session.
LEMMA OwnState ==
    ASSUME Kept, NEW p \in People
    PROVE  /\ client[p] \in Client /\ av[p] \in Media /\ Silent(client[p], av[p])
           /\ heard[p] \in Seq(Frames) /\ sent \in Seq(Frames)
BY DEF Kept, Typed, FramesOK, AllSilent

LEMMA PostedIsSent ==
    ASSUME NEW p \in People, NEW frames \in Seq(Frames), NEW f \in Frames
    PROVE  Posted(p, frames, f) \in Seq(Frames)
BY AppendIsLast DEF Posted

-----------------------------------------------------------------------------
(* The people. *)

LEMMA ButtonsKeep ==
    ASSUME Kept, NEW p \in People, PressStart(p) \/ Confirm(p) \/ Decline(p) \/ Leave(p)
    PROVE  Kept'
<1>1. client[p] \in Client /\ av[p] \in Media /\ Silent(client[p], av[p]) /\ sent \in Seq(Frames)
  BY OwnState
<1>2. ASSUME NEW c \in Client, c.told = client[p].told, c.shown = client[p].shown,
             Renders(p, c, av[p], sent), Here(p)
      PROVE  Kept'
  <2>1. UNCHANGED <<server, on, ghost, heard>> /\ evict' \subseteq People
    BY <1>2 DEF Here, Kept, Typed
  <2> QED BY <1>1, <1>2, <2>1, PageSteps
<1>3. CASE PressStart(p)
  <2>1. LET c == [client[p] EXCEPT !.check = TRUE]
        IN  c \in Client /\ c.told = client[p].told /\ c.shown = client[p].shown
    BY <1>1 DEF Client
  <2> QED BY <1>2, <1>3, <2>1 DEF PressStart
<1>4. CASE Confirm(p)
  <2>1. LET c == [client[p] EXCEPT !.answered = TRUE, !.check = FALSE, !.want = TRUE]
        IN  c \in Client /\ c.told = client[p].told /\ c.shown = client[p].shown
    BY <1>1 DEF Client
  <2> QED BY <1>2, <1>4, <2>1 DEF Confirm
<1>5. CASE Decline(p)
  <2>1. LET c == [client[p] EXCEPT !.answered = TRUE, !.check = FALSE]
        IN  c \in Client /\ c.told = client[p].told /\ c.shown = client[p].shown
    BY <1>1 DEF Client
  <2> QED BY <1>2, <1>5, <2>1 DEF Decline
<1>6. CASE Leave(p)
  <2>1. LET c == [client[p] EXCEPT !.want = FALSE]
        IN  c \in Client /\ c.told = client[p].told /\ c.shown = client[p].shown
    BY <1>1 DEF Client
  <2> QED BY <1>2, <1>6, <2>1 DEF Leave
<1> QED BY <1>3, <1>4, <1>5, <1>6

LEMMA HostKeeps ==
    ASSUME Kept, EndForEveryone \/ TurnPage
    PROVE  Kept'
<1>1. Host \in People /\ Host \notin Students
  BY HostAssumption DEF People
<1>2. client[Host] \in Client /\ av[Host] \in Media /\ Silent(client[Host], av[Host])
      /\ sent \in Seq(Frames)
  BY <1>1, OwnState
<1>3. ASSUME NEW c \in Client, NEW f \in Frames, c.told = client[Host].told,
             Renders(Host, c, av[Host], Posted(Host, sent, f)), Here(Host)
      PROVE  Kept'
  <2>1. UNCHANGED <<server, on, ghost, heard>> /\ evict' \subseteq People
    BY <1>3 DEF Here, Kept, Typed
  <2>2. Posted(Host, sent, f) \in Seq(Frames)
    BY <1>1, <1>2, <1>3, PostedIsSent
  <2> QED BY <1>1, <1>2, <1>3, <2>1, <2>2, PageSteps
<1>4. CASE EndForEveryone
  <2>1. LET c == [client[Host] EXCEPT !.want = FALSE]
        IN  c \in Client /\ c.told = client[Host].told
    BY <1>2 DEF Client
  <2>2. CallFrame(FALSE) \in Frames
    BY FrameKinds
  <2> QED BY <1>3, <1>4, <2>1, <2>2 DEF EndForEveryone
<1>5. CASE TurnPage
  <2> DEFINE index == 1 - client[Host].shown
  <2>1. index \in Pages
    BY <1>2 DEF Client, Pages
  <2>2. LET c == [client[Host] EXCEPT !.shown = index]
        IN  c \in Client /\ c.told = client[Host].told
    BY <1>2, <2>1 DEF Client
  <2>3. PageFrame(index) \in Frames
    BY <2>1, FrameKinds
  <2> QED BY <1>3, <1>5, <2>2, <2>3 DEF TurnPage
<1> QED BY <1>4, <1>5

-----------------------------------------------------------------------------
(* The media sessions. *)

LEMMA DroppedIsSilent ==
    ASSUME NEW c \in Client, NEW a \in Media, Silent(c, a), a.sfu = "now"
    PROVE  Dropped(a) \in Media /\ Silent(c, Dropped(a)) /\ Dropped(a).stray = a.stray
<1>1. Dropped(a) \in Media /\ Dropped(a).stray = a.stray
  BY DEF Dropped, Media, Stages
<1>2. Silent(c, Dropped(a))
  BY DEF Dropped, Media, Silent
<1> QED BY <1>1, <1>2

LEMMA SessionKeeps ==
    ASSUME Kept, NEW p \in People, Session(p)
    PROVE  Kept'
<1> DEFINE a == av[p]
<1>1. client[p] \in Client /\ a \in Media /\ Silent(client[p], a) /\ sent \in Seq(Frames)
  BY OwnState
<1>2. ASSUME NEW b \in Media, Silent(client[p], b), Steps(p, b)
      PROVE  Kept'
  <2>1. UNCHANGED <<server, on, ghost, heard>> /\ evict' \subseteq People /\ Renders(p, client[p], b, sent)
    BY <1>2 DEF Steps, Here, Kept, Typed
  <2> QED BY <1>1, <1>2, <2>1, PageSteps
<1>3. ASSUME a.start # "off" PROVE Enabled(client[p])
  BY <1>1, <1>3 DEF Silent
<1>4. CASE Mint(p)
  <2> DEFINE b == [a EXCEPT !.start = IF TokenFor(p) THEN "connecting" ELSE "failed"]
  <2>1. a.start # "off" /\ Steps(p, b)
    BY <1>4 DEF Mint
  <2>2. b \in Media
    BY <1>1 DEF Media, Stages
  <2>3. Silent(client[p], b)
    BY <1>1, <1>3, <2>1 DEF Media, Silent
  <2> QED BY <1>2, <2>1, <2>2, <2>3
<1>5. CASE Reach(p)
  <2> DEFINE b == [a EXCEPT !.start = "publishing", !.sfu = "now", !.mic = @ \ {"before"}]
  <2>1. a.start # "off" /\ Steps(p, b)
    BY <1>5 DEF Reach
  <2>2. b \in Media
    BY <1>1 DEF Media, Stages
  <2>3. Silent(client[p], b)
    BY <1>1, <1>3, <2>1 DEF Media, Silent
  <2> QED BY <1>2, <2>1, <2>2, <2>3
<1>6. ASSUME NEW taken \in {{}, {"now"}}, Publish(p, taken) PROVE Kept'
  <2> DEFINE b == [a EXCEPT !.start = "joined", !.mic = @ \union taken]
  <2>1. a.start # "off" /\ Steps(p, b)
    BY <1>6 DEF Publish
  <2>2. b \in Media
    BY <1>1, <1>6 DEF Media, Stages
  <2>3. Silent(client[p], b)
    BY <1>1, <1>3, <1>6, <2>1 DEF Media, Silent
  <2> QED BY <1>2, <2>1, <2>2, <2>3
<1>7. CASE StrayReaches(p)
  <2> DEFINE others == a.stray \ {"connecting"}
             b == [a EXCEPT !.stray = others]
             d == IF a.sfu = "now" THEN Dropped(a) ELSE a
             e == [d EXCEPT !.stray = others \union {"publishing"}, !.sfu = "before"]
  <2>1. Steps(p, b) \/ Steps(p, e)
    BY <1>7 DEF StrayReaches
  <2>2. b \in Media /\ Silent(client[p], b)
    BY <1>1 DEF Media, Silent
  <2>3. d \in Media /\ Silent(client[p], d)
    BY <1>1, DroppedIsSilent
  <2> HIDE DEF d
  <2>4. e \in Media /\ Silent(client[p], e)
    BY <1>1, <2>3 DEF Media, Silent
  <2> QED BY <1>2, <2>1, <2>2, <2>4
<1>8. ASSUME NEW taken \in {{}, {"before"}}, StrayEnds(p, taken) PROVE Kept'
  <2> DEFINE b == Left([a EXCEPT !.mic = @ \union taken])
  <2>1. Steps(p, b)
    BY <1>8 DEF StrayEnds
  <2>2. b \in Media
    BY <1>1, <1>8 DEF Media, Left
  <2>3. Silent(client[p], b)
    BY <1>1, <1>8 DEF Media, Silent, Left
  <2> QED BY <1>2, <2>1, <2>2, <2>3
<1> QED BY <1>4, <1>5, <1>6, <1>7, <1>8 DEF Session

LEMMA RetryKeeps ==
    ASSUME Kept, NEW p \in People, Retry(p)
    PROVE  Kept'
<1> DEFINE b == [Cancelled(av[p]) EXCEPT !.start = "asking"]
<1>1. client[p] \in Client /\ av[p] \in Media /\ Silent(client[p], av[p])
  BY OwnState
<1>2. /\ Enabled(client[p]) /\ UNCHANGED <<server, links, client>> /\ evict' \subseteq People
      /\ av' = [av EXCEPT ![p] = b]
  BY DEF Retry, Kept, Typed
<1>3. b \in Media /\ Silent(client[p], b)
  BY <1>1, <1>2 DEF Cancelled, Media, Silent, Stages
<1> QED BY <1>2, <1>3, SessionSteps

LEMMA FailureKeeps ==
    ASSUME Kept, NEW p \in People, RequestFails(p) \/ EvictionFails(p)
    PROVE  Kept'
<1>1. client[p] \in Client /\ av[p] \in Media /\ Silent(client[p], av[p])
  BY OwnState
<1>2. CASE RequestFails(p)
  <2> DEFINE b == [av[p] EXCEPT !.start = "failed"]
  <2>1. /\ UNCHANGED <<server, links, client>> /\ evict' \subseteq People
        /\ av[p].start # "off" /\ av' = [av EXCEPT ![p] = b]
    BY <1>2 DEF RequestFails, Kept, Typed
  <2>2. b \in Media /\ Silent(client[p], b)
    BY <1>1, <2>1 DEF Media, Silent, Stages
  <2> QED BY <2>1, <2>2, SessionSteps
<1>3. CASE EvictionFails(p)
  <2>1. UNCHANGED <<server, links, client>> /\ evict' \subseteq People /\ av' = [av EXCEPT ![p] = av[p]]
    BY <1>3 DEF EvictionFails, Kept, Typed
  <2> QED BY <1>1, <2>1, SessionSteps
<1> QED BY <1>2, <1>3

LEMMA EvictedKeeps ==
    ASSUME Kept, NEW p \in People, Evicted(p)
    PROVE  Kept'
<1> DEFINE b == CASE av[p].sfu = "now" -> Dropped(av[p])
                  [] av[p].sfu = "before" -> [av[p] EXCEPT !.sfu = "none"]
                  [] OTHER -> av[p]
<1>1. client[p] \in Client /\ av[p] \in Media /\ Silent(client[p], av[p]) /\ sent \in Seq(Frames)
  BY OwnState
<1>2. /\ UNCHANGED <<server, on, ghost, heard>> /\ evict' \subseteq People
      /\ Renders(p, client[p], b, sent)
  BY DEF Evicted, Kept, Typed
<1>3. b \in Media /\ Silent(client[p], b)
  <2>1. CASE av[p].sfu = "now"
    BY <1>1, <2>1, DroppedIsSilent
  <2>2. CASE av[p].sfu = "before"
    <3> DEFINE d == [av[p] EXCEPT !.sfu = "none"]
    <3>1. d \in Media /\ Silent(client[p], d)
      BY <1>1, <2>2 DEF Media, Silent
    <3>2. b = d
      BY <2>2
    <3> QED BY <3>1, <3>2
  <2>3. CASE av[p].sfu # "now" /\ av[p].sfu # "before"
    BY <1>1, <2>3
  <2> QED BY <2>1, <2>2, <2>3
<1> QED BY <1>1, <1>2, <1>3, PageSteps

-----------------------------------------------------------------------------
(* Sockets that go. *)

LEMMA CutForgets ==
    ASSUME Kept, NEW p \in People, Cut(p), UNCHANGED <<call, turned>>,
           \A q \in People : q # p =>
               client'[q].told = client[q].told /\ client'[q].shown = client[q].shown,
           client'[p].shown \in {client[p].shown, 0}
    PROVE  /\ on' \subseteq on /\ on' \subseteq People /\ ghost' \subseteq People
           /\ heard' \in [People -> Seq(Frames)]
           /\ AllKnow'
<1>1. on' = on \ {p} /\ ghost' \subseteq People /\ heard' = [heard EXCEPT ![p] = <<>>]
  BY DEF Cut, Hushed, Kept, Typed
<1>2. <<>> \in Seq(Frames)
  OBVIOUS
<1>3. heard' \in [People -> Seq(Frames)] /\ heard'[p] = <<>>
      /\ \A q \in People : q # p => heard'[q] = heard[q]
  BY <1>1, <1>2 DEF Kept, FramesOK
<1>4. AllKnow'
  BY <1>1, <1>3, KnowledgeStays DEF People
<1> QED BY <1>1, <1>3, <1>4 DEF Kept, Typed

LEMMA UnsentIsSent ==
    ASSUME NEW p, NEW frames \in Seq(Frames)
    PROVE  Unsent(p, frames) \in Seq(Frames)
BY DEF Unsent

LEMMA DropKeeps ==
    ASSUME Kept, NEW p \in People, Drop(p)
    PROVE  Kept'
<1>1. UNCHANGED <<role, call, turned, client, av, evict>> /\ Cut(p) /\ sent' = Unsent(p, sent)
  BY DEF Drop, server, media
<1>2. /\ on' \subseteq on /\ on' \subseteq People /\ ghost' \subseteq People
      /\ heard' \in [People -> Seq(Frames)] /\ AllKnow'
  BY <1>1, CutForgets
<1>3. Typed' /\ FramesOK'
  BY <1>1, <1>2, UnsentIsSent DEF Kept, Typed, FramesOK
<1>4. SocketsAreGranted' /\ AllSilent'
  BY <1>1, <1>2 DEF Kept, SocketsAreGranted, Granted, AllSilent, Silent, Enabled, Allowed
<1> QED BY <1>2, <1>3, <1>4 DEF Kept

LEMMA ReloadKeeps ==
    ASSUME Kept, NEW p \in People, Reload(p)
    PROVE  Kept'
<1>1. /\ UNCHANGED <<role, call, turned, evict>> /\ Cut(p) /\ sent' = Unsent(p, sent)
      /\ client' = [client EXCEPT ![p] = Fresh(p)] /\ av' = [av EXCEPT ![p] = Idle]
  BY DEF Reload, server
<1>2. Fresh(p) \in Client /\ Fresh(p).shown = 0 /\ ~Fresh(p).want
  BY DEF Fresh, FirstView, Client, Pages
<1>3. Idle \in Media /\ Silent(Fresh(p), Idle)
  BY DEF Idle, Media, Stages, Silent
<1>4. /\ client' \in [People -> Client] /\ client'[p] = Fresh(p)
      /\ \A q \in People : q # p => client'[q] = client[q]
  BY <1>1, <1>2 DEF Kept, Typed
<1>5. /\ av' \in [People -> Media] /\ av'[p] = Idle
      /\ \A q \in People : q # p => av'[q] = av[q]
  BY <1>1, <1>3 DEF Kept, Typed
<1>6. /\ on' \subseteq on /\ on' \subseteq People /\ ghost' \subseteq People
      /\ heard' \in [People -> Seq(Frames)] /\ AllKnow'
  BY <1>1, <1>2, <1>4, CutForgets
<1>7. Typed' /\ FramesOK'
  BY <1>1, <1>4, <1>5, <1>6, UnsentIsSent DEF Kept, Typed, FramesOK
<1>8. SocketsAreGranted'
  BY <1>1, <1>6 DEF Kept, SocketsAreGranted, Granted
<1>9. AllSilent'
  <2>1. \A q \in People : Silent(client'[q], av'[q])
    BY <1>3, <1>4, <1>5 DEF Kept, AllSilent
  <2> QED BY <2>1 DEF AllSilent, Silent, Enabled, Allowed
<1> QED BY <1>6, <1>7, <1>8, <1>9 DEF Kept

LEMMA RemoveKeeps ==
    ASSUME Kept, NEW s \in Students, NEW as \in {"waiting", "banned"}, Remove(s, as)
    PROVE  Kept'
<1>1. /\ UNCHANGED <<call, turned, sent, client, av>> /\ Cut(s) /\ s \in People
      /\ role' = [role EXCEPT ![s] = as] /\ evict' = evict \union {s}
  BY DEF Remove, People
<1>2. /\ on' \subseteq on /\ on' \subseteq People /\ ghost' \subseteq People
      /\ heard' \in [People -> Seq(Frames)] /\ AllKnow'
  BY <1>1, CutForgets
<1>3. Typed' /\ FramesOK'
  BY <1>1, <1>2 DEF Kept, Typed, FramesOK
<1>4. SocketsAreGranted'
  <2>1. on' = on \ {s} /\ \A q \in People : q # s => role'[q] = role[q]
    BY <1>1 DEF Cut, Kept, Typed
  <2> QED BY <1>2, <2>1 DEF Kept, SocketsAreGranted, Granted
<1>5. AllSilent'
  BY <1>1 DEF Kept, AllSilent, Silent, Enabled, Allowed
<1> QED BY <1>2, <1>3, <1>4, <1>5 DEF Kept

LEMMA BeatsKeeps ==
    ASSUME Kept, NEW s \in Students, NEW asks \in {"beats", "rests", "lost"}, Beats(s, asks)
    PROVE  Kept'
<1> DEFINE c == [client[s] EXCEPT !.view = Seen(@, role[s]), !.asks = asks]
<1>1. s \in People
  BY DEF People
<1>2. /\ client[s] \in Client /\ av[s] \in Media /\ Silent(client[s], av[s])
      /\ sent \in Seq(Frames)
  BY <1>1, OwnState
<1>3. /\ Renders(s, c, av[s], sent) /\ UNCHANGED <<role, call, turned, evict>>
      /\ Cut(s) \/ UNCHANGED <<on, ghost, heard>>
  BY DEF Beats, server
<1>4. c \in Client /\ c.told = client[s].told /\ c.shown = client[s].shown
  BY <1>2 DEF Client, Seen
<1> HIDE DEF c
<1>5. /\ client' \in [People -> Client] /\ av' \in [People -> Media]
      /\ sent' \in Seq(Frames)
      /\ AllSilent'
      /\ client'[s].told = c.told /\ client'[s].shown = c.shown
      /\ \A q \in People : q # s => client'[q] = client[q]
  BY <1>1, <1>2, <1>3, <1>4, RendersEffect DEF Kept
<1>6. /\ on' \subseteq on /\ on' \subseteq People /\ ghost' \subseteq People
      /\ heard' \in [People -> Seq(Frames)] /\ AllKnow'
  <2>1. CASE Cut(s)
    BY <1>1, <1>3, <1>4, <1>5, <2>1, CutForgets
  <2>2. CASE UNCHANGED <<on, ghost, heard>>
    <3>1. \A q \in Students : client'[q].told = client[q].told /\ client'[q].shown = client[q].shown
      BY <1>4, <1>5 DEF People
    <3>2. AllKnow'
      BY <1>3, <2>2, <3>1, KnowledgeStays
    <3> QED BY <2>2, <3>2 DEF Kept, Typed, FramesOK
  <2> QED BY <1>3, <2>1, <2>2
<1>7. Typed' /\ FramesOK'
  BY <1>3, <1>5, <1>6 DEF Kept, Typed, FramesOK
<1>8. SocketsAreGranted'
  BY <1>3, <1>6 DEF Kept, SocketsAreGranted, Granted
<1> QED BY <1>5, <1>6, <1>7, <1>8 DEF Kept

\* Whether p's page asks is no part of what it knows or holds.
AsksOnly(p) ==
    /\ client' \in [People -> Client]
    /\ \A q \in People : /\ client'[q].told = client[q].told
                          /\ client'[q].shown = client[q].shown
                          /\ Enabled(client'[q]) = Enabled(client[q])

LEMMA AsksChange ==
    ASSUME Typed, NEW p \in People, NEW asks \in {"beats", "rests", "lost"},
           client' = [client EXCEPT ![p].asks = asks]
    PROVE  AsksOnly(p)
<1>1. /\ client \in [People -> Client]
      /\ client' = [client EXCEPT ![p] = [client[p] EXCEPT !.asks = asks]]
  BY DEF Typed
<1>2. PICK c : c = [client[p] EXCEPT !.asks = asks]
  OBVIOUS
<1>3. c \in Client /\ c.told = client[p].told /\ c.shown = client[p].shown /\ Enabled(c) = Enabled(client[p])
  BY <1>1, <1>2 DEF Client, Enabled, Allowed
<1>4. client' = [client EXCEPT ![p] = c]
  BY <1>1, <1>2
<1> QED BY <1>1, <1>3, <1>4 DEF AsksOnly

LEMMA SilenceOfAsking ==
    ASSUME AllSilent, NEW p, AsksOnly(p), av' = av
    PROVE  AllSilent'
<1>1. \A q \in People : Silent(client'[q], av'[q])
  BY DEF AllSilent, Silent, AsksOnly
<1>2. AllSilent' <=> \A q \in People : Silent(client'[q], av'[q])
  BY DEF AllSilent, Silent, Enabled, Allowed
<1> QED BY <1>1, <1>2

LEMMA RestKeeps ==
    ASSUME Kept, NEW s \in Students, Hides(s) \/ GivesUp(s)
    PROVE  Kept'
<1>1. /\ UNCHANGED <<role, call, turned, on, ghost, sent, heard, av, evict>>
      /\ \E asks \in {"beats", "rests", "lost"} : client' = [client EXCEPT ![s].asks = asks]
      /\ s \in People
  BY DEF Hides, GivesUp, server, links, media, People
<1>2. AsksOnly(s)
  BY <1>1, AsksChange DEF Kept
<1>3. Typed' /\ FramesOK'
  BY <1>1, <1>2 DEF Kept, Typed, FramesOK, AsksOnly
<1>4. SocketsAreGranted'
  BY <1>1 DEF Kept, SocketsAreGranted, Granted
<1>5. AllSilent'
  BY <1>1, <1>2, SilenceOfAsking DEF Kept
<1>6. AllKnow'
  BY <1>1, <1>2, KnowledgeStays DEF AsksOnly, People
<1> QED BY <1>3, <1>4, <1>5, <1>6 DEF Kept

-----------------------------------------------------------------------------
(* Sockets that come, and frames. *)

LEMMA ConnectKeeps ==
    ASSUME Kept, NEW p \in People, Connect(p)
    PROVE  Kept'
<1> DEFINE q == Replay(call, turned)
<1>1. /\ UNCHANGED <<role, call, turned, ghost, sent, av, evict>> /\ Granted(p)
      /\ on' = on \union {p} /\ heard' = [heard EXCEPT ![p] = q]
  BY DEF Connect, server, media
<1>0. AsksOnly(p)
  <2>1. PICK asks : asks = IF client[p].asks = "lost" THEN "beats" ELSE client[p].asks
    OBVIOUS
  <2>2. client' = [client EXCEPT ![p].asks = asks]
    BY <2>1 DEF Connect
  <2>3. asks \in {"beats", "rests", "lost"}
    BY <2>1 DEF Kept, Typed, Client
  <2> QED BY <2>2, <2>3, AsksChange DEF Kept
<1>2. /\ q \in Seq(Frames)
      /\ call => LastIn(q, CallFrame(TRUE))
      /\ turned # NoPage => LastIn(q, PageFrame(turned))
      /\ turned = NoPage => NoneIn(q, "page")
  BY ReplayTells DEF Kept, Typed
<1> HIDE DEF q
<1>3. heard' \in [People -> Seq(Frames)] /\ heard'[p] = q
      /\ \A r \in People : r # p => heard'[r] = heard[r]
  BY <1>1, <1>2 DEF Kept, FramesOK
<1>4. Typed' /\ FramesOK'
  BY <1>0, <1>1, <1>3 DEF Kept, Typed, FramesOK, AsksOnly
<1>5. SocketsAreGranted' /\ AllSilent'
  BY <1>0, <1>1, SilenceOfAsking DEF Kept, SocketsAreGranted, Granted
<1>6. ASSUME NEW s \in Students PROVE CallComes(s)' /\ PageComes(s)'
  <2>1. CallComes(s) /\ PageComes(s) /\ s \in People
    BY DEF Kept, AllKnow, People
  <2>0. client'[s].told = client[s].told /\ client'[s].shown = client[s].shown
    BY <1>0, <2>1 DEF AsksOnly
  <2>2. CASE s = p
    BY <2>0, <1>1, <1>2, <1>3, <2>1, <2>2 DEF CallComes, PageComes, Comes
  <2>3. CASE s # p
    BY <2>0, <1>1, <1>3, <2>1, <2>3 DEF CallComes, PageComes
  <2> QED BY <2>2, <2>3
<1> QED BY <1>4, <1>5, <1>6 DEF Kept, AllKnow

LEMMA GoneKeeps ==
    ASSUME Kept, NEW p \in People, Gone(p)
    PROVE  Kept'
<1>1. /\ UNCHANGED <<role, turned, on, sent, heard, client, av, evict>> /\ ghost' \subseteq ghost
      /\ call' \in BOOLEAN /\ (call' => call)
  BY DEF Gone, Farewell, media, Kept, Typed
<1>2. Typed' /\ FramesOK'
  BY <1>1 DEF Kept, Typed, FramesOK
<1>3. SocketsAreGranted' /\ AllSilent'
  BY <1>1 DEF Kept, SocketsAreGranted, Granted, AllSilent, Silent, Enabled, Allowed
<1>4. AllKnow'
  BY <1>1, KnowledgeStays
<1> QED BY <1>2, <1>3, <1>4 DEF Kept

LEMMA AdmitKeeps ==
    ASSUME Kept, NEW s \in Students, Admit(s)
    PROVE  Kept'
<1>1. /\ UNCHANGED <<call, turned, on, ghost, sent, heard, client, av, evict>>
      /\ role' = [role EXCEPT ![s] = "editor"] /\ s \in People
  BY DEF Admit, links, media, People
<1>2. Typed' /\ FramesOK'
  BY <1>1 DEF Kept, Typed, FramesOK
<1>3. SocketsAreGranted' /\ AllSilent'
  <2>1. \A p \in People : role'[p] = role[p] \/ role'[p] = "editor"
    BY <1>1 DEF Kept, Typed
  <2>2. on \subseteq People
    BY DEF Kept, Typed
  <2> QED BY <1>1, <2>1, <2>2 DEF Kept, SocketsAreGranted, Granted, AllSilent, Silent, Enabled, Allowed
<1>4. AllKnow'
  BY <1>1, KnowledgeStays
<1> QED BY <1>2, <1>3, <1>4 DEF Kept

\* What is stored, and what a student with a socket is sent, by the frame f.
LEMMA FrameKeeps ==
    ASSUME Kept, Frame
    PROVE  Kept'
<1> DEFINE f == Head(sent)
<1>1. /\ UNCHANGED <<role, on, ghost, client, av, evict>> /\ sent # <<>>
      /\ Stored(f) /\ Broadcast(f) /\ sent' = Tail(sent)
  BY DEF Frame, media
<1>2. sent \in Seq(Frames) /\ heard \in [People -> Seq(Frames)]
  BY DEF Kept, FramesOK
<1>3. f \in Frames /\ sent' \in Seq(Frames)
  BY <1>1, <1>2
<1> HIDE DEF f
<1>4. /\ f.kind = "call" \/ f.kind = "page"
      /\ f.kind = "call" => f.active \in BOOLEAN /\ f = CallFrame(f.active)
      /\ f.kind = "page" => f.index \in Pages /\ f = PageFrame(f.index)
  BY <1>3, FrameKinds
<1>5. /\ call' = IF f.kind = "call" THEN f.active ELSE call
      /\ turned' = IF f.kind = "page" THEN f.index ELSE turned
  BY <1>1 DEF Stored
<1>6. \A p \in People : heard[p] \in Seq(Frames) /\ Append(heard[p], f) \in Seq(Frames)
  BY <1>2, <1>3, AppendIsLast
<1>7. /\ heard' \in [People -> Seq(Frames)]
      /\ \A p \in People : heard'[p] = IF p \in on \ {Host} /\ Granted(p) THEN Append(heard[p], f)
                                        ELSE heard[p]
  BY <1>1, <1>6 DEF Broadcast
<1>8. Typed' /\ FramesOK'
  BY <1>1, <1>3, <1>4, <1>5, <1>7 DEF Kept, Typed, FramesOK
<1>9. SocketsAreGranted' /\ AllSilent'
  BY <1>1 DEF Kept, SocketsAreGranted, Granted, AllSilent, Silent, Enabled, Allowed
<1>10. ASSUME NEW s \in Students PROVE CallComes(s)' /\ PageComes(s)'
  <2> DEFINE q == heard[s]
             told == client[s].told
             shown == client[s].shown
  <2>1. /\ s \in on /\ call => Comes(q, CallFrame(TRUE), told)
        /\ IF turned = NoPage THEN NoneIn(q, "page") /\ shown = 0
           ELSE s \in on => Comes(q, PageFrame(turned), shown = turned)
    BY DEF Kept, AllKnow, CallComes, PageComes
  <2>2. s \in People /\ s # Host /\ q \in Seq(Frames)
    BY <1>6, HostAssumption DEF People
  <2>3. heard'[s] = IF s \in on THEN Append(q, f) ELSE q
    BY <1>7, <2>2 DEF Kept, SocketsAreGranted
  <2>4. call \in BOOLEAN /\ turned \in Pages \union {NoPage} /\ NoPage \notin Pages /\ 0 \in Pages
    BY DEF Kept, Typed, NoPage, Pages
  <2>5. s \in on' /\ call' => Comes(heard'[s], CallFrame(TRUE), told)
    <3> SUFFICES ASSUME s \in on, call' PROVE Comes(Append(q, f), CallFrame(TRUE), told)
      BY <1>1, <2>3
    <3>1. CASE f.kind = "call"
      <4>1. f = CallFrame(TRUE)
        BY <1>4, <1>5, <3>1
      <4> QED BY <1>3, <2>2, <4>1, AppendIsLast DEF Comes
    <3>2. CASE f.kind = "page"
      <4>1. CallFrame(TRUE) \in Frames /\ f.kind # CallFrame(TRUE).kind /\ call
        BY <1>5, <3>2, FrameKinds
      <4> QED BY <1>3, <2>1, <2>2, <4>1, AppendOfAnother
    <3> QED BY <1>4, <3>1, <3>2
  <2>6. turned' = NoPage => NoneIn(heard'[s], "page") /\ shown = 0
    <3> SUFFICES ASSUME turned' = NoPage PROVE NoneIn(heard'[s], "page") /\ shown = 0
      OBVIOUS
    <3>1. f.kind = "call" /\ turned = NoPage
      BY <1>4, <1>5, <2>4
    <3>2. PageFrame(0) \in Frames /\ PageFrame(0).kind = "page"
      BY <2>4, FrameKinds
    <3>3. f.kind # PageFrame(0).kind
      BY <3>1, <3>2
    <3>4. NoneIn(q, PageFrame(0).kind) /\ shown = 0
      BY <2>1, <3>1, <3>2
    <3>5. NoneIn(Append(q, f), PageFrame(0).kind)
      BY <1>3, <2>2, <3>2, <3>3, <3>4, AppendOfAnother
    <3> QED BY <2>3, <3>2, <3>4, <3>5
  <2>7. turned' # NoPage /\ s \in on => Comes(Append(q, f), PageFrame(turned'), shown = turned')
    <3> SUFFICES ASSUME turned' # NoPage, s \in on
                 PROVE  Comes(Append(q, f), PageFrame(turned'), shown = turned')
      OBVIOUS
    <3>1. CASE f.kind = "page"
      <4>1. f = PageFrame(turned')
        BY <1>4, <1>5, <3>1
      <4> QED BY <1>3, <2>2, <4>1, AppendIsLast DEF Comes
    <3>2. CASE f.kind = "call"
      <4>1. turned' = turned
        BY <1>5, <3>2
      <4>2. PageFrame(turned) \in Frames /\ f.kind # PageFrame(turned).kind
        BY <2>4, <3>2, <4>1, FrameKinds
      <4>3. Comes(q, PageFrame(turned), shown = turned)
        BY <2>1, <4>1
      <4>4. Comes(Append(q, f), PageFrame(turned), shown = turned)
        BY <1>3, <2>2, <4>2, <4>3, AppendOfAnother
      <4> QED BY <4>1, <4>4
    <3> QED BY <1>4, <3>1, <3>2
  <2> QED BY <1>1, <2>3, <2>5, <2>6, <2>7 DEF CallComes, PageComes
<1> QED BY <1>8, <1>9, <1>10 DEF Kept, AllKnow

LEMMA ArriveKeeps ==
    ASSUME Kept, NEW p \in People, Arrive(p)
    PROVE  Kept'
<1> DEFINE f == Head(heard[p])
           c == IF f.kind = "call" THEN [client[p] EXCEPT !.told = f.active]
                ELSE [client[p] EXCEPT !.shown = f.index]
<1>1. /\ UNCHANGED <<role, call, turned, on, ghost, evict>> /\ heard[p] # <<>>
      /\ heard' = [heard EXCEPT ![p] = Tail(@)] /\ Renders(p, c, av[p], sent)
  BY DEF Arrive, server
<1>2. /\ client[p] \in Client /\ av[p] \in Media /\ Silent(client[p], av[p])
      /\ heard[p] \in Seq(Frames) /\ sent \in Seq(Frames)
  BY OwnState
<1>3. f \in Frames /\ Tail(heard[p]) \in Seq(Frames)
  BY <1>1, <1>2
<1>4. /\ heard' \in [People -> Seq(Frames)] /\ heard'[p] = Tail(heard[p])
      /\ \A q \in People : q # p => heard'[q] = heard[q]
  BY <1>1, <1>3 DEF Kept, FramesOK
<1> HIDE DEF f
<1>5. /\ f.kind = "call" \/ f.kind = "page"
      /\ f.kind = "call" => f.active \in BOOLEAN /\ f = CallFrame(f.active)
      /\ f.kind = "page" => f.index \in Pages /\ f = PageFrame(f.index)
  BY <1>3, FrameKinds
<1>6. /\ c \in Client
      /\ c.told = (IF f.kind = "call" THEN f.active ELSE client[p].told)
      /\ c.shown = (IF f.kind = "page" THEN f.index ELSE client[p].shown)
  <2>1. CASE f.kind = "call"
    BY <1>2, <1>5, <2>1 DEF Client
  <2>2. CASE f.kind = "page"
    BY <1>2, <1>5, <2>2 DEF Client
  <2> QED BY <1>5, <2>1, <2>2
<1> HIDE DEF c
<1>7. /\ client' \in [People -> Client] /\ av' \in [People -> Media]
      /\ sent' \in Seq(Frames)
      /\ AllSilent'
      /\ client'[p].told = c.told /\ client'[p].shown = c.shown
      /\ \A q \in People : q # p => client'[q] = client[q]
  BY <1>1, <1>2, <1>6, RendersEffect DEF Kept
<1>8. Typed' /\ FramesOK'
  BY <1>1, <1>4, <1>7 DEF Kept, Typed, FramesOK
<1>9. SocketsAreGranted'
  BY <1>1 DEF Kept, SocketsAreGranted, Granted
<1>10. ASSUME NEW s \in Students PROVE CallComes(s)' /\ PageComes(s)'
  <2>1. CallComes(s) /\ PageComes(s) /\ s \in People
    BY DEF Kept, AllKnow, People
  <2>2. CASE s # p
    BY <1>1, <1>4, <1>7, <2>1, <2>2 DEF CallComes, PageComes
  <2>3. CASE s = p
    <3> DEFINE q == heard[p]
               g == CallFrame(TRUE)
    <3>1. /\ p \in on /\ call => Comes(q, g, client[p].told)
          /\ IF turned = NoPage THEN NoneIn(q, "page") /\ client[p].shown = 0
             ELSE p \in on => Comes(q, PageFrame(turned), client[p].shown = turned)
      BY <2>1, <2>3 DEF CallComes, PageComes
    <3>2. call \in BOOLEAN /\ turned \in Pages \union {NoPage} /\ 0 \in Pages
      BY DEF Kept, Typed, Pages
    <3>3. g \in Frames /\ g.kind = "call" /\ g.active = TRUE
      BY FrameKinds
    <3>4. \A i \in Pages : PageFrame(i) \in Frames /\ PageFrame(i).kind = "page" /\ PageFrame(i).index = i
      BY FrameKinds
    <3>5. p \in on /\ call => Comes(Tail(q), g, c.told)
      <4> SUFFICES ASSUME p \in on, call PROVE Comes(Tail(q), g, c.told)
        OBVIOUS
      <4>1. CASE f.kind = "call"
        <5>1. Comes(Tail(q), g, f = g)
          BY <1>1, <1>2, <3>1, <3>3, <4>1, TailForgets DEF f
        <5>2. f = g => c.told
          BY <1>6, <3>3, <4>1
        <5> QED BY <5>1, <5>2 DEF Comes
      <4>2. CASE f.kind = "page"
        <5>1. Comes(Tail(q), g, client[p].told)
          BY <1>1, <1>2, <3>1, <3>3, <4>2, TailForgets DEF f
        <5> QED BY <1>6, <4>2, <5>1
      <4> QED BY <1>5, <4>1, <4>2
    <3>6. turned = NoPage => NoneIn(Tail(q), "page") /\ c.shown = 0
      <4> SUFFICES ASSUME turned = NoPage PROVE NoneIn(Tail(q), "page") /\ c.shown = 0
        OBVIOUS
      <4>1. NoneIn(q, PageFrame(0).kind)
        BY <3>1, <3>2, <3>4
      <4>2. f.kind # PageFrame(0).kind /\ NoneIn(Tail(q), PageFrame(0).kind)
        BY <1>1, <1>2, <3>2, <3>4, <4>1, TailForgets DEF f
      <4> QED BY <1>6, <3>1, <3>2, <3>4, <4>2
    <3>7. turned # NoPage /\ p \in on => Comes(Tail(q), PageFrame(turned), c.shown = turned)
      <4> SUFFICES ASSUME turned # NoPage, p \in on
                   PROVE  Comes(Tail(q), PageFrame(turned), c.shown = turned)
        OBVIOUS
      <4> DEFINE h == PageFrame(turned)
      <4>1. Comes(q, h, client[p].shown = turned) /\ h \in Frames /\ h.kind = "page" /\ h.index = turned
        BY <3>1, <3>2, <3>4
      <4> HIDE DEF h
      <4>2. CASE f.kind = "page"
        <5>1. Comes(Tail(q), h, f = h)
          BY <1>1, <1>2, <4>1, <4>2, TailForgets DEF f
        <5>2. f = h => c.shown = turned
          BY <1>6, <4>1, <4>2
        <5> QED BY <5>1, <5>2 DEF Comes, h
      <4>3. CASE f.kind = "call"
        <5>1. Comes(Tail(q), h, client[p].shown = turned)
          BY <1>1, <1>2, <4>1, <4>3, TailForgets DEF f
        <5> QED BY <1>6, <4>3, <5>1 DEF h
      <4> QED BY <1>5, <4>2, <4>3
    <3> QED BY <1>1, <1>4, <1>7, <2>3, <3>5, <3>6, <3>7 DEF CallComes, PageComes
  <2> QED BY <2>2, <2>3
<1> QED BY <1>7, <1>8, <1>9, <1>10 DEF Kept, AllKnow

-----------------------------------------------------------------------------
(* The steps together. *)

LEMMA CountedSteps ==
    ASSUME Counted, [Next]_vars
    PROVE  Counted'
<1>1. MaxActs \in Nat /\ MaxEnds \in Nat /\ MaxFaults \in Nat
  BY BoundsAreCounts
<1>2. CASE Acts
  BY <1>1, <1>2 DEF Acts, Counted
<1>3. CASE Fault
  BY <1>1, <1>3 DEF Fault, Counted
<1>4. CASE UNCHANGED bounds
  BY <1>4 DEF bounds, Counted
<1>5. CASE EndForEveryone
  BY <1>1, <1>5 DEF EndForEveryone, Counted
<1>6. CASE Frame
  BY <1>4, <1>6 DEF Frame
<1>7. CASE TurnPage
  BY <1>2, <1>7 DEF TurnPage
<1>8. ASSUME NEW p \in People, Connect(p) \/ Gone(p) \/ Arrive(p) \/ Evicted(p) PROVE Counted'
  BY <1>4, <1>8 DEF Connect, Gone, Arrive, Evicted
<1>9. ASSUME NEW p \in People, Social(p) PROVE Counted'
  <2>1. Acts \/ Fault \/ UNCHANGED bounds
    BY <1>9 DEF Social, PressStart, Confirm, Decline, Leave, Retry, Drop, Reload, RequestFails, EvictionFails
  <2> QED BY <1>2, <1>3, <1>4, <2>1
<1>10. ASSUME NEW p \in People, Session(p) PROVE Counted'
  <2>1. Fault \/ UNCHANGED bounds
    BY <1>10 DEF Session, Mint, Reach, Publish, StrayReaches, StrayEnds, Steps
  <2> QED BY <1>3, <1>4, <2>1
<1>11. ASSUME NEW s \in Students, Moderate(s) PROVE Counted'
  BY <1>2, <1>11 DEF Moderate, Admit, Remove
<1>12. ASSUME NEW s \in Students, Poll(s) \/ Hides(s) \/ GivesUp(s) \/ LooksBack(s) PROVE Counted'
  BY <1>2, <1>4, <1>12 DEF Poll, Hides, GivesUp, LooksBack, Beats
<1>13. CASE UNCHANGED vars
  BY <1>4, <1>13 DEF vars
<1> QED BY <1>5, <1>6, <1>7, <1>8, <1>9, <1>10, <1>11, <1>12, <1>13 DEF Next

LEMMA KeptSteps ==
    ASSUME Kept, [Next]_vars
    PROVE  Kept'
<1>1. ASSUME NEW p \in People, Social(p) PROVE Kept'
  BY <1>1, ButtonsKeep, RetryKeeps, DropKeeps, ReloadKeeps, FailureKeeps DEF Social
<1>2. ASSUME NEW p \in People, Connect(p) \/ Gone(p) \/ Arrive(p) \/ Evicted(p) PROVE Kept'
  BY <1>2, ConnectKeeps, GoneKeeps, ArriveKeeps, EvictedKeeps
<1>3. ASSUME NEW p \in People, Session(p) PROVE Kept'
  BY <1>3, SessionKeeps
<1>4. ASSUME NEW s \in Students, Moderate(s) PROVE Kept'
  BY <1>4, AdmitKeeps, RemoveKeeps DEF Moderate
<1>6. ASSUME NEW s \in Students, Poll(s) \/ Hides(s) \/ GivesUp(s) \/ LooksBack(s) PROVE Kept'
  BY <1>6, BeatsKeeps, RestKeeps DEF Poll, LooksBack
<1>5. CASE UNCHANGED vars
  <2>1. UNCHANGED <<role, call, turned, on, ghost, sent, heard, client, av, evict>>
    BY <1>5 DEF vars, server, links, media
  <2>2. Typed' /\ FramesOK'
    BY <2>1 DEF Kept, Typed, FramesOK
  <2>3. SocketsAreGranted' /\ AllSilent'
    BY <2>1 DEF Kept, SocketsAreGranted, Granted, AllSilent, Silent, Enabled, Allowed
  <2>4. AllKnow'
    BY <2>1, KnowledgeStays
  <2> QED BY <2>2, <2>3, <2>4 DEF Kept
<1> QED BY <1>1, <1>2, <1>3, <1>4, <1>5, <1>6, FrameKeeps, HostKeeps DEF Next

LEMMA InitKeeps == Init => IInv
<1> SUFFICES ASSUME Init PROVE IInv
  OBVIOUS
<1>1. \A p \in People : Fresh(p) \in Client /\ Fresh(p).shown = 0 /\ ~Fresh(p).want
  BY DEF Fresh, FirstView, Client, Pages
<1>2. Idle \in Media /\ \A p \in People : Silent(Fresh(p), Idle)
  BY DEF Idle, Media, Stages, Silent
<1>3. <<>> \in Seq(Frames) /\ NoneIn(<<>>, "page")
  BY DEF NoneIn
<1>4. Typed
  BY <1>1, <1>2 DEF Init, Typed
<1>5. Counted
  BY BoundsAreCounts DEF Init, Counted
<1>6. FramesOK
  BY <1>3 DEF Init, FramesOK
<1>7. SocketsAreGranted /\ AllSilent
  BY <1>2 DEF Init, SocketsAreGranted, AllSilent
<1>8. AllKnow
  BY <1>1, <1>3 DEF Init, AllKnow, CallComes, PageComes, People
<1> QED BY <1>4, <1>5, <1>6, <1>7, <1>8 DEF IInv, Kept

-----------------------------------------------------------------------------
(* The theorems. *)

\* The invariant holds always: what is stored is what each student with a socket
\* will know, and a page out of the call has no session of its own.
THEOREM LiveRoomInvariant == Spec => []IInv
<1>1. IInv /\ [Next]_vars => IInv'
  BY CountedSteps, KeptSteps DEF IInv
<1> QED BY <1>1, InitKeeps, PTL DEF Spec

\* Every variable keeps to its values (RoomDO.ts, useAvSession.ts).
THEOREM RoomKeepsItsTypes == Spec => []TypeOK
<1>1. IInv => TypeOK
  BY DEF IInv, Kept, Typed, Counted, TypeOK, Client, Media
<1> QED BY <1>1, LiveRoomInvariant, PTL

LEMMA NothingComes ==
    ASSUME NEW f, NEW b \in BOOLEAN, Comes(<<>>, f, b)
    PROVE  b
BY DEF Comes, LastIn

\* A student in the room with nothing on its way to it knows of the call that is
\* stored (RoomDO.ts connect replay, relay of the owner's frames).
THEOREM CallIsKnown == Spec => []CallKnownWhenSettled
<1>1. IInv => CallKnownWhenSettled
  <2> SUFFICES ASSUME IInv, NEW s \in Students, call, Settled(s) PROVE client[s].told
    BY DEF CallKnownWhenSettled
  <2>1. Comes(<<>>, CallFrame(TRUE), client[s].told)
    BY DEF IInv, Kept, AllKnow, CallComes, Settled
  <2>2. client[s].told \in BOOLEAN
    BY DEF IInv, Kept, Typed, Client, People
  <2> QED BY <2>1, <2>2, NothingComes
<1> QED BY <1>1, LiveRoomInvariant, PTL

\* It looks at the page that is stored, or at the first one when none was turned
\* (RoomDO.ts withPageEntry and page replay).
THEOREM PagesAgree == Spec => []PagesAgreeWhenSettled
<1>1. IInv => PagesAgreeWhenSettled
  <2> SUFFICES ASSUME IInv, NEW s \in Students, Settled(s)
               PROVE  client[s].shown = (IF turned = NoPage THEN 0 ELSE turned)
    BY DEF PagesAgreeWhenSettled
  <2>1. IF turned = NoPage THEN client[s].shown = 0
        ELSE Comes(<<>>, PageFrame(turned), client[s].shown = turned)
    BY DEF IInv, Kept, AllKnow, PageComes, Settled
  <2> QED BY <2>1, NothingComes
<1> QED BY <1>1, LiveRoomInvariant, PTL

\* A page out of the call, whose cancelled starts have ended, holds no session
\* and no microphone (useAvSession.ts cleanup, leave of the providers).
THEOREM OutIsSilent == Spec => []OutMeansSilent
<1>1. IInv => OutMeansSilent
  <2> SUFFICES ASSUME IInv, NEW p \in People, ~Enabled(client[p]), av[p].stray = {}
               PROVE  av[p].sfu = "none" /\ av[p].mic = {}
    BY DEF OutMeansSilent
  <2>1. Silent(client[p], av[p]) /\ av[p] \in Media
    BY DEF IInv, Kept, AllSilent, Typed
  <2>2. av[p].sfu \notin {"now", "before"} /\ "now" \notin av[p].mic /\ "before" \notin av[p].mic
    BY <2>1 DEF Silent
  <2> QED BY <2>1, <2>2 DEF Media
<1> QED BY <1>1, LiveRoomInvariant, PTL

=============================================================================
