------------------------- MODULE BoardContentProofs -------------------------
(***************************************************************************)
(* What the pictures and the pages of a board guarantee: BoardFiles for any  *)
(* number of tabs, pictures, tries, acts and faults and any quota, PagedDocs *)
(* for any number of editors, files, pages and edits.                        *)
(*                                                                           *)
(* BoardFiles. Two arguments, joined in one invariant because both rest on   *)
(* the types. The quota: every request past its reservation, live or stray,  *)
(* carries one picture that is counted already, so that what is stored and   *)
(* what is carried together fit the count. The uploads: a tab that has a     *)
(* picture's request, its mark or its failure also has the picture among     *)
(* those it shows as pending, until the bytes are stored.                    *)
(*                                                                           *)
(* PagedDocs. Outside of the ids that got a second entry, one condition holds *)
(* of every element that is held anywhere, in the room, in a tab's document, *)
(* in its scene and in every frame under way: a page is the owner's and has a *)
(* page's id. It is the owner's tab alone that makes pages; what an editor's *)
(* tab does to one may stand in that tab and in its frames, but what the room *)
(* takes from them went through the guard.                                   *)
(***************************************************************************)
EXTENDS BoardFiles, PagedDocs, FiniteSetTheorems, FunctionTheorems,
        WellFoundedInduction, SequenceTheorems, TLAPS


-----------------------------------------------------------------------------
(* The invariant. *)

Requests == [tab : Tab, file : File, at : {"put"}]

\* Requests past their reservation that a tab waits for, or nobody.
Live == {r \in Requests : put[r.tab][r.file] = "put"}
Adrift == {r \in stray : r.at = "put"}

Counted == Spent + Cardinality(Live) + Cardinality(Adrift) <= total + uncounted

DoomedAreHeld == \A f \in sweep.doomed : Held(f)

\* The bytes are there, or the sweep took them.
Stays(f) == Held(f) \/ f \in collected

\* What a tab remembers of a picture with a request at p, before it looks
\* whether to send it.
Loose(u, p, stays) ==
    /\ p # "none" => u.pending /\ u.tries < UploadTries
    /\ u.failed => u.pending
    /\ u.tries >= UploadTries => u.failed
    /\ u.confirmed => stays
    /\ p = "created" => stays

\* A marked picture is on its way, or stored.
Fits(u, p, stays) == Loose(u, p, stays) /\ (u.marked => u.pending \/ u.confirmed)

Remembered == \A t \in Tab, f \in File : Fits(up[t][f], put[t][f], Stays(f))
FewMissed == \A t \in Tab, f \in File : get[t][f] # "none" => missed[t][f] < FetchTries

Kept ==
    /\ TypeOK /\ Remembered /\ FewMissed
    /\ LossIsVisible
    /\ Counted /\ DoomedAreHeld

-----------------------------------------------------------------------------
(* What the uploader remembers. *)

LEMMA Bounds ==
    /\ IsFiniteSet(Tab) /\ IsFiniteSet(File) /\ Quota \in Nat
    /\ UploadTries \in Nat \ {0} /\ FetchTries \in Nat \ {0}
    /\ MaxActs \in Nat /\ MaxFaults \in Nat
BY BoardFilesAssumption

LEMMA MemoryFields ==
    ASSUME NEW u \in Memory
    PROVE  /\ u.bytes \in BOOLEAN /\ u.marked \in BOOLEAN /\ u.confirmed \in BOOLEAN
           /\ u.pending \in BOOLEAN /\ u.timer \in BOOLEAN /\ u.failed \in BOOLEAN
           /\ u.tries \in 0..UploadTries
BY DEF Memory

LEMMA UnknownFits ==
    ASSUME NEW stays \in BOOLEAN
    PROVE  Unknown \in Memory /\ Fits(Unknown, "none", stays)
BY Bounds DEF Unknown, Memory, Fits, Loose

\* An upload that starts makes a picture fit that fitted but for its mark.
LEMMA SendingFits ==
    ASSUME NEW t, NEW f, NEW u \in Memory, NEW stays \in BOOLEAN, Loose(u, put[t][f], stays)
    PROVE  /\ Sending(t, f, u) \in Memory
           /\ Fits(Sending(t, f, u), IF Sends(t, f, u) THEN "authorize" ELSE put[t][f], stays)
           /\ u.pending => Sending(t, f, u).pending
           /\ Sending(t, f, u).pending \/ u.confirmed
<1>1. CASE Sends(t, f, u)
  <2>1. PICK v : v = [u EXCEPT !.pending = TRUE]
    OBVIOUS
  <2>2. v \in Memory /\ v.pending = TRUE /\ v.tries = u.tries /\ v.failed = u.failed
        /\ v.confirmed = u.confirmed /\ v.marked = u.marked
    BY <2>1 DEF Memory
  <2> QED BY <1>1, <2>1, <2>2, MemoryFields DEF Sending, Fits, Loose, Sends
<1>2. CASE ~Sends(t, f, u)
  <2>1. u.confirmed \/ u.failed \/ put[t][f] # "none" \/ u.tries >= UploadTries
    BY <1>2, MemoryFields, Bounds DEF Sends
  <2> QED BY <1>2, <2>1 DEF Sending, Fits, Loose
<1> QED BY <1>1, <1>2

LEMMA MarkedFits ==
    ASSUME NEW u \in Memory, NEW p, NEW stays \in BOOLEAN, Loose(u, p, stays)
    PROVE  Marked(u) \in Memory /\ Loose(Marked(u), p, stays) /\ Marked(u).pending = u.pending
           /\ Marked(u).bytes = u.bytes
BY DEF Marked, Memory, Loose

LEMMA RenewedFits ==
    ASSUME NEW u \in Memory, NEW p, NEW stays \in BOOLEAN, Loose(u, p, stays)
    PROVE  Renewed(u) \in Memory /\ Loose(Renewed(u), p, stays) /\ Renewed(u).pending = u.pending
<1>1. PICK v : v = [u EXCEPT !.tries = 0, !.timer = FALSE, !.failed = FALSE, !.marked = FALSE]
  OBVIOUS
<1>2. v \in Memory /\ v.tries = 0 /\ v.failed = FALSE /\ v.pending = u.pending
      /\ v.confirmed = u.confirmed
  <2>1. v = [bytes |-> u.bytes, marked |-> FALSE, confirmed |-> u.confirmed,
             pending |-> u.pending, tries |-> 0, timer |-> FALSE, failed |-> FALSE]
    BY <1>1 DEF Memory
  <2>2. 0 \in 0..UploadTries
    BY Bounds
  <2> QED BY <2>1, <2>2, MemoryFields DEF Memory
<1>3. Renewed(u) = v
  BY <1>1 DEF Renewed
<1>4. 0 < UploadTries /\ ~(0 >= UploadTries)
  BY Bounds
<1> QED BY <1>2, <1>3, <1>4, MemoryFields DEF Loose

\* A failure that may pass leaves the picture pending, unless it was confirmed.
LEMMA DeferredFits ==
    ASSUME NEW u \in Memory, NEW p, NEW stays \in BOOLEAN, Fits(u, p, stays), p # "none"
    PROVE  Deferred(u) \in Memory /\ Fits(Deferred(u), "none", stays) /\ Deferred(u).pending
<1>1. u.tries + 1 \in 0..UploadTries /\ u.tries \in 0..UploadTries
  BY MemoryFields, Bounds DEF Fits, Loose
<1>2. CASE u.tries + 1 >= UploadTries
  <2>1. PICK v : v = [u EXCEPT !.tries = u.tries + 1, !.failed = TRUE, !.timer = FALSE]
    OBVIOUS
  <2>2. v \in Memory /\ v.tries = u.tries + 1 /\ v.failed /\ v.pending = u.pending
        /\ v.marked = u.marked /\ v.confirmed = u.confirmed
    BY <1>1, <2>1 DEF Memory
  <2> QED BY <1>2, <2>1, <2>2 DEF Deferred, Fits, Loose
<1>3. CASE u.tries + 1 < UploadTries
  <2>1. PICK v : v = [u EXCEPT !.tries = u.tries + 1, !.marked = FALSE, !.timer = TRUE]
    OBVIOUS
  <2>2. v \in Memory /\ v.tries = u.tries + 1 /\ v.failed = u.failed /\ v.pending = u.pending
        /\ v.marked = FALSE /\ v.confirmed = u.confirmed
    BY <1>1, <2>1 DEF Memory
  <2> QED BY <1>1, <1>3, <2>1, <2>2, Bounds DEF Deferred, Fits, Loose
<1> QED BY <1>1, <1>2, <1>3, Bounds

LEMMA GivenUpFits ==
    ASSUME NEW u \in Memory, NEW p, NEW stays \in BOOLEAN, Fits(u, p, stays), p # "none"
    PROVE  GivenUp(u) \in Memory /\ Fits(GivenUp(u), "none", stays) /\ GivenUp(u).pending
<1>1. u.tries + 1 \in 0..UploadTries
  BY MemoryFields, Bounds DEF Fits, Loose
<1> QED BY <1>1 DEF GivenUp, Memory, Fits, Loose

LEMMA ConfirmedFits ==
    ASSUME NEW u \in Memory, NEW stays \in BOOLEAN, stays
    PROVE  Confirmed(u) \in Memory /\ Fits(Confirmed(u), "none", stays)
<1>1. PICK v : v = [u EXCEPT !.confirmed = TRUE, !.pending = FALSE, !.timer = FALSE,
                            !.failed = FALSE, !.tries = 0]
  OBVIOUS
<1>2. v \in Memory /\ v.tries = 0 /\ v.failed = FALSE /\ v.confirmed = TRUE
  <2>1. v = [bytes |-> u.bytes, marked |-> u.marked, confirmed |-> TRUE,
             pending |-> FALSE, tries |-> 0, timer |-> FALSE, failed |-> FALSE]
    BY <1>1 DEF Memory
  <2>2. 0 \in 0..UploadTries
    BY Bounds
  <2> QED BY <2>1, <2>2, MemoryFields DEF Memory
<1>3. Confirmed(u) = v
  BY <1>1 DEF Confirmed
<1>4. ~(0 >= UploadTries)
  BY Bounds
<1> QED BY <1>2, <1>3, <1>4 DEF Fits, Loose

-----------------------------------------------------------------------------
(* Uploads that start. *)

LEMMA UploadEffect ==
    ASSUME TypeOK, NEW t \in Tab, NEW fs \in SUBSET File, NEW mem \in [File -> Memory],
           \A f \in File : Loose(mem[f], put[t][f], Stays(f)),
           \A f \in File \ fs : Fits(mem[f], put[t][f], Stays(f)),
           Upload(t, fs, mem)
    PROVE  /\ up' \in [Tab -> [File -> Memory]]
           /\ put' \in [Tab -> [File -> Asking \union Answers \union {"none"}]]
           /\ \A f \in File :
                /\ Fits(up'[t][f], put'[t][f], Stays(f))
                /\ mem[f].pending => up'[t][f].pending
                /\ f \in fs => up'[t][f].pending \/ mem[f].confirmed
                /\ put'[t][f] = "put" <=> put[t][f] = "put"
           /\ \A x \in Tab \ {t} : up'[x] = up[x] /\ put'[x] = put[x]
<1>0. /\ up \in [Tab -> [File -> Memory]]
      /\ put \in [Tab -> [File -> Asking \union Answers \union {"none"}]]
  BY DEF TypeOK
<1>1. \A f \in File : Stays(f) \in BOOLEAN
  BY DEF Stays, Held
<1>2. ASSUME NEW f \in File
      PROVE  /\ Sending(t, f, mem[f]) \in Memory
             /\ Fits(Sending(t, f, mem[f]),
                     IF Sends(t, f, mem[f]) THEN "authorize" ELSE put[t][f], Stays(f))
             /\ mem[f].pending => Sending(t, f, mem[f]).pending
             /\ Sending(t, f, mem[f]).pending \/ mem[f].confirmed
  BY <1>1, SendingFits
<1>3. PICK ut : ut = [f \in File |-> IF f \in fs THEN Sending(t, f, mem[f]) ELSE mem[f]]
  OBVIOUS
<1>4. PICK pt : pt = [f \in File |-> IF f \in fs /\ Sends(t, f, mem[f]) THEN "authorize" ELSE put[t][f]]
  OBVIOUS
<1>5. up' = [up EXCEPT ![t] = ut] /\ put' = [put EXCEPT ![t] = pt]
  BY <1>3, <1>4 DEF Upload
<1>6. ut \in [File -> Memory]
  BY <1>2, <1>3
<1>7. pt \in [File -> Asking \union Answers \union {"none"}]
  BY <1>0, <1>4 DEF Asking
<1>8. up'[t] = ut /\ put'[t] = pt
  BY <1>0, <1>5
<1>9. ASSUME NEW f \in File
      PROVE  /\ Fits(ut[f], pt[f], Stays(f))
             /\ mem[f].pending => ut[f].pending
             /\ f \in fs => ut[f].pending \/ mem[f].confirmed
             /\ pt[f] = "put" <=> put[t][f] = "put"
  <2>1. CASE f \in fs
    <3>1. ut[f] = Sending(t, f, mem[f]) /\ pt[f] = IF Sends(t, f, mem[f]) THEN "authorize" ELSE put[t][f]
      BY <1>3, <1>4, <2>1
    <3>2. Sends(t, f, mem[f]) => put[t][f] = "none"
      BY DEF Sends
    <3> QED BY <1>2, <3>1, <3>2
  <2>2. CASE f \notin fs
    BY <1>3, <1>4, <2>2
  <2> QED BY <2>1, <2>2
<1> QED BY <1>0, <1>5, <1>6, <1>7, <1>8, <1>9

\* What is carried changes only with requests past their reservation.
LEMMA LiveSame ==
    ASSUME \A t \in Tab, f \in File : put'[t][f] = "put" <=> put[t][f] = "put"
    PROVE  Live' = Live
BY DEF Live, Requests

\* Nothing is lost where nothing goes from the bucket, from a tab or from history.
LEMMA LossStays ==
    ASSUME LossIsVisible, board' \subseteq board, board \subseteq File,
           forsaken \subseteq forsaken', collected \subseteq collected',
           \A f \in File : bucket[f] # "absent" => bucket'[f] # "absent" \/ f \in collected',
           \A t \in Tab, f \in File :
             up[t][f].pending => \/ up'[t][f].pending \/ bucket'[f] # "absent"
                                 \/ f \in collected' \union forsaken'
    PROVE  LossIsVisible'
BY DEF LossIsVisible, Held

\* Tabs that start to send, and nothing else but what the board mentions.
LEMMA UploadKeeps ==
    ASSUME Kept, NEW t \in Tab, NEW fs \in SUBSET File, NEW mem \in [File -> Memory],
           \A f \in File : Loose(mem[f], put[t][f], Stays(f)),
           \A f \in File \ fs : Fits(mem[f], put[t][f], Stays(f)),
           \A f \in File : up[t][f].pending => mem[f].pending,
           Upload(t, fs, mem), UNCHANGED <<stray, bucket, total, sweep, history>>
    PROVE  /\ up' \in [Tab -> [File -> Memory]]
           /\ put' \in [Tab -> [File -> Asking \union Answers \union {"none"}]]
           /\ \A x \in Tab, f \in File : up[x][f].pending => up'[x][f].pending
           /\ \A f \in fs : up'[t][f].pending \/ mem[f].confirmed
           /\ Remembered' /\ Counted' /\ DoomedAreHeld'
<1>1. TypeOK /\ Remembered /\ Counted /\ DoomedAreHeld
  BY DEF Kept
<1>2. /\ up' \in [Tab -> [File -> Memory]]
      /\ put' \in [Tab -> [File -> Asking \union Answers \union {"none"}]]
      /\ \A f \in File :
           /\ Fits(up'[t][f], put'[t][f], Stays(f))
           /\ mem[f].pending => up'[t][f].pending
           /\ f \in fs => up'[t][f].pending \/ mem[f].confirmed
           /\ put'[t][f] = "put" <=> put[t][f] = "put"
      /\ \A x \in Tab \ {t} : up'[x] = up[x] /\ put'[x] = put[x]
  BY <1>1, UploadEffect
<1>3. UNCHANGED <<stray, bucket, total, sweep, uncounted, collected>>
  BY DEF history
<1>4. \A x \in Tab, f \in File : put'[x][f] = "put" <=> put[x][f] = "put"
  BY <1>2
<1>5. Live' = Live
  BY <1>4, LiveSame
<1>6. Counted'
  BY <1>1, <1>3, <1>5 DEF Counted, Spent, Held, Adrift
<1>7. DoomedAreHeld'
  BY <1>1, <1>3 DEF DoomedAreHeld, Held
<1>8. \A f \in File : Stays(f)' <=> Stays(f)
  BY <1>3 DEF Stays, Held
<1>9. Remembered'
  <2>1. ASSUME NEW x \in Tab, NEW f \in File PROVE Fits(up'[x][f], put'[x][f], Stays(f))
    BY <1>1, <1>2 DEF Remembered
  <2> QED BY <1>8, <2>1 DEF Remembered, Fits, Loose
<1> QED BY <1>2, <1>6, <1>7, <1>9

-----------------------------------------------------------------------------
(* What people do. *)

LEMMA PasteStep ==
    ASSUME Kept, NEW t \in Tab, NEW f \in File, Paste(t, f)
    PROVE  Kept'
<1> DEFINE mem == [up[t] EXCEPT ![f].bytes = TRUE]
           fs == {g \in File : mem[g].bytes /\ ~mem[g].marked}
           sent == [g \in File |-> IF g \in fs THEN Marked(mem[g]) ELSE mem[g]]
<1>1. TypeOK /\ Remembered /\ LossIsVisible /\ FewMissed
  BY DEF Kept
<1>2. mem \in [File -> Memory] /\ mem[f].bytes
      /\ \A g \in File : /\ mem[g].marked = up[t][g].marked /\ mem[g].pending = up[t][g].pending
                         /\ mem[g].confirmed = up[t][g].confirmed /\ mem[g].tries = up[t][g].tries
                         /\ mem[g].failed = up[t][g].failed
  <2>1. up[t] \in [File -> Memory] /\ up[t][f] \in Memory
    BY <1>1 DEF TypeOK
  <2>2. PICK v : v = [up[t][f] EXCEPT !.bytes = TRUE]
    OBVIOUS
  <2>3. v \in Memory /\ v.bytes = TRUE /\ v.marked = up[t][f].marked /\ v.pending = up[t][f].pending
        /\ v.confirmed = up[t][f].confirmed /\ v.tries = up[t][f].tries /\ v.failed = up[t][f].failed
    BY <2>1, <2>2 DEF Memory
  <2>4. mem = [up[t] EXCEPT ![f] = v]
    BY <2>1, <2>2
  <2> QED BY <2>1, <2>3, <2>4
<1>3. ASSUME NEW g \in File PROVE Fits(mem[g], put[t][g], Stays(g))
  BY <1>1, <1>2 DEF Remembered, Fits, Loose
<1>4. \A g \in File : Stays(g) \in BOOLEAN
  BY DEF Stays, Held
<1> HIDE DEF mem
<1>5. ASSUME NEW g \in File
      PROVE  /\ sent[g] \in Memory /\ Loose(sent[g], put[t][g], Stays(g))
             /\ sent[g].pending = mem[g].pending
             /\ g \notin fs => sent[g] = mem[g]
             /\ sent[g].confirmed => Stays(g)
  <2>1. mem[g] \in Memory /\ Loose(mem[g], put[t][g], Stays(g))
    BY <1>2, <1>3 DEF Fits
  <2>2. /\ Marked(mem[g]) \in Memory /\ Loose(Marked(mem[g]), put[t][g], Stays(g))
        /\ Marked(mem[g]).pending = mem[g].pending
    BY <2>1, <1>4, MarkedFits
  <2> QED BY <2>1, <2>2 DEF Loose
<1>6. sent \in [File -> Memory] /\ fs \in SUBSET File
  BY <1>5
<1>7. Upload(t, fs, sent) /\ UNCHANGED <<stray, bucket, total, sweep, history>>
      /\ UNCHANGED <<get, missed, hinted, ready, library, faults>> /\ acts' \in 0..MaxActs
      /\ board' = board \union {f}
  BY <1>1, Bounds DEF Paste, Act, TypeOK, mem
<1> HIDE DEF sent, fs
<1>8. \A g \in File \ fs : Fits(sent[g], put[t][g], Stays(g))
  BY <1>3, <1>5
<1>9. \A g \in File : up[t][g].pending => sent[g].pending
  BY <1>2, <1>5
<1>10. /\ up' \in [Tab -> [File -> Memory]]
       /\ put' \in [Tab -> [File -> Asking \union Answers \union {"none"}]]
       /\ \A x \in Tab, g \in File : up[x][g].pending => up'[x][g].pending
       /\ \A g \in fs : up'[t][g].pending \/ sent[g].confirmed
       /\ Remembered' /\ Counted' /\ DoomedAreHeld'
  BY <1>5, <1>6, <1>7, <1>8, <1>9, UploadKeeps
<1>11. Stays(f) \/ \E x \in Tab : up'[x][f].pending
  <2>1. CASE f \in fs
    BY <1>5, <1>10, <2>1
  <2>2. CASE f \notin fs
    <3>1. up[t][f].marked
      BY <1>2, <2>2 DEF fs
    <3> QED BY <1>1, <1>10, <3>1 DEF Remembered, Fits, Loose
  <2> QED BY <2>1, <2>2
<1>12. LossIsVisible'
  <2>1. UNCHANGED <<bucket, collected, forsaken>> /\ board \subseteq File
    BY <1>1, <1>7 DEF history, TypeOK
  <2>2. ASSUME NEW g \in board' \ (forsaken \union collected)
        PROVE  bucket[g] # "absent" \/ \E x \in Tab : up'[x][g].pending
    <3>1. CASE g = f
      BY <1>11, <2>2, <3>1 DEF Stays, Held
    <3>2. CASE g # f
      <4>1. g \in board /\ g \in File
        BY <1>7, <2>1, <2>2, <3>2
      <4>2. bucket[g] # "absent" \/ \E x \in Tab : up[x][g].pending
        BY <1>1, <2>2, <4>1 DEF LossIsVisible, Held
      <4> QED BY <1>10, <4>1, <4>2
    <3> QED BY <3>1, <3>2
  <2> QED BY <2>1, <2>2 DEF LossIsVisible, Held
<1>13. TypeOK'
  BY <1>1, <1>7, <1>10 DEF TypeOK, history
<1>14. FewMissed'
  BY <1>1, <1>7 DEF FewMissed
<1> QED BY <1>10, <1>12, <1>13, <1>14 DEF Kept

\* Nothing of what is sent, stored or counted is touched.
Idle == UNCHANGED <<up, put, stray, bucket, total, sweep, history>>

LEMMA IdleKeeps ==
    ASSUME Kept, Idle, board' \subseteq board
    PROVE  Remembered' /\ Counted' /\ DoomedAreHeld' /\ LossIsVisible'
<1>1. UNCHANGED <<up, put, stray, bucket, total, sweep, uncounted, collected, forsaken>>
  BY DEF Idle, history
<1>2. Live' = Live
  BY <1>1 DEF Live
<1>3. Counted'
  BY <1>1, <1>2 DEF Kept, Counted, Spent, Held, Adrift
<1>4. Remembered' /\ DoomedAreHeld'
  BY <1>1 DEF Kept, Remembered, DoomedAreHeld, Stays, Held, Fits, Loose
<1>5. LossIsVisible'
  BY <1>1 DEF Kept, LossIsVisible, Held
<1> QED BY <1>3, <1>4, <1>5

LEMMA RemoteChangeStep ==
    ASSUME Kept, NEW t \in Tab, RemoteChange(t)
    PROVE  Kept'
<1> DEFINE sent == [f \in File |-> IF f \in Unsent(t) THEN Marked(up[t][f]) ELSE up[t][f]]
<1>1. TypeOK /\ Remembered /\ LossIsVisible /\ FewMissed
  BY DEF Kept
<1>2. up[t] \in [File -> Memory] /\ Unsent(t) \in SUBSET File
  BY <1>1 DEF TypeOK, Unsent
<1>3. \A g \in File : Stays(g) \in BOOLEAN
  BY DEF Stays, Held
<1>4. ASSUME NEW g \in File
      PROVE  /\ sent[g] \in Memory /\ Loose(sent[g], put[t][g], Stays(g))
             /\ sent[g].pending = up[t][g].pending
             /\ g \notin Unsent(t) => Fits(sent[g], put[t][g], Stays(g))
  <2>1. up[t][g] \in Memory /\ Fits(up[t][g], put[t][g], Stays(g)) /\ Loose(up[t][g], put[t][g], Stays(g))
    BY <1>1, <1>2 DEF Remembered, Fits
  <2>2. /\ Marked(up[t][g]) \in Memory /\ Loose(Marked(up[t][g]), put[t][g], Stays(g))
        /\ Marked(up[t][g]).pending = up[t][g].pending
    BY <2>1, <1>3, MarkedFits
  <2> QED BY <2>1, <2>2
<1>5. sent \in [File -> Memory]
  BY <1>4
<1>6. Upload(t, Unsent(t), sent) /\ UNCHANGED <<stray, bucket, total, sweep, history>>
      /\ UNCHANGED <<missed, hinted, roomObject, bounds>> /\ Fetch(t, Wanted(t, missed[t]))
  BY DEF RemoteChange, roomObject
<1> HIDE DEF sent
<1>7. /\ up' \in [Tab -> [File -> Memory]]
      /\ put' \in [Tab -> [File -> Asking \union Answers \union {"none"}]]
      /\ \A x \in Tab, g \in File : up[x][g].pending => up'[x][g].pending
      /\ Remembered' /\ Counted' /\ DoomedAreHeld'
  BY <1>2, <1>4, <1>5, <1>6, UploadKeeps
<1>8. UNCHANGED <<bucket, board, ready, library, total, uncounted, collected, forsaken, acts, faults>>
  BY <1>6 DEF history, roomObject, bounds
<1>9. LossIsVisible'
  BY <1>1, <1>7, <1>8, LossStays DEF TypeOK
<1>10. get' \in [Tab -> [File -> {"none", "asked", "bytes", "missing"}]] /\ FewMissed'
  <2>1. \A f \in Wanted(t, missed[t]) : missed[t][f] < FetchTries
    BY DEF Wanted
  <2> QED BY <1>1, <1>6, <2>1 DEF Fetch, FewMissed, TypeOK
<1>11. TypeOK'
  BY <1>1, <1>6, <1>7, <1>8, <1>10 DEF TypeOK
<1> QED BY <1>7, <1>9, <1>10, <1>11 DEF Kept

LEMMA RetryFailedStep ==
    ASSUME Kept, NEW t \in Tab, RetryFailed(t)
    PROVE  Kept'
<1> DEFINE fs == {f \in File : up[t][f].failed}
           sent == [f \in File |-> IF f \in fs THEN Renewed(up[t][f]) ELSE up[t][f]]
<1>1. TypeOK /\ Remembered /\ LossIsVisible /\ FewMissed
  BY DEF Kept
<1>2. up[t] \in [File -> Memory] /\ fs \in SUBSET File
  BY <1>1 DEF TypeOK
<1>3. \A g \in File : Stays(g) \in BOOLEAN
  BY DEF Stays, Held
<1>4. ASSUME NEW g \in File
      PROVE  /\ sent[g] \in Memory /\ Loose(sent[g], put[t][g], Stays(g))
             /\ sent[g].pending = up[t][g].pending
             /\ g \notin fs => Fits(sent[g], put[t][g], Stays(g))
  <2>1. up[t][g] \in Memory /\ Fits(up[t][g], put[t][g], Stays(g)) /\ Loose(up[t][g], put[t][g], Stays(g))
    BY <1>1, <1>2 DEF Remembered, Fits
  <2>2. /\ Renewed(up[t][g]) \in Memory /\ Loose(Renewed(up[t][g]), put[t][g], Stays(g))
        /\ Renewed(up[t][g]).pending = up[t][g].pending
    BY <2>1, <1>3, RenewedFits
  <2> QED BY <2>1, <2>2
<1>5. sent \in [File -> Memory]
  BY <1>4
<1>6. Upload(t, fs, sent) /\ UNCHANGED <<stray, bucket, total, sweep, history>>
      /\ UNCHANGED <<get, missed, hinted, roomObject, faults>> /\ acts' \in 0..MaxActs
  BY <1>1, Bounds DEF RetryFailed, roomObject, Act, TypeOK
<1> HIDE DEF sent, fs
<1>7. /\ up' \in [Tab -> [File -> Memory]]
      /\ put' \in [Tab -> [File -> Asking \union Answers \union {"none"}]]
      /\ \A x \in Tab, g \in File : up[x][g].pending => up'[x][g].pending
      /\ Remembered' /\ Counted' /\ DoomedAreHeld'
  BY <1>2, <1>4, <1>5, <1>6, UploadKeeps
<1>8. UNCHANGED <<bucket, board, ready, library, total, uncounted, collected, forsaken, faults>>
  BY <1>6 DEF history, roomObject
<1>9. LossIsVisible'
  BY <1>1, <1>7, <1>8, LossStays DEF TypeOK
<1>10. FewMissed'
  BY <1>1, <1>6 DEF FewMissed
<1>11. TypeOK'
  BY <1>1, <1>6, <1>7, <1>8 DEF TypeOK
<1> QED BY <1>7, <1>9, <1>10, <1>11 DEF Kept

LEMMA RetryDueStep ==
    ASSUME Kept, NEW t \in Tab, NEW f \in File, RetryDue(t, f)
    PROVE  Kept'
<1> DEFINE mem == [up[t] EXCEPT ![f].timer = FALSE]
           fs == {g \in {f} : mem[f].pending}
<1>1. TypeOK /\ Remembered /\ LossIsVisible /\ FewMissed
  BY DEF Kept
<1>2. up[t] \in [File -> Memory] /\ fs \in SUBSET File
  BY <1>1 DEF TypeOK
<1>3. ASSUME NEW g \in File
      PROVE  mem[g] \in Memory /\ Fits(mem[g], put[t][g], Stays(g)) /\ mem[g].pending = up[t][g].pending
  <2>1. up[t][g] \in Memory /\ Fits(up[t][g], put[t][g], Stays(g))
    BY <1>1, <1>2 DEF Remembered
  <2>2. PICK v : v = [up[t][g] EXCEPT !.timer = FALSE]
    OBVIOUS
  <2>3. v \in Memory /\ v.marked = up[t][g].marked /\ v.pending = up[t][g].pending
        /\ v.confirmed = up[t][g].confirmed /\ v.tries = up[t][g].tries /\ v.failed = up[t][g].failed
    BY <2>1, <2>2 DEF Memory
  <2>4. mem[g] = IF g = f THEN v ELSE up[t][g]
    BY <1>2, <2>2
  <2> QED BY <2>1, <2>3, <2>4 DEF Fits, Loose
<1>4. mem \in [File -> Memory] /\ \A g \in File : Loose(mem[g], put[t][g], Stays(g))
  BY <1>2, <1>3 DEF Fits
<1>6. Upload(t, fs, mem) /\ UNCHANGED <<stray, bucket, total, sweep, history>>
      /\ UNCHANGED <<get, missed, hinted, roomObject, bounds>>
  BY DEF RetryDue, roomObject
<1> HIDE DEF mem, fs
<1>7. /\ up' \in [Tab -> [File -> Memory]]
      /\ put' \in [Tab -> [File -> Asking \union Answers \union {"none"}]]
      /\ \A x \in Tab, g \in File : up[x][g].pending => up'[x][g].pending
      /\ Remembered' /\ Counted' /\ DoomedAreHeld'
  BY <1>2, <1>3, <1>4, <1>6, UploadKeeps
<1>8. UNCHANGED <<bucket, board, ready, library, total, uncounted, collected, forsaken, acts, faults>>
  BY <1>6 DEF history, roomObject, bounds
<1>9. LossIsVisible'
  BY <1>1, <1>7, <1>8, LossStays DEF TypeOK
<1>10. FewMissed'
  BY <1>1, <1>6 DEF FewMissed
<1>11. TypeOK'
  BY <1>1, <1>6, <1>7, <1>8 DEF TypeOK
<1> QED BY <1>7, <1>9, <1>10, <1>11 DEF Kept

LEMMA ClearStep == ASSUME Kept, Clear PROVE Kept'
<1>1. Idle /\ board' \subseteq board
  BY DEF Clear, Idle, client
<1>2. TypeOK' /\ FewMissed'
  BY Bounds DEF Kept, Clear, Act, TypeOK, FewMissed, client, history
<1> QED BY <1>1, <1>2, IdleKeeps DEF Kept

LEMMA SaveShapeStep == ASSUME Kept, NEW f \in File, SaveShape(f) PROVE Kept'
<1>1. Idle /\ board' \subseteq board
  BY DEF SaveShape, Idle, client
<1>2. TypeOK' /\ FewMissed'
  BY Bounds DEF Kept, SaveShape, Act, TypeOK, FewMissed, client, history
<1> QED BY <1>1, <1>2, IdleKeeps DEF Kept

-----------------------------------------------------------------------------
(* What is carried. *)

LEMMA RequestsFinite == IsFiniteSet(Requests)
<1>1. PICK f : f = [p \in Tab \X File |-> [tab |-> p[1], file |-> p[2], at |-> "put"]]
  OBVIOUS
<1>2. f \in [Tab \X File -> Requests]
  BY <1>1 DEF Requests
<1>3. ASSUME NEW r \in Requests PROVE \E p \in Tab \X File : f[p] = r
  <2>1. <<r.tab, r.file>> \in Tab \X File /\ f[<<r.tab, r.file>>] = r
    BY <1>1, <1>3 DEF Requests
  <2> QED BY <2>1
<1>4. f \in Surjection(Tab \X File, Requests)
  BY <1>2, <1>3 DEF Surjection
<1>5. IsFiniteSet(Tab \X File)
  BY Bounds, FS_Product
<1> QED BY <1>4, <1>5, FS_Surjection

LEMMA CarriedFinite ==
    ASSUME TypeOK
    PROVE  /\ Live \subseteq Requests /\ Adrift \subseteq Requests
           /\ IsFiniteSet(Live) /\ IsFiniteSet(Adrift)
           /\ Cardinality(Live) \in Nat /\ Cardinality(Adrift) \in Nat
           /\ IsFiniteSet({f \in File : Held(f)}) /\ Spent \in Nat
           /\ total \in Nat /\ uncounted \in Nat
<1>1. Live \subseteq Requests /\ Adrift \subseteq Requests
  BY DEF TypeOK, Live, Adrift, Requests
<1>2. IsFiniteSet(Live) /\ IsFiniteSet(Adrift)
  BY <1>1, RequestsFinite, FS_Subset
<1>3. {f \in File : Held(f)} \in SUBSET File
  OBVIOUS
<1>4. IsFiniteSet({f \in File : Held(f)})
  BY <1>3, Bounds, FS_Subset
<1>5. total \in Nat /\ uncounted \in Nat
  BY Bounds DEF TypeOK
<1> QED BY <1>1, <1>2, <1>4, <1>5, FS_CardinalityType DEF Spent

\* Requests that lose their tab go on as strays, and no more than they were.
LEMMA StraysAreCounted ==
    ASSUME Kept, Live' \subseteq Live, Adrift' \subseteq Adrift \union (Live \ Live'),
           UNCHANGED <<bucket, total, uncounted>>
    PROVE  Counted'
<1>1. /\ IsFiniteSet(Live) /\ IsFiniteSet(Adrift)
      /\ Cardinality(Live) \in Nat /\ Cardinality(Adrift) \in Nat
      /\ Spent \in Nat /\ total \in Nat /\ uncounted \in Nat /\ Counted
  BY CarriedFinite DEF Kept
<1>2. PICK X : X = Live'
  OBVIOUS
<1>3. IsFiniteSet(X) /\ Cardinality(X) \in Nat /\ IsFiniteSet(Live \ X) /\ Cardinality(Live \ X) \in Nat
      /\ Cardinality(Live \ X) = Cardinality(Live) - Cardinality(X)
  <2>1. X \subseteq Live /\ Live \cap X = X
    BY <1>2
  <2>2. IsFiniteSet(X)
    BY <1>1, <2>1, FS_Subset
  <2>3. IsFiniteSet(Live \ X) /\ Cardinality(Live \ X) = Cardinality(Live) - Cardinality(Live \cap X)
    BY <1>1, FS_Difference
  <2> QED BY <2>1, <2>2, <2>3, FS_CardinalityType
<1>4. PICK Y : Y = Adrift'
  OBVIOUS
<1>5. Cardinality(Y) \in Nat /\ Cardinality(Y) <= Cardinality(Adrift) + Cardinality(Live \ X)
  <2>1. IsFiniteSet(Adrift \union (Live \ X))
        /\ Cardinality(Adrift \union (Live \ X))
             = Cardinality(Adrift) + Cardinality(Live \ X) - Cardinality(Adrift \cap (Live \ X))
    BY <1>1, <1>3, FS_Union
  <2>2. IsFiniteSet(Adrift \cap (Live \ X)) /\ Cardinality(Adrift \cap (Live \ X)) \in Nat
    BY <1>1, FS_Intersection, FS_CardinalityType
  <2>3. Y \in SUBSET (Adrift \union (Live \ X))
    BY <1>2, <1>4
  <2>4. IsFiniteSet(Y) /\ Cardinality(Y) <= Cardinality(Adrift \union (Live \ X))
    BY <2>1, <2>3, FS_Subset
  <2>5. Cardinality(Y) \in Nat /\ Cardinality(Adrift \union (Live \ X)) \in Nat
    BY <2>1, <2>4, FS_CardinalityType
  <2> QED BY <1>1, <1>3, <2>1, <2>2, <2>4, <2>5
<1>6. Spent' = Spent
  BY DEF Spent, Held
<1> QED BY <1>1, <1>2, <1>3, <1>4, <1>5, <1>6 DEF Counted

\* A set that gains or loses one element.
LEMMA GainOrLoss ==
    ASSUME NEW S, NEW x, IsFiniteSet(S), Cardinality(S) \in Nat
    PROVE  /\ Cardinality(S \union {x}) \in Nat /\ Cardinality(S \union {x}) <= Cardinality(S) + 1
           /\ x \in S => Cardinality(S \ {x}) \in Nat /\ Cardinality(S \ {x}) = Cardinality(S) - 1
<1>1. IsFiniteSet(S \ {x})
      /\ Cardinality(S \ {x}) = IF x \in S THEN Cardinality(S) - 1 ELSE Cardinality(S)
  BY FS_RemoveElement
<1>2. IsFiniteSet(S \union {x})
      /\ Cardinality(S \union {x}) = IF x \in S THEN Cardinality(S) ELSE Cardinality(S) + 1
  BY FS_AddElement
<1> QED BY <1>1, <1>2, FS_CardinalityType

\* What one of the room's requests does in one step of the worker.
Weight(at) == IF at = "put" THEN 1 ELSE 0

LEMMA StoringSpends ==
    ASSUME TypeOK, NEW f \in File, bucket' = [bucket EXCEPT ![f] = "young"]
    PROVE  /\ bucket' \in [File -> {"absent", "young", "old"}]
           /\ Spent' = IF Held(f) THEN Spent ELSE Spent + 1
           /\ \A g \in File : Held(g) => bucket'[g] # "absent"
           /\ bucket'[f] # "absent"
<1>1. bucket \in [File -> {"absent", "young", "old"}]
  BY DEF TypeOK
<1>2. {g \in File : bucket'[g] # "absent"} = {g \in File : Held(g)} \union {f}
  BY <1>1 DEF Held
<1>3. Cardinality({g \in File : Held(g)} \union {f})
        = IF f \in {g \in File : Held(g)} THEN Cardinality({g \in File : Held(g)})
          ELSE Cardinality({g \in File : Held(g)}) + 1
  BY CarriedFinite, FS_AddElement
<1>4. Spent' = Cardinality({g \in File : bucket'[g] # "absent"})
  BY DEF Spent, Held
<1>5. Spent' = IF Held(f) THEN Spent ELSE Spent + 1
  BY <1>2, <1>3, <1>4 DEF Spent
<1> QED BY <1>1, <1>5 DEF Held

LEMMA ServesEffect ==
    ASSUME TypeOK, NEW f \in File, NEW at, NEW to \in Asking \union Answers, Serves(f, at, to)
    PROVE  /\ bucket' \in [File -> {"absent", "young", "old"}]
           /\ total' \in 0..Quota /\ uncounted' \in Nat
           /\ acts' = acts /\ faults' \in 0..MaxFaults
           /\ Spent' + Weight(to) + total + uncounted <= Spent + Weight(at) + total' + uncounted'
           /\ Spent' \in Nat
           /\ \A g \in File : Held(g) => bucket'[g] # "absent"
           /\ to = "created" => bucket'[f] # "absent"
           /\ at \in Asking
           /\ ~(at = "put" /\ to = "put")
<1>1. /\ Spent \in Nat /\ total \in Nat /\ total \in 0..Quota /\ uncounted \in Nat /\ Quota \in Nat
      /\ bucket \in [File -> {"absent", "young", "old"}]
      /\ acts \in 0..MaxActs /\ faults \in 0..MaxFaults /\ MaxFaults \in Nat
  BY CarriedFinite, Bounds DEF TypeOK
<1>2. UNCHANGED bucket => Spent' = Spent /\ \A g \in File : Held(g) => bucket'[g] # "absent"
  BY DEF Spent, Held
<1>3. Refunded(total) \in 0..Quota /\ total - 1 <= Refunded(total) /\ Refunded(total) \in Nat
  BY <1>1 DEF Refunded
<1>4. CASE Authorized(f, at, to)
  <2>1. UNCHANGED <<bucket, total, uncounted>> /\ at = "authorize" /\ to # "put" /\ to # "created"
    BY <1>4 DEF Authorized
  <2>2. acts' = acts /\ faults' \in 0..MaxFaults
    BY <1>1, <1>4 DEF Authorized, Fault, bounds
  <2> QED BY <1>1, <1>2, <2>1, <2>2 DEF Weight, Asking
<1>5. CASE Reserved(f, at, to)
  <2>1. UNCHANGED <<bucket, uncounted, acts, faults>> /\ at = "reserve"
    BY <1>5 DEF Reserved, bounds
  <2>2. \/ to = "refused" /\ total' = total
        \/ to = "put" /\ total' = total + 1 /\ total + 1 <= Quota
    BY <1>1, <1>5 DEF Reserved
  <2> QED BY <1>1, <1>2, <2>1, <2>2 DEF Weight, Asking
<1>6. CASE Stored(f, at, to)
  <2>1. UNCHANGED uncounted /\ at = "put"
    BY <1>6 DEF Stored
  <2>2. CASE to = "created"
    <3>1. bucket' = [bucket EXCEPT ![f] = "young"] /\ UNCHANGED <<total, acts, faults>>
      BY <1>6, <2>2 DEF Stored, bounds
    <3>2. /\ bucket' \in [File -> {"absent", "young", "old"}] /\ bucket'[f] # "absent"
          /\ Spent' \in {Spent, Spent + 1} /\ \A g \in File : Held(g) => bucket'[g] # "absent"
      BY <3>1, StoringSpends
    <3>3. Weight(at) = 1 /\ Weight(to) = 0 /\ at \in Asking
      BY <2>1, <2>2 DEF Weight, Asking
    <3> QED BY <1>1, <2>1, <2>2, <3>1, <3>2, <3>3
  <2>3. CASE to # "created"
    <3>1. to = "later" /\ Fault /\ total' \in {total, Refunded(total)} /\ UNCHANGED bucket
      BY <1>6, <2>3 DEF Stored, Settled
    <3>2. acts' = acts /\ faults' \in 0..MaxFaults
      BY <1>1, <3>1 DEF Fault
    <3>3. Weight(at) = 1 /\ Weight(to) = 0 /\ at \in Asking
      BY <2>1, <3>1 DEF Weight, Asking
    <3>4. total' \in 0..Quota /\ total - 1 <= total' /\ total' \in Nat
      BY <1>1, <1>3, <3>1
    <3>5. UNCHANGED <<bucket, uncounted>> /\ to # "put" /\ to # "created" /\ Spent' = Spent
      BY <1>2, <2>1, <3>1
    <3>6. Spent' + Weight(to) + total + uncounted <= Spent + Weight(at) + total' + uncounted'
      <4>1. Spent \in Nat /\ total \in Nat /\ uncounted \in Nat
        BY <1>1
      <4>2. Spent' = Spent /\ uncounted' = uncounted
        BY <3>5
      <4>3. PICK n : n = total'
        OBVIOUS
      <4>4. n \in Nat /\ total - 1 <= n
        BY <3>4, <4>3
      <4>5. Spent + 0 + total + uncounted <= Spent + 1 + n + uncounted
        BY <4>1, <4>4
      <4> QED BY <3>3, <4>2, <4>3, <4>5
    <3>7. bucket' \in [File -> {"absent", "young", "old"}]
          /\ \A g \in File : Held(g) => bucket'[g] # "absent"
      BY <1>1, <1>2, <3>5
    <3>8. Spent' \in Nat /\ uncounted' \in Nat
      BY <1>1, <3>5
    <3> HIDE DEF Weight
    <3> QED BY <3>2, <3>3, <3>4, <3>5, <3>6, <3>7, <3>8
  <2> QED BY <2>2, <2>3
<1>7. CASE StoredAgain(f, at, to)
  <2>1. /\ at = "same-size" /\ to = "created" /\ bucket' = [bucket EXCEPT ![f] = "young"]
        /\ uncounted' = (IF Held(f) THEN uncounted ELSE uncounted + 1)
        /\ UNCHANGED <<total, acts, faults>>
    BY <1>7 DEF StoredAgain, bounds
  <2>2. /\ bucket' \in [File -> {"absent", "young", "old"}] /\ bucket'[f] # "absent"
        /\ Spent' = (IF Held(f) THEN Spent ELSE Spent + 1)
        /\ \A g \in File : Held(g) => bucket'[g] # "absent"
    BY <2>1, StoringSpends
  <2>3. Weight(at) = 0 /\ Weight(to) = 0 /\ at \in Asking
    BY <2>1 DEF Weight, Asking
  <2>4. uncounted' \in Nat /\ Spent' + uncounted <= Spent + uncounted' /\ Spent' \in Nat
    BY <1>1, <2>1, <2>2
  <2>5. total' = total /\ acts' = acts /\ faults' = faults
    BY <2>1
  <2> QED BY <1>1, <2>1, <2>2, <2>3, <2>4, <2>5
<1> QED BY <1>4, <1>5, <1>6, <1>7 DEF Serves

-----------------------------------------------------------------------------
(* The worker. *)

LEMMA ServeStep ==
    ASSUME Kept, NEW t \in Tab, NEW f \in File, Serve(t, f)
    PROVE  Kept'
<1>1. PICK to \in Asking \union Answers :
        Serves(f, put[t][f], to) /\ put' = [put EXCEPT ![t][f] = to]
  BY DEF Serve
<1>2. TypeOK /\ Remembered /\ FewMissed /\ LossIsVisible /\ Counted /\ DoomedAreHeld
  BY DEF Kept
<1>3. /\ bucket' \in [File -> {"absent", "young", "old"}]
      /\ total' \in 0..Quota /\ uncounted' \in Nat /\ acts' = acts /\ faults' \in 0..MaxFaults
      /\ Spent' + Weight(to) + total + uncounted
           <= Spent + Weight(put[t][f]) + total' + uncounted'
      /\ Spent' \in Nat
      /\ \A g \in File : Held(g) => bucket'[g] # "absent"
      /\ to = "created" => bucket'[f] # "absent"
      /\ put[t][f] \in Asking /\ ~(put[t][f] = "put" /\ to = "put")
  BY <1>1, <1>2, ServesEffect
<1>4. UNCHANGED <<up, get, missed, hinted, stray, board, ready, library, sweep, collected, forsaken>>
  BY DEF Serve
<1>5. put \in [Tab -> [File -> Asking \union Answers \union {"none"}]]
  BY <1>2 DEF TypeOK
<1>6. put' \in [Tab -> [File -> Asking \union Answers \union {"none"}]]
      /\ put'[t][f] = to
      /\ \A x \in Tab, g \in File : <<x, g>> # <<t, f>> => put'[x][g] = put[x][g]
  BY <1>1, <1>5
<1>7. Counted'
  <2>1. PICK r : r = [tab |-> t, file |-> f, at |-> "put"]
    OBVIOUS
  <2>2. r \in Requests
    BY <2>1 DEF Requests
  <2>3. r \in Live <=> put[t][f] = "put"
    BY <2>1, <2>2 DEF Live
  <2>4. Live' = IF to = "put" THEN Live \union {r}
                ELSE IF put[t][f] = "put" THEN Live \ {r} ELSE Live
    BY <1>3, <1>6, <2>1, <2>2, <2>3 DEF Live, Requests
  <2>5. /\ IsFiniteSet(Live) /\ Cardinality(Live) \in Nat /\ Cardinality(Adrift) \in Nat
        /\ Spent \in Nat /\ total \in Nat /\ uncounted \in Nat
    BY <1>2, CarriedFinite
  <2>6. Cardinality(Live') + Weight(put[t][f]) <= Cardinality(Live) + Weight(to)
        /\ Cardinality(Live') \in Nat
    <3>1. CASE to = "put"
      <4>1. Cardinality(Live \union {r}) \in Nat /\ Cardinality(Live \union {r}) <= Cardinality(Live) + 1
        BY <2>5, GainOrLoss
      <4>2. Weight(put[t][f]) = 0 /\ Weight(to) = 1 /\ Live' = Live \union {r}
        BY <1>3, <2>4, <3>1 DEF Weight
      <4> QED BY <2>5, <4>1, <4>2
    <3>2. CASE to # "put" /\ put[t][f] = "put"
      <4>1. Cardinality(Live \ {r}) \in Nat /\ Cardinality(Live \ {r}) = Cardinality(Live) - 1
        BY <2>3, <2>5, <3>2, GainOrLoss
      <4>2. Weight(put[t][f]) = 1 /\ Weight(to) = 0 /\ Live' = Live \ {r}
        BY <2>4, <3>2 DEF Weight
      <4> QED BY <2>5, <4>1, <4>2
    <3>3. CASE to # "put" /\ put[t][f] # "put"
      BY <2>4, <2>5, <3>3 DEF Weight
    <3> QED BY <3>1, <3>2, <3>3
  <2>7. Adrift' = Adrift
    BY <1>4 DEF Adrift
  <2>8. Weight(to) \in Nat /\ Weight(put[t][f]) \in Nat /\ total' \in Nat
    BY <1>3, Bounds DEF Weight
  <2> QED BY <1>2, <1>3, <2>5, <2>6, <2>7, <2>8 DEF Counted
<1>8. \A g \in File : Stays(g) => Stays(g)'
  BY <1>3, <1>4 DEF Stays, Held
<1>9. Remembered'
  <2>1. ASSUME NEW x \in Tab, NEW g \in File PROVE Fits(up[x][g], put'[x][g], Stays(g)')
    <3>1. Fits(up[x][g], put[x][g], Stays(g))
      BY <1>2 DEF Remembered
    <3>2. CASE <<x, g>> # <<t, f>>
      BY <1>6, <1>8, <3>1, <3>2 DEF Fits, Loose
    <3>3. CASE <<x, g>> = <<t, f>>
      <4>1. put[x][g] # "none" /\ put'[x][g] = to /\ (to = "created" => Stays(g)')
        BY <1>3, <1>6, <3>3 DEF Asking, Stays, Held
      <4> QED BY <1>8, <3>1, <4>1 DEF Fits, Loose
    <3> QED BY <3>2, <3>3
  <2> QED BY <1>4, <2>1 DEF Remembered, Fits, Loose
<1>10. LossIsVisible'
  BY <1>2, <1>3, <1>4, LossStays DEF TypeOK, Held
<1>11. DoomedAreHeld' /\ FewMissed'
  BY <1>2, <1>3, <1>4 DEF DoomedAreHeld, FewMissed, Held, TypeOK
<1>12. TypeOK'
  BY <1>2, <1>3, <1>4, <1>6 DEF TypeOK
<1> QED BY <1>7, <1>9, <1>10, <1>11, <1>12 DEF Kept

LEMMA ServeStrayStep ==
    ASSUME Kept, NEW r \in stray, ServeStray(r)
    PROVE  Kept'
<1>1. PICK to \in Asking \union Answers :
        /\ Serves(r.file, r.at, to)
        /\ stray' = IF to \in Answers THEN stray \ {r}
                    ELSE (stray \ {r}) \union {[r EXCEPT !.at = to]}
  BY DEF ServeStray
<1>2. TypeOK /\ Remembered /\ FewMissed /\ LossIsVisible /\ Counted /\ DoomedAreHeld
  BY DEF Kept
<1>3. r \in [tab : Tab, file : File, at : Asking] /\ r.file \in File
  BY <1>2 DEF TypeOK
<1>4. /\ bucket' \in [File -> {"absent", "young", "old"}]
      /\ total' \in 0..Quota /\ uncounted' \in Nat /\ acts' = acts /\ faults' \in 0..MaxFaults
      /\ Spent' + Weight(to) + total + uncounted <= Spent + Weight(r.at) + total' + uncounted'
      /\ Spent' \in Nat
      /\ \A g \in File : Held(g) => bucket'[g] # "absent"
      /\ ~(r.at = "put" /\ to = "put")
  BY <1>1, <1>2, <1>3, ServesEffect
<1>5. UNCHANGED <<up, put, get, missed, hinted, board, ready, library, sweep, collected, forsaken>>
  BY DEF ServeStray, client
<1>6. PICK q : q = [r EXCEPT !.at = to]
  OBVIOUS
<1>7. q = [tab |-> r.tab, file |-> r.file, at |-> to]
  BY <1>3, <1>6
<1>8. stray' \subseteq [tab : Tab, file : File, at : Asking]
  BY <1>1, <1>2, <1>3, <1>6, <1>7 DEF TypeOK
<1>9. Counted'
  <2>1. /\ IsFiniteSet(Adrift) /\ Cardinality(Live) \in Nat /\ Cardinality(Adrift) \in Nat
        /\ Spent \in Nat /\ total \in Nat /\ uncounted \in Nat
    BY <1>2, CarriedFinite
  <2>2. Live' = Live
    BY <1>5 DEF Live
  <2>3. r \in Adrift <=> r.at = "put"
    BY DEF Adrift
  <2>4. Adrift' = IF to = "put" THEN Adrift \union {q}
                  ELSE IF r.at = "put" THEN Adrift \ {r} ELSE Adrift
    BY <1>1, <1>4, <1>6, <1>7 DEF Adrift, Answers
  <2>5. Cardinality(Adrift') + Weight(r.at) <= Cardinality(Adrift) + Weight(to)
        /\ Cardinality(Adrift') \in Nat
    <3>1. CASE to = "put"
      <4>1. Cardinality(Adrift \union {q}) \in Nat
            /\ Cardinality(Adrift \union {q}) <= Cardinality(Adrift) + 1
        BY <2>1, GainOrLoss
      <4>2. Weight(r.at) = 0 /\ Weight(to) = 1 /\ Adrift' = Adrift \union {q}
        BY <1>4, <2>4, <3>1 DEF Weight
      <4> QED BY <2>1, <4>1, <4>2
    <3>2. CASE to # "put" /\ r.at = "put"
      <4>1. Cardinality(Adrift \ {r}) \in Nat /\ Cardinality(Adrift \ {r}) = Cardinality(Adrift) - 1
        BY <2>1, <2>3, <3>2, GainOrLoss
      <4>2. Weight(r.at) = 1 /\ Weight(to) = 0 /\ Adrift' = Adrift \ {r}
        BY <2>4, <3>2 DEF Weight
      <4> QED BY <2>1, <4>1, <4>2
    <3>3. CASE to # "put" /\ r.at # "put"
      BY <2>1, <2>4, <3>3 DEF Weight
    <3> QED BY <3>1, <3>2, <3>3
  <2>6. Weight(to) \in Nat /\ Weight(r.at) \in Nat /\ total' \in Nat
    BY <1>4, Bounds DEF Weight
  <2> QED BY <1>2, <1>4, <2>1, <2>2, <2>5, <2>6 DEF Counted
<1>10. \A g \in File : Stays(g) => Stays(g)'
  BY <1>4, <1>5 DEF Stays, Held
<1>11. Remembered'
  BY <1>2, <1>5, <1>10 DEF Remembered, Fits, Loose
<1>12. LossIsVisible'
  BY <1>2, <1>4, <1>5, LossStays DEF TypeOK, Held
<1>13. DoomedAreHeld' /\ FewMissed'
  BY <1>2, <1>4, <1>5 DEF DoomedAreHeld, FewMissed, Held, TypeOK
<1>14. TypeOK'
  BY <1>2, <1>4, <1>5, <1>8 DEF TypeOK
<1> QED BY <1>9, <1>11, <1>12, <1>13, <1>14 DEF Kept

-----------------------------------------------------------------------------
(* Answers, broken connections and reloads. *)

\* A tab's request for one picture ends: its memory of it becomes v.
LEMMA EndsEffect ==
    ASSUME Kept, NEW t \in Tab, NEW f \in File, NEW v \in Memory, Fits(v, "none", Stays(f)),
           v.pending \/ Stays(f),
           put' = [put EXCEPT ![t][f] = "none"], up' = [up EXCEPT ![t][f] = v],
           UNCHANGED <<get, missed, board, library, total, bucket, sweep, history>>
    PROVE  /\ up' \in [Tab -> [File -> Memory]]
           /\ put' \in [Tab -> [File -> Asking \union Answers \union {"none"}]]
           /\ Live' \subseteq Live /\ Live \ Live' \subseteq {[tab |-> t, file |-> f, at |-> "put"]}
           /\ put[t][f] # "put" => Live' = Live
           /\ Remembered' /\ DoomedAreHeld' /\ LossIsVisible' /\ FewMissed'
<1>1. TypeOK /\ Remembered /\ FewMissed /\ LossIsVisible /\ DoomedAreHeld
  BY DEF Kept
<1>2. /\ up \in [Tab -> [File -> Memory]]
      /\ put \in [Tab -> [File -> Asking \union Answers \union {"none"}]]
      /\ board \subseteq File
  BY <1>1 DEF TypeOK
<1>3. /\ up' \in [Tab -> [File -> Memory]]
      /\ put' \in [Tab -> [File -> Asking \union Answers \union {"none"}]]
      /\ up'[t][f] = v /\ put'[t][f] = "none"
      /\ \A x \in Tab, g \in File :
           <<x, g>> # <<t, f>> => up'[x][g] = up[x][g] /\ put'[x][g] = put[x][g]
  BY <1>2
<1>4. UNCHANGED <<get, missed, board, bucket, sweep, collected, forsaken>>
  BY DEF history
<1>5. /\ Live' \subseteq Live /\ Live \ Live' \subseteq {[tab |-> t, file |-> f, at |-> "put"]}
      /\ put[t][f] # "put" => Live' = Live
  BY <1>3 DEF Live, Requests
<1>6. \A g \in File : Stays(g)' <=> Stays(g)
  BY <1>4 DEF Stays, Held
<1>7. Remembered'
  <2>1. ASSUME NEW x \in Tab, NEW g \in File PROVE Fits(up'[x][g], put'[x][g], Stays(g))
    <3>1. CASE <<x, g>> = <<t, f>>
      BY <1>3, <3>1
    <3>2. CASE <<x, g>> # <<t, f>>
      BY <1>1, <1>3, <3>2 DEF Remembered
    <3> QED BY <3>1, <3>2
  <2> QED BY <1>6, <2>1 DEF Remembered, Fits, Loose
<1>8. LossIsVisible'
  <2>1. \A x \in Tab, g \in File :
          up[x][g].pending => up'[x][g].pending \/ bucket'[g] # "absent" \/ g \in collected'
    BY <1>3, <1>4 DEF Stays, Held
  <2> QED BY <1>1, <1>2, <1>4, <2>1, LossStays
<1>9. DoomedAreHeld' /\ FewMissed'
  BY <1>1, <1>4 DEF DoomedAreHeld, FewMissed, Held
<1> QED BY <1>3, <1>5, <1>7, <1>8, <1>9

LEMMA CreatedStep ==
    ASSUME Kept, NEW t \in Tab, NEW f \in File, Created(t, f)
    PROVE  Kept'
<1>1. TypeOK /\ Remembered
  BY DEF Kept
<1>2. up[t][f] \in Memory /\ put[t][f] = "created" /\ Stays(f) /\ Stays(f) \in BOOLEAN
  BY <1>1 DEF TypeOK, Remembered, Fits, Loose, Created, Stays, Held
<1>3. PICK v : v = Confirmed(up[t][f])
  OBVIOUS
<1>4. v \in Memory /\ Fits(v, "none", Stays(f))
  BY <1>2, <1>3, ConfirmedFits
<1>5. /\ put' = [put EXCEPT ![t][f] = "none"] /\ up' = [up EXCEPT ![t][f] = v]
      /\ ready' = ready \union {f} /\ hinted' \subseteq Tab
      /\ UNCHANGED <<get, missed, board, library, total, stray, bucket, sweep, history, bounds>>
  BY <1>1, <1>3 DEF Created, TypeOK
<1>6. /\ up' \in [Tab -> [File -> Memory]]
      /\ put' \in [Tab -> [File -> Asking \union Answers \union {"none"}]]
      /\ Live' = Live /\ Remembered' /\ DoomedAreHeld' /\ LossIsVisible' /\ FewMissed'
  BY <1>2, <1>4, <1>5, EndsEffect
<1>7. Counted'
  BY <1>5, <1>6, StraysAreCounted DEF Adrift, history
<1>8. TypeOK'
  BY <1>1, <1>5, <1>6 DEF TypeOK, history, bounds
<1> QED BY <1>6, <1>7, <1>8 DEF Kept

LEMMA NotStoredStep ==
    ASSUME Kept, NEW t \in Tab, NEW f \in File, PutOff(t, f) \/ Refused(t, f)
    PROVE  Kept'
<1>1. TypeOK /\ Remembered
  BY DEF Kept
<1>2. up[t][f] \in Memory /\ put[t][f] \in {"later", "refused"} /\ Stays(f) \in BOOLEAN
      /\ Fits(up[t][f], put[t][f], Stays(f))
  BY <1>1 DEF TypeOK, Remembered, PutOff, Refused, Stays, Held
<1>3. PICK v : v = IF PutOff(t, f) THEN Deferred(up[t][f]) ELSE GivenUp(up[t][f])
  OBVIOUS
<1>4. v \in Memory /\ Fits(v, "none", Stays(f)) /\ v.pending
  BY <1>2, <1>3, DeferredFits, GivenUpFits
<1>5. /\ put' = [put EXCEPT ![t][f] = "none"] /\ up' = [up EXCEPT ![t][f] = v]
      /\ UNCHANGED <<get, missed, hinted, roomObject, stray, bucket, sweep, history, bounds>>
  BY <1>3 DEF PutOff, Refused
<1>6. /\ up' \in [Tab -> [File -> Memory]]
      /\ put' \in [Tab -> [File -> Asking \union Answers \union {"none"}]]
      /\ Live' = Live /\ Remembered' /\ DoomedAreHeld' /\ LossIsVisible' /\ FewMissed'
  BY <1>2, <1>4, <1>5, EndsEffect DEF roomObject
<1>7. Counted'
  BY <1>5, <1>6, StraysAreCounted DEF Adrift, history, roomObject
<1>8. TypeOK'
  BY <1>1, <1>5, <1>6 DEF TypeOK, history, bounds, roomObject
<1> QED BY <1>6, <1>7, <1>8 DEF Kept

LEMMA CutOffStep ==
    ASSUME Kept, NEW t \in Tab, NEW f \in File, CutOff(t, f)
    PROVE  Kept'
<1>1. TypeOK /\ Remembered
  BY DEF Kept
<1>2. up[t][f] \in Memory /\ put[t][f] \in Asking \union Answers /\ put[t][f] # "none"
      /\ Stays(f) \in BOOLEAN /\ Fits(up[t][f], put[t][f], Stays(f))
  BY <1>1 DEF TypeOK, Remembered, CutOff, Stays, Held, Asking, Answers
<1>3. PICK v : v = Deferred(up[t][f])
  OBVIOUS
<1>4. v \in Memory /\ Fits(v, "none", Stays(f)) /\ v.pending
  BY <1>2, <1>3, DeferredFits
<1>5. /\ put' = [put EXCEPT ![t][f] = "none"] /\ up' = [up EXCEPT ![t][f] = v]
      /\ stray' = stray \union Cut(t, {f})
      /\ UNCHANGED <<get, missed, hinted, roomObject, bucket, sweep, history>>
      /\ acts' = acts /\ faults' \in 0..MaxFaults
  BY <1>1, <1>3, Bounds DEF CutOff, Fault, TypeOK
<1>6. /\ up' \in [Tab -> [File -> Memory]]
      /\ put' \in [Tab -> [File -> Asking \union Answers \union {"none"}]]
      /\ Live' \subseteq Live /\ Live \ Live' \subseteq {[tab |-> t, file |-> f, at |-> "put"]}
      /\ put[t][f] # "put" => Live' = Live
      /\ Remembered' /\ DoomedAreHeld' /\ LossIsVisible' /\ FewMissed'
  BY <1>2, <1>4, <1>5, EndsEffect DEF roomObject
<1>7. Cut(t, {f}) \subseteq {[tab |-> t, file |-> f, at |-> put[t][f]]}
      /\ Cut(t, {f}) \subseteq [tab : Tab, file : File, at : Asking]
  BY DEF Cut
<1>8. Counted'
  <2>1. ASSUME NEW r \in Adrift', r \notin Adrift PROVE r \in Live \ Live'
    <3>1. r \in stray' /\ r \notin stray /\ r.at = "put"
      BY <2>1 DEF Adrift
    <3>2. r = [tab |-> t, file |-> f, at |-> put[t][f]]
      BY <1>5, <1>7, <3>1
    <3>3. put[t][f] = "put" /\ r.tab = t /\ r.file = f
      BY <3>1, <3>2
    <3>4. r \in Live
      BY <3>2, <3>3 DEF Live, Requests
    <3>5. put'[t][f] = "none"
      BY <1>1, <1>5 DEF TypeOK
    <3>6. r \notin Live'
      BY <3>3, <3>5 DEF Live
    <3> QED BY <3>4, <3>6
  <2> QED BY <1>5, <1>6, <2>1, StraysAreCounted DEF history, roomObject
<1>9. TypeOK'
  BY <1>1, <1>5, <1>6, <1>7 DEF TypeOK, history, roomObject
<1> QED BY <1>6, <1>8, <1>9 DEF Kept

LEMMA ReloadStep ==
    ASSUME Kept, NEW t \in Tab, Reload(t)
    PROVE  Kept'
<1>1. TypeOK /\ Remembered /\ LossIsVisible /\ FewMissed /\ DoomedAreHeld
  BY DEF Kept
<1>2. /\ up \in [Tab -> [File -> Memory]]
      /\ put \in [Tab -> [File -> Asking \union Answers \union {"none"}]]
      /\ board \subseteq File
  BY <1>1 DEF TypeOK
<1>3. PICK u : u = [f \in File |-> Unknown]
  OBVIOUS
<1>4. PICK p : p = [f \in File |-> "none"]
  OBVIOUS
<1>5. /\ up' = [up EXCEPT ![t] = u] /\ put' = [put EXCEPT ![t] = p]
      /\ stray' = stray \union Cut(t, File)
      /\ forsaken' = forsaken \union {f \in File : up[t][f].pending}
      /\ UNCHANGED <<board, ready, library, total, bucket, sweep, uncounted, collected, faults>>
      /\ acts' \in 0..MaxActs
  BY <1>1, <1>3, <1>4, Bounds DEF Reload, Act, roomObject, TypeOK
<1>6. /\ up' \in [Tab -> [File -> Memory]]
      /\ put' \in [Tab -> [File -> Asking \union Answers \union {"none"}]]
      /\ \A f \in File : up'[t][f] = Unknown /\ put'[t][f] = "none"
      /\ \A x \in Tab \ {t}, f \in File : up'[x][f] = up[x][f] /\ put'[x][f] = put[x][f]
  <2>1. u \in [File -> Memory] /\ p \in [File -> Asking \union Answers \union {"none"}]
    BY <1>3, <1>4, UnknownFits
  <2> QED BY <1>2, <1>3, <1>4, <1>5, <2>1
<1>7. \A f \in File : Stays(f) \in BOOLEAN /\ (Stays(f)' <=> Stays(f))
  BY <1>5 DEF Stays, Held
<1>8. Remembered'
  <2>1. ASSUME NEW x \in Tab, NEW f \in File PROVE Fits(up'[x][f], put'[x][f], Stays(f))
    <3>1. CASE x = t
      BY <1>6, <1>7, <3>1, UnknownFits
    <3>2. CASE x # t
      BY <1>1, <1>6, <3>2 DEF Remembered
    <3> QED BY <3>1, <3>2
  <2> QED BY <1>7, <2>1 DEF Remembered, Fits, Loose
<1>9. LossIsVisible'
  <2>1. \A x \in Tab, f \in File : up[x][f].pending => up'[x][f].pending \/ f \in forsaken'
    BY <1>5, <1>6
  <2> QED BY <1>1, <1>2, <1>5, <2>1, LossStays
<1>10. Cut(t, File) \subseteq [tab : Tab, file : File, at : Asking]
       /\ \A r \in Cut(t, File) : r.tab = t /\ r.at = put[r.tab][r.file]
  BY DEF Cut
<1>11. Live' \subseteq Live
  BY <1>6 DEF Live, Requests
<1>12. Adrift' \subseteq Adrift \union (Live \ Live')
  <2>1. ASSUME NEW r \in Adrift', r \notin Adrift PROVE r \in Live \ Live'
    <3>1. r \in Cut(t, File) /\ r.at = "put"
      BY <1>5, <2>1 DEF Adrift
    <3>2. r \in Requests
      BY <1>10, <3>1 DEF Requests
    <3>3. r \in Live
      BY <1>10, <3>1, <3>2 DEF Live
    <3>4. put'[r.tab][r.file] = "none"
      BY <1>6, <1>10, <3>1
    <3> QED BY <3>3, <3>4 DEF Live
  <2> QED BY <2>1
<1>13. Counted'
  BY <1>5, <1>11, <1>12, StraysAreCounted
<1>14. /\ get' \in [Tab -> [File -> {"none", "asked", "bytes", "missing"}]]
       /\ missed' \in [Tab -> [File -> 0..FetchTries]] /\ FewMissed' /\ hinted' \subseteq Tab
  <2>1. PICK m : m = [f \in File |-> 0]
    OBVIOUS
  <2>2. m \in [File -> 0..FetchTries] /\ missed' = [missed EXCEPT ![t] = m] /\ 0 < FetchTries
    BY <2>1, Bounds DEF Reload
  <2>3. PICK g : g = [f \in File |-> IF f \in board THEN "asked" ELSE "none"]
    OBVIOUS
  <2>4. g \in [File -> {"none", "asked", "bytes", "missing"}] /\ get' = [get EXCEPT ![t] = g]
    BY <2>3 DEF Reload
  <2> QED BY <1>1, <2>1, <2>2, <2>4 DEF TypeOK, FewMissed, Reload
<1>15. DoomedAreHeld'
  BY <1>1, <1>5 DEF DoomedAreHeld, Held
<1>16. TypeOK'
  BY <1>1, <1>5, <1>6, <1>10, <1>14 DEF TypeOK
<1> QED BY <1>8, <1>9, <1>13, <1>14, <1>15, <1>16 DEF Kept

-----------------------------------------------------------------------------
(* Fetching, and the sweep. *)

LEMMA GetServedStep ==
    ASSUME Kept, NEW t \in Tab, NEW f \in File, GetServed(t, f)
    PROVE  Kept'
<1>1. Idle /\ board' \subseteq board
  BY DEF GetServed, Idle, roomObject
<1>2. TypeOK' /\ FewMissed'
  BY DEF Kept, GetServed, TypeOK, FewMissed, roomObject, history, bounds
<1> QED BY <1>1, <1>2, IdleKeeps DEF Kept

LEMMA HintArrivesStep ==
    ASSUME Kept, NEW t \in Tab, HintArrives(t)
    PROVE  Kept'
<1>1. Idle /\ board' \subseteq board
  BY DEF HintArrives, Idle, roomObject
<1>2. PICK m : m = [f \in File |-> IF f \in ready THEN 0 ELSE missed[t][f]]
  OBVIOUS
<1>3. PICK fs : fs = IF \E f \in ready : missed[t][f] > 0 THEN Wanted(t, missed'[t]) ELSE {}
  OBVIOUS
<1>4. /\ missed' = [missed EXCEPT ![t] = m] /\ Fetch(t, fs) /\ hinted' \subseteq hinted
      /\ UNCHANGED <<board, ready, library, total, acts, faults>>
  BY <1>2, <1>3 DEF HintArrives, roomObject, bounds
<1>5. missed \in [Tab -> [File -> 0..FetchTries]] /\ FewMissed /\ TypeOK
  BY DEF Kept, TypeOK
<1>6. m \in [File -> 0..FetchTries] /\ \A f \in File : m[f] <= missed[t][f]
  BY <1>2, <1>5, Bounds
<1>7. missed' \in [Tab -> [File -> 0..FetchTries]] /\ missed'[t] = m
      /\ \A x \in Tab \ {t} : missed'[x] = missed[x]
  BY <1>4, <1>5, <1>6
<1>8. \A f \in fs : m[f] < FetchTries
  BY <1>3, <1>7 DEF Wanted
<1>9. /\ get' \in [Tab -> [File -> {"none", "asked", "bytes", "missing"}]]
      /\ \A f \in File : get'[t][f] = IF f \in fs THEN "asked" ELSE get[t][f]
      /\ \A x \in Tab \ {t} : get'[x] = get[x]
  BY <1>4, <1>5 DEF Fetch, TypeOK
<1>10. FewMissed'
  <2>1. ASSUME NEW x \in Tab, NEW f \in File, get'[x][f] # "none" PROVE missed'[x][f] < FetchTries
    <3>1. CASE x = t
      <4>1. CASE f \in fs
        BY <1>7, <1>8, <3>1, <4>1
      <4>2. CASE f \notin fs
        <5>1. missed[t][f] < FetchTries
          BY <1>5, <1>9, <2>1, <3>1, <4>2 DEF FewMissed
        <5>2. m[f] \in Nat /\ missed[t][f] \in Nat /\ m[f] <= missed[t][f] /\ missed'[x][f] = m[f]
          BY <1>5, <1>6, <1>7, <3>1, Bounds
        <5> QED BY <5>1, <5>2, Bounds
      <4> QED BY <4>1, <4>2
    <3>2. CASE x # t
      BY <1>5, <1>7, <1>9, <2>1, <3>2 DEF FewMissed
    <3> QED BY <3>1, <3>2
  <2> QED BY <2>1 DEF FewMissed
<1>11. TypeOK'
  <2>1. UNCHANGED <<up, put, stray, bucket, total, sweep, uncounted, collected, forsaken>>
    BY <1>1 DEF Idle, history
  <2>2. hinted' \subseteq Tab
    BY <1>4, <1>5 DEF TypeOK
  <2> QED BY <1>4, <1>5, <1>7, <1>9, <2>1, <2>2 DEF TypeOK
<1> QED BY <1>1, <1>10, <1>11, IdleKeeps DEF Kept

LEMMA GetAnsweredStep ==
    ASSUME Kept, NEW t \in Tab, NEW f \in File, GetAnswered(t, f)
    PROVE  Kept'
<1>1. TypeOK /\ Remembered /\ LossIsVisible /\ FewMissed /\ DoomedAreHeld /\ Counted
  BY DEF Kept
<1>2. /\ up \in [Tab -> [File -> Memory]] /\ missed \in [Tab -> [File -> 0..FetchTries]]
      /\ get \in [Tab -> [File -> {"none", "asked", "bytes", "missing"}]] /\ board \subseteq File
  BY <1>1 DEF TypeOK
<1>3. /\ get[t][f] # "none" /\ get' = [get EXCEPT ![t][f] = "none"]
      /\ UNCHANGED <<put, hinted, board, ready, library, total, stray, bucket, sweep,
                     uncounted, collected, forsaken>>
  BY DEF GetAnswered, roomObject, history
<1>4. get' \in [Tab -> [File -> {"none", "asked", "bytes", "missing"}]]
      /\ \A x \in Tab, g \in File : get'[x][g] # "none" => get[x][g] # "none" /\ <<x, g>> # <<t, f>>
  BY <1>2, <1>3
<1>5. missed[t][f] < FetchTries /\ missed[t][f] + 1 \in 0..FetchTries
  BY <1>1, <1>2, <1>3, Bounds DEF FewMissed
<1>6. /\ missed' \in [Tab -> [File -> 0..FetchTries]]
      /\ \A x \in Tab, g \in File : <<x, g>> # <<t, f>> => missed'[x][g] = missed[x][g]
  <2>1. PICK n \in 0..FetchTries : n = missed[t][f] + 1
    BY <1>5
  <2>2. missed' = missed \/ missed' = [missed EXCEPT ![t][f] = n]
    BY <2>1 DEF GetAnswered
  <2>3. CASE missed' = missed
    BY <1>2, <2>3
  <2>4. CASE missed' = [missed EXCEPT ![t][f] = n]
    BY <1>2, <2>1, <2>4
  <2> QED BY <2>2, <2>3, <2>4
<1>7. acts' \in 0..MaxActs /\ faults' \in 0..MaxFaults
  BY <1>1, Bounds DEF GetAnswered, Fault, bounds, TypeOK
<1>8. PICK v : v = [up[t][f] EXCEPT !.bytes = TRUE]
  OBVIOUS
<1>9. /\ v \in Memory /\ v.marked = up[t][f].marked /\ v.pending = up[t][f].pending
      /\ v.confirmed = up[t][f].confirmed /\ v.tries = up[t][f].tries /\ v.failed = up[t][f].failed
  <2>1. up[t][f] \in Memory
    BY <1>2
  <2> QED BY <1>8, <2>1 DEF Memory
<1>10. up' = up \/ up' = [up EXCEPT ![t][f] = v]
  BY <1>8 DEF GetAnswered
<1>11. /\ up' \in [Tab -> [File -> Memory]]
       /\ \A x \in Tab, g \in File :
            /\ up'[x][g].marked = up[x][g].marked /\ up'[x][g].pending = up[x][g].pending
            /\ up'[x][g].confirmed = up[x][g].confirmed /\ up'[x][g].tries = up[x][g].tries
            /\ up'[x][g].failed = up[x][g].failed
  <2>1. CASE up' = up
    BY <1>2, <2>1
  <2>2. CASE up' = [up EXCEPT ![t][f] = v]
    <3>1. up' \in [Tab -> [File -> Memory]]
          /\ \A x \in Tab, g \in File : up'[x][g] = IF <<x, g>> = <<t, f>> THEN v ELSE up[x][g]
      BY <1>2, <1>9, <2>2
    <3> QED BY <1>9, <3>1
  <2> QED BY <1>10, <2>1, <2>2
<1>12. Remembered'
  BY <1>1, <1>3, <1>11 DEF Remembered, Fits, Loose, Stays, Held
<1>13. LossIsVisible'
  BY <1>1, <1>2, <1>3, <1>11, LossStays
<1>14. Counted'
  <2>1. Live' = Live /\ Adrift' = Adrift
    BY <1>3 DEF Live, Adrift
  <2> QED BY <1>1, <1>3, <2>1 DEF Counted, Spent, Held
<1>15. DoomedAreHeld' /\ FewMissed'
  BY <1>1, <1>3, <1>4, <1>6 DEF DoomedAreHeld, FewMissed, Held
<1>16. TypeOK'
  BY <1>1, <1>3, <1>4, <1>6, <1>7, <1>11 DEF TypeOK
<1> QED BY <1>12, <1>13, <1>14, <1>15, <1>16 DEF Kept

\* What the bucket holds is the same.
LEMMA BucketHolds ==
    ASSUME Kept, UNCHANGED <<up, put, get, missed, stray, board, total, history>>,
           \A f \in File : bucket'[f] # "absent" <=> bucket[f] # "absent",
           \A f \in sweep'.doomed : f \in File /\ bucket'[f] # "absent"
    PROVE  Remembered' /\ FewMissed' /\ LossIsVisible' /\ Counted' /\ DoomedAreHeld'
<1>1. TypeOK /\ Remembered /\ LossIsVisible /\ FewMissed /\ Counted
  BY DEF Kept
<1>2. UNCHANGED <<uncounted, collected, forsaken>> /\ Live' = Live /\ Adrift' = Adrift
  BY DEF history, Live, Adrift
<1>3. {f \in File : Held(f)}' = {f \in File : Held(f)}
  BY DEF Held
<1>4. Counted'
  BY <1>1, <1>2, <1>3 DEF Counted, Spent
<1>5. \A f \in File : Stays(f)' <=> Stays(f)
  BY <1>2 DEF Stays, Held
<1>6. Remembered' /\ FewMissed'
  BY <1>1, <1>5 DEF Remembered, FewMissed, Fits, Loose
<1>7. LossIsVisible'
  BY <1>1, <1>2, LossStays DEF TypeOK
<1> QED BY <1>4, <1>6, <1>7 DEF DoomedAreHeld, Held

LEMMA GraceEndsStep == ASSUME Kept, NEW f \in File, GraceEnds(f) PROVE Kept'
<1>1. TypeOK /\ DoomedAreHeld
  BY DEF Kept
<1>2. UNCHANGED <<up, put, get, missed, hinted, board, ready, library, total, stray, sweep, history, bounds>>
  BY DEF GraceEnds, client, roomObject
<1>3. /\ bucket' \in [File -> {"absent", "young", "old"}]
      /\ \A g \in File : bucket'[g] # "absent" <=> bucket[g] # "absent"
  BY <1>1 DEF GraceEnds, TypeOK
<1>4. sweep.doomed \subseteq File
  BY <1>1 DEF TypeOK
<1>5. TypeOK'
  BY <1>1, <1>2, <1>3 DEF TypeOK, history, bounds
<1> QED BY <1>1, <1>2, <1>3, <1>4, <1>5, BucketHolds DEF Kept, DoomedAreHeld, Held

LEMMA SweepChoosesStep == ASSUME Kept, SweepStarts \/ SweepLists PROVE Kept'
<1>1. TypeOK
  BY DEF Kept
<1>2. UNCHANGED <<up, put, get, missed, hinted, board, ready, library, total, stray, bucket, history, bounds>>
  BY DEF SweepStarts, SweepLists, client, roomObject
<1>3. sweep \in [at : {"idle", "listing", "deleting"}, kept : SUBSET File, doomed : SUBSET File]
      /\ board \union library \subseteq File
  BY <1>1 DEF TypeOK
<1>4. /\ sweep' \in [at : {"idle", "listing", "deleting"}, kept : SUBSET File, doomed : SUBSET File]
      /\ \A f \in sweep'.doomed : f \in File /\ bucket[f] # "absent"
  <2>1. CASE SweepStarts
    <3>1. PICK w : w = [at |-> "listing", kept |-> board \union library, doomed |-> {}]
      OBVIOUS
    <3>2. sweep' = w
      BY <2>1, <3>1 DEF SweepStarts
    <3> QED BY <1>3, <3>1, <3>2
  <2>2. CASE SweepLists
    <3>1. PICK D : D = Doomed(sweep.kept)
      OBVIOUS
    <3>2. D \subseteq File /\ \A f \in D : bucket[f] # "absent"
      BY <3>1 DEF Doomed
    <3>3. PICK a \in {"idle", "deleting"} : a = IF D = {} THEN "idle" ELSE "deleting"
      OBVIOUS
    <3>4. sweep' = [sweep EXCEPT !.at = a, !.doomed = D]
      BY <2>2, <3>1, <3>3 DEF SweepLists
    <3> QED BY <1>3, <3>2, <3>4
  <2> QED BY <2>1, <2>2
<1>5. TypeOK'
  BY <1>1, <1>2, <1>4 DEF TypeOK, history, bounds
<1> QED BY <1>2, <1>4, <1>5, BucketHolds DEF Kept

LEMMA SweepDeletesStep == ASSUME Kept, NEW f \in File, SweepDeletes(f) PROVE Kept'
<1>1. TypeOK /\ Remembered /\ LossIsVisible /\ FewMissed /\ DoomedAreHeld /\ Counted
  BY DEF Kept
<1>2. /\ f \in sweep.doomed /\ bucket' = [bucket EXCEPT ![f] = "absent"] /\ total' = Refunded(total)
      /\ collected' = collected \union {f}
      /\ UNCHANGED <<up, put, get, missed, hinted, board, ready, library, stray, uncounted,
                     forsaken, acts, faults>>
  BY DEF SweepDeletes, client, bounds
<1>3. /\ bucket \in [File -> {"absent", "young", "old"}]
      /\ sweep \in [at : {"idle", "listing", "deleting"}, kept : SUBSET File, doomed : SUBSET File]
      /\ Held(f) /\ board \subseteq File
  BY <1>1, <1>2 DEF TypeOK, DoomedAreHeld
<1>4. /\ bucket' \in [File -> {"absent", "young", "old"}] /\ bucket'[f] = "absent"
      /\ \A g \in File \ {f} : bucket'[g] = bucket[g]
  BY <1>2, <1>3
<1>5. /\ Spent \in Nat /\ total \in Nat /\ uncounted \in Nat /\ IsFiniteSet({g \in File : Held(g)})
      /\ Cardinality(Live) \in Nat /\ Cardinality(Adrift) \in Nat /\ total \in 0..Quota
  BY <1>1, CarriedFinite DEF TypeOK
<1>6. Spent' = Spent - 1
  <2>1. {g \in File : Held(g)}' = {g \in File : Held(g)} \ {f}
    BY <1>4 DEF Held
  <2>2. Cardinality({g \in File : Held(g)} \ {f}) = Cardinality({g \in File : Held(g)}) - 1
    BY <1>3, <1>5, GainOrLoss DEF Spent
  <2> QED BY <2>1, <2>2 DEF Spent
<1>7. Refunded(total) \in 0..Quota /\ total - 1 <= Refunded(total) /\ Refunded(total) \in Nat
  BY <1>5, Bounds DEF Refunded
<1>8. Counted'
  <2>1. Live' = Live /\ Adrift' = Adrift
    BY <1>2 DEF Live, Adrift
  <2> QED BY <1>1, <1>2, <1>5, <1>6, <1>7, <2>1 DEF Counted
<1>9. \A g \in File : Stays(g) => Stays(g)'
  BY <1>2, <1>4 DEF Stays, Held
<1>10. Remembered'
  BY <1>1, <1>2, <1>9 DEF Remembered, Fits, Loose
<1>11. LossIsVisible'
  BY <1>1, <1>2, <1>3, <1>4, LossStays
<1>12. FewMissed'
  BY <1>1, <1>2 DEF FewMissed
<1>13. /\ sweep' \in [at : {"idle", "listing", "deleting"}, kept : SUBSET File, doomed : SUBSET File]
       /\ sweep'.doomed = sweep.doomed \ {f}
  <2>1. PICK a : a = IF sweep.doomed = {f} THEN "idle" ELSE sweep.at
    OBVIOUS
  <2>2. sweep' = [sweep EXCEPT !.doomed = sweep.doomed \ {f}, !.at = a]
    BY <2>1 DEF SweepDeletes
  <2> QED BY <1>3, <2>1, <2>2
<1>14. DoomedAreHeld'
  BY <1>1, <1>3, <1>4, <1>13 DEF DoomedAreHeld, Held
<1>15. TypeOK'
  BY <1>1, <1>2, <1>4, <1>7, <1>13 DEF TypeOK
<1> QED BY <1>8, <1>10, <1>11, <1>12, <1>14, <1>15 DEF Kept

-----------------------------------------------------------------------------
(* The theorems. *)

LEMMA InitKept == Init => Kept
<1> SUFFICES ASSUME Init PROVE Kept
  OBVIOUS
<1>1. Unknown \in Memory /\ \A s \in BOOLEAN : Fits(Unknown, "none", s)
  BY UnknownFits
<1>2. TypeOK
  <2>1. 0 \in 0..Quota /\ 0 \in 0..FetchTries /\ 0 \in 0..MaxActs /\ 0 \in 0..MaxFaults
    BY Bounds
  <2>2. /\ up \in [Tab -> [File -> Memory]]
        /\ put \in [Tab -> [File -> Asking \union Answers \union {"none"}]]
        /\ get \in [Tab -> [File -> {"none", "asked", "bytes", "missing"}]]
        /\ missed \in [Tab -> [File -> 0..FetchTries]]
        /\ bucket \in [File -> {"absent", "young", "old"}]
    BY <1>1, <2>1 DEF Init
  <2>3. sweep \in [at : {"idle", "listing", "deleting"}, kept : SUBSET File, doomed : SUBSET File]
    BY DEF Init
  <2> QED BY <2>1, <2>2, <2>3 DEF Init, TypeOK
<1>3. Remembered /\ FewMissed
  BY <1>1 DEF Init, Remembered, FewMissed, Stays, Held
<1>4. LossIsVisible /\ DoomedAreHeld
  BY DEF Init, LossIsVisible, DoomedAreHeld
<1>5. Live = {} /\ Adrift = {} /\ {f \in File : Held(f)} = {}
  BY DEF Init, Live, Adrift, Requests, Held
<1>6. Counted
  <2>1. Spent = 0 /\ Cardinality(Live) = 0 /\ Cardinality(Adrift) = 0
    BY <1>5, FS_EmptySet DEF Spent
  <2>2. total = 0 /\ uncounted = 0
    BY DEF Init
  <2> QED BY <2>1, <2>2 DEF Counted
<1> QED BY <1>2, <1>3, <1>4, <1>6 DEF Kept

LEMMA NextKept == Kept /\ [Next]_vars => Kept'
<1> SUFFICES ASSUME Kept, [Next]_vars PROVE Kept'
  OBVIOUS
<1>1. CASE UNCHANGED vars
  <2>1. Idle /\ UNCHANGED <<get, missed, hinted, board, ready, library, acts, faults>>
    BY <1>1 DEF vars, client, roomObject, bounds, Idle
  <2>2. TypeOK' /\ FewMissed'
    BY <2>1 DEF Kept, TypeOK, FewMissed, Idle, history
  <2> QED BY <2>1, <2>2, IdleKeeps DEF Kept
<1>2. CASE Clear \/ SweepStarts \/ SweepLists
  BY <1>2, ClearStep, SweepChoosesStep
<1>3. ASSUME NEW f \in File, SaveShape(f) \/ GraceEnds(f) \/ SweepDeletes(f) PROVE Kept'
  BY <1>3, SaveShapeStep, GraceEndsStep, SweepDeletesStep
<1>4. ASSUME NEW t \in Tab, RemoteChange(t) \/ RetryFailed(t) \/ Reload(t) \/ HintArrives(t) PROVE Kept'
  BY <1>4, RemoteChangeStep, RetryFailedStep, ReloadStep, HintArrivesStep
<1>5. ASSUME NEW t \in Tab, NEW f \in File,
             \/ Paste(t, f) \/ Serve(t, f) \/ Created(t, f) \/ PutOff(t, f) \/ Refused(t, f)
             \/ CutOff(t, f) \/ RetryDue(t, f) \/ GetServed(t, f) \/ GetAnswered(t, f)
      PROVE  Kept'
  BY <1>5, PasteStep, ServeStep, CreatedStep, NotStoredStep, CutOffStep, RetryDueStep,
     GetServedStep, GetAnsweredStep
<1>6. ASSUME NEW r \in stray, ServeStray(r) PROVE Kept'
  BY <1>6, ServeStrayStep
<1> QED BY <1>1, <1>2, <1>3, <1>4, <1>5, <1>6 DEF Next

LEMMA AlwaysKept == Spec => []Kept
BY InitKept, NextKept, PTL DEF Spec

\* Uploaders, requests, bucket and quota keep their shapes, and the count of the
\* room's bytes stays within its quota.
THEOREM FilesKeepTheirTypes == Spec => []TypeOK
BY AlwaysKept, PTL DEF Kept

\* A picture on the board without bytes is still being sent or shown as failed by
\* a tab, unless it was left in spite of the warning or the sweep took it.
THEOREM LossIsShown == Spec => []LossIsVisible
BY AlwaysKept, PTL DEF Kept

\* The quota is never handed out twice, whatever is retried, cut off, refused,
\* thrown or swept (worker.ts:3711 apart, which "uncounted" counts).
THEOREM QuotaHolds == Spec => []BytesAreCounted
<1>1. Kept => BytesAreCounted
  <2> SUFFICES ASSUME Kept PROVE BytesAreCounted
    OBVIOUS
  <2>1. /\ Cardinality(Live) \in Nat /\ Cardinality(Adrift) \in Nat /\ Spent \in Nat
        /\ total \in Nat /\ uncounted \in Nat /\ Counted
    BY CarriedFinite DEF Kept
  <2> QED BY <2>1 DEF Counted, BytesAreCounted
<1> QED BY <1>1, AlwaysKept, PTL

-----------------------------------------------------------------------------
(* Paged documents: who wrote what stands under an id. *)

\* Element x may stand under id e in a document of tab t, with the ids in tw made
\* twice.  The room's document is as the owner's.
Fields == {"v", "by", "gone", "at", "page", "on"}
IsElement(x) == DOMAIN x = Fields /\ x = [i \in Fields |-> x[i]]
Fit(tw, t, e, x) ==
    /\ IsElement(x)
    /\ t = Owner /\ e \notin tw /\ x.page # NoPage => x.by = Owner /\ e \in Pages

IsBoard(tw, t, d) == \A e \in DOMAIN d : Fit(tw, t, e, d[e])
IsFrame(tw, t, w) == \A e \in DOMAIN w : Fit(tw, t, e, w[e].el)
IsQueue(tw, t, q) == q \in Seq(Range(q)) /\ \A i \in 1 .. Len(q) : IsFrame(tw, t, q[i])

PagesFit ==
    /\ view = [t \in Tabs |-> view[t]] /\ scene = [t \in Tabs |-> scene[t]]
    /\ out = [t \in Tabs |-> out[t]]
    /\ IsBoard(twinned, Owner, room)
    /\ \A t \in Tabs : /\ IsBoard(twinned, t, view[t]) /\ IsBoard(twinned, t, scene[t])
                       /\ IsQueue(twinned, t, out[t])

\* While the queue is worked on there is a file at its head.
QueueFits == queue \in Seq(Files) /\ (stage # "idle" => queue # <<>>)

-----------------------------------------------------------------------------
(* Elements, documents and queues. *)

LEMMA AbsentFits == \A tw, t, e : Fit(tw, t, e, Absent)
BY DEF Fit, Absent, IsElement, Fields

LEMMA AtFits ==
    ASSUME NEW tw, NEW t, NEW d, IsBoard(tw, t, d), NEW e
    PROVE Fit(tw, t, e, At(d, e))
BY AbsentFits DEF At, IsBoard

LEMMA FitElsewhere ==
    ASSUME NEW tw, NEW tx, tw \subseteq tx, NEW t, NEW e, NEW x
    PROVE /\ Fit(tw, t, e, x) => Fit(tx, t, e, x)
          /\ Fit(tw, Owner, e, x) => Fit(tw, t, e, x)
BY DEF Fit

LEMMA BoardElsewhere ==
    ASSUME NEW tw, NEW tx, tw \subseteq tx, NEW t, NEW d, NEW q
    PROVE /\ IsBoard(tw, t, d) => IsBoard(tx, t, d)
          /\ IsBoard(tw, Owner, d) => IsBoard(tw, t, d)
          /\ IsQueue(tw, t, q) => IsQueue(tx, t, q)
<1>1. /\ IsBoard(tw, t, d) => IsBoard(tx, t, d)
      /\ IsBoard(tw, Owner, d) => IsBoard(tw, t, d)
  BY FitElsewhere DEF IsBoard
<1>2. \A w : IsFrame(tw, t, w) => IsFrame(tx, t, w)
  BY FitElsewhere DEF IsFrame
<1> QED BY <1>1, <1>2 DEF IsQueue

LEMMA PutParts ==
    ASSUME NEW d, NEW w
    PROVE /\ \A e : e \in DOMAIN Put(d, w) <=>
                    /\ e \in DOMAIN w \union DOMAIN d
                    /\ (IF e \in DOMAIN w THEN w[e] ELSE d[e]) # Absent
          /\ \A e \in DOMAIN Put(d, w) :
                Put(d, w)[e] = IF e \in DOMAIN w THEN w[e] ELSE d[e]
          /\ \A e : At(Put(d, w), e) = IF e \in DOMAIN w THEN w[e] ELSE At(d, e)
<1> DEFINE all == [e \in DOMAIN w \union DOMAIN d |-> IF e \in DOMAIN w THEN w[e] ELSE d[e]]
           kept == {e \in DOMAIN all : all[e] # Absent}
<1>1. Put(d, w) = [e \in kept |-> all[e]]
  BY DEF Put, Overlay, Restrict
<1>2. \A e \in DOMAIN w \union DOMAIN d :
        all[e] = IF e \in DOMAIN w THEN w[e] ELSE d[e]
  OBVIOUS
<1>3. DOMAIN all = DOMAIN w \union DOMAIN d
  OBVIOUS
<1> HIDE DEF all
<1>4. DOMAIN Put(d, w) = kept /\ \A e \in kept : Put(d, w)[e] = all[e]
  BY <1>1
<1>6. \A e \in DOMAIN Put(d, w) : Put(d, w)[e] = IF e \in DOMAIN w THEN w[e] ELSE d[e]
  BY <1>2, <1>3, <1>4
<1>7. \A e : e \in DOMAIN Put(d, w) <=> /\ e \in DOMAIN w \union DOMAIN d
                                       /\ (IF e \in DOMAIN w THEN w[e] ELSE d[e]) # Absent
  BY <1>2, <1>3, <1>4
<1>8. \A e : At(Put(d, w), e) = IF e \in DOMAIN w THEN w[e] ELSE At(d, e)
  BY <1>6, <1>7 DEF At
<1> QED BY <1>6, <1>7, <1>8


LEMMA PutFits ==
    ASSUME NEW tw, NEW t, NEW d, IsBoard(tw, t, d),
           NEW w, \A e \in DOMAIN w : Fit(tw, t, e, w[e])
    PROVE IsBoard(tw, t, Put(d, w))
<1> SUFFICES ASSUME NEW e \in DOMAIN Put(d, w) PROVE Fit(tw, t, e, Put(d, w)[e])
  BY DEF IsBoard
<1>1. Put(d, w)[e] = IF e \in DOMAIN w THEN w[e] ELSE d[e]
  BY PutParts
<1>2. e \in DOMAIN w \union DOMAIN d
  BY PutParts
<1> QED BY <1>1, <1>2 DEF IsBoard

LEMMA OverlayFits ==
    ASSUME NEW tw, NEW t, NEW d, IsBoard(tw, t, d), NEW w, IsBoard(tw, t, w)
    PROVE IsBoard(tw, t, Overlay(w, d))
BY DEF IsBoard, Overlay

LEMMA RowOf ==
    ASSUME NEW R, NEW r \in Seq(R)
    PROVE r \in Seq(Range(r))
<1>1. Len(r) \in Nat /\ DOMAIN r = 1 .. Len(r) /\ r = [i \in 1 .. Len(r) |-> r[i]]
  OBVIOUS
<1>2. \A i \in 1 .. Len(r) : r[i] \in Range(r)
  BY <1>1 DEF Range
<1>3. r \in [1 .. Len(r) -> Range(r)]
  BY <1>1, <1>2
<1> QED BY <1>1, <1>3, SeqDef

LEMMA RowAppend ==
    ASSUME NEW q, q \in Seq(Range(q)), NEW w
    PROVE /\ Append(q, w) \in Seq(Range(Append(q, w)))
          /\ Len(q) \in Nat
          /\ Len(Append(q, w)) = Len(q) + 1 /\ Append(q, w)[Len(q) + 1] = w
          /\ \A i \in 1 .. Len(q) : Append(q, w)[i] = q[i]
<1> DEFINE r == Append(q, w)
           R == Range(q) \union {w}
<1>1. q \in Seq(R)
  OBVIOUS
<1> HIDE DEF R
<1>2. w \in R
  BY DEF R
<1>3. /\ r \in Seq(R) /\ Len(q) \in Nat /\ Len(r) = Len(q) + 1 /\ r[Len(q) + 1] = w
      /\ \A i \in 1 .. Len(q) : r[i] = q[i]
  BY <1>1, <1>2
<1> HIDE DEF r
<1>4. r \in Seq(Range(r))
  BY <1>3, RowOf
<1> QED BY <1>3, <1>4 DEF r

LEMMA RowTail ==
    ASSUME NEW q, q \in Seq(Range(q)), q # <<>>
    PROVE /\ Tail(q) \in Seq(Range(Tail(q)))
          /\ Len(Tail(q)) = Len(q) - 1 /\ Len(q) \in Nat \ {0}
          /\ Head(q) = q[1]
          /\ \A i \in 1 .. Len(q) - 1 : Tail(q)[i] = q[i + 1]
<1> DEFINE r == Tail(q)
           R == Range(q)
<1> HIDE DEF R
<1>1. q \in Seq(R)
  BY DEF R
<1>2. /\ r \in Seq(R) /\ Len(q) \in Nat \ {0} /\ Len(r) = Len(q) - 1 /\ Head(q) = q[1]
      /\ \A i \in 1 .. Len(q) - 1 : r[i] = q[i + 1]
  BY <1>1
<1> HIDE DEF r
<1>3. r \in Seq(Range(r))
  BY <1>2, RowOf
<1> QED BY <1>2, <1>3 DEF r

-----------------------------------------------------------------------------

LEMMA QueueAppend ==
    ASSUME NEW tw, NEW t, NEW q, IsQueue(tw, t, q), NEW w, IsFrame(tw, t, w)
    PROVE IsQueue(tw, t, Append(q, w))
<1>1. q \in Seq(Range(q)) /\ \A i \in 1 .. Len(q) : IsFrame(tw, t, q[i])
  BY DEF IsQueue
<1>2. /\ Append(q, w) \in Seq(Range(Append(q, w))) /\ Len(q) \in Nat
      /\ Len(Append(q, w)) = Len(q) + 1 /\ Append(q, w)[Len(q) + 1] = w
      /\ \A i \in 1 .. Len(q) : Append(q, w)[i] = q[i]
  BY <1>1, RowAppend
<1>3. \A i \in 1 .. Len(q) + 1 : i \in 1 .. Len(q) \/ i = Len(q) + 1
  BY <1>2
<1> QED BY <1>1, <1>2, <1>3 DEF IsQueue

LEMMA QueueTail ==
    ASSUME NEW tw, NEW t, NEW q, IsQueue(tw, t, q), q # <<>>
    PROVE IsQueue(tw, t, Tail(q)) /\ IsFrame(tw, t, Head(q))
<1>1. q \in Seq(Range(q)) /\ \A i \in 1 .. Len(q) : IsFrame(tw, t, q[i])
  BY DEF IsQueue
<1>2. /\ Tail(q) \in Seq(Range(Tail(q)))
      /\ Len(Tail(q)) = Len(q) - 1 /\ Len(q) \in Nat \ {0}
      /\ Head(q) = q[1]
      /\ \A i \in 1 .. Len(q) - 1 : Tail(q)[i] = q[i + 1]
  BY <1>1, RowTail
<1>3. 1 \in 1 .. Len(q) /\ \A i \in 1 .. Len(q) - 1 : i + 1 \in 1 .. Len(q)
  BY <1>2
<1> QED BY <1>1, <1>2, <1>3 DEF IsQueue

LEMMA LastExists ==
    ASSUME NEW n \in Nat, NEW T \in SUBSET (1 .. n), T # {}
    PROVE \E x \in T : \A y \in T : y <= x
<1> DEFINE From == {x .. n : x \in T}
           Sub == StrictSubsetOrdering(1 .. n)
<1>1. IsWellFoundedOn(Sub, SUBSET (1 .. n))
  <2>1. IsFiniteSet(1 .. n)
    BY FS_Interval
  <2>2. FiniteSubsetsOf(1 .. n) = SUBSET (1 .. n)
    BY <2>1, FS_FiniteSubsetsOfFinite, Zenon
  <2> QED BY <2>2, FS_StrictSubsetOrderingWellFounded, Zenon
<1>2. From \subseteq SUBSET (1 .. n) /\ From # {}
  <2>1. \A x \in T : x .. n \subseteq 1 .. n
    OBVIOUS
  <2>2. From \subseteq SUBSET (1 .. n)
    BY <2>1, Zenon
  <2> QED BY <2>2
<1>3. PICK s \in From : \A u \in From : ~(<<u, s>> \in Sub)
  <2> HIDE DEF Sub, From
  <2> QED BY <1>1, <1>2, WFMin
<1>4. PICK x \in T : s = x .. n
  BY <1>3
<1>5. ASSUME NEW y \in T, x < y PROVE FALSE
  <2>1. y .. n \in From /\ y .. n \subseteq s /\ x \in s /\ x \notin y .. n
    BY <1>4, <1>5
  <2> QED BY <2>1, <1>2, <1>3 DEF StrictSubsetOrdering
<1> QED BY <1>5

\* An id that waits has a last write.
LEMMA LastOfIs ==
    ASSUME NEW q, q \in Seq(Range(q)), NEW e \in Waiting(q)
    PROVE LastOf(q, e) \in 1 .. Len(q) /\ e \in DOMAIN q[LastOf(q, e)]
<1> DEFINE n == Len(q)
           T == {k \in 1 .. n : e \in DOMAIN q[k]}
<1>1. n \in Nat /\ DOMAIN q = 1 .. n
  OBVIOUS
<1>2. T \in SUBSET (1 .. n) /\ T # {}
  BY <1>1 DEF Waiting
<1>3. \E k \in T : \A j \in T : j <= k
  <2> HIDE DEF T, n
  <2> QED BY <1>1, <1>2, LastExists
<1>4. \E k \in DOMAIN q : e \in DOMAIN q[k] /\ \A j \in DOMAIN q : j > k => e \notin DOMAIN q[j]
  BY <1>1, <1>3
<1> QED BY <1>1, <1>4 DEF LastOf

-----------------------------------------------------------------------------
(* Publishing. *)

LEMMA FrameFits ==
    ASSUME NEW tw, NEW t, NEW s, IsBoard(tw, t, s), NEW changed \in SUBSET DOMAIN s, NEW swept
    PROVE IsFrame(tw, t, Frame(t, s, changed, swept))
<1> DEFINE ids == {x \in changed : At(view[t], x) # s[x]} \union (swept \intersect DOMAIN view[t])
           w == Frame(t, s, changed, swept)
<1>1. DOMAIN w = ids /\ \A e \in ids : w[e].el = IF e \in swept THEN Absent ELSE s[e]
  BY DEF Frame
<1>2. \A e \in ids : e \in swept \/ e \in DOMAIN s
  OBVIOUS
<1> HIDE DEF w, ids
<1>3. IsFrame(tw, t, w)
  BY <1>1, <1>2, AbsentFits DEF IsFrame, IsBoard
<1> QED BY <1>3 DEF w

\* The boards after tab t sent a frame that fits and holds scene s, another tab
\* being as before.
LEMMA BoardsAfter ==
    ASSUME PagesFit, NEW t \in Tabs, twinned' = twinned, NEW s, IsBoard(twinned, t, s),
           scene' = [scene EXCEPT ![t] = s], NEW d, IsBoard(twinned, t, d),
           view' = [view EXCEPT ![t] = d], NEW q, IsQueue(twinned, t, q),
           out' = [out EXCEPT ![t] = q], room' = room
    PROVE PagesFit'
<1>1. /\ view' = [c \in Tabs |-> IF c = t THEN d ELSE view[c]]
      /\ scene' = [c \in Tabs |-> IF c = t THEN s ELSE scene[c]]
      /\ out' = [c \in Tabs |-> IF c = t THEN q ELSE out[c]]
  BY DEF PagesFit
<1>2. /\ view' = [c \in Tabs |-> view'[c]] /\ scene' = [c \in Tabs |-> scene'[c]]
      /\ out' = [c \in Tabs |-> out'[c]]
  BY <1>1
<1>3. IsBoard(twinned, Owner, room)
  BY DEF PagesFit
<1>4. ASSUME NEW c \in Tabs
      PROVE /\ IsBoard(twinned, c, view'[c]) /\ IsBoard(twinned, c, scene'[c])
            /\ IsQueue(twinned, c, out'[c])
  BY <1>1 DEF PagesFit
<1>5. IsBoard(twinned', Owner, room')
  BY <1>3
<1>6. \A c \in Tabs : /\ IsBoard(twinned', c, view'[c]) /\ IsBoard(twinned', c, scene'[c])
                      /\ IsQueue(twinned', c, out'[c])
  BY <1>4
<1> QED BY <1>2, <1>5, <1>6 DEF PagesFit, IsBoard, IsQueue, IsFrame, Fit, IsElement

LEMMA SendsFits ==
    ASSUME PagesFit, NEW t \in Tabs, NEW w, IsFrame(twinned, t, w), NEW s,
           SendsFrame(t, w, s), twinned' = twinned, NEW x, IsBoard(twinned, t, x),
           scene' = [scene EXCEPT ![t] = x]
    PROVE PagesFit'
<1> DEFINE vals == [e \in DOMAIN w |-> w[e].el]
           d == Put(view[t], vals)
           q == IF DOMAIN w = {} THEN out[t] ELSE Append(out[t], w)
<1>1. /\ view = [c \in Tabs |-> view[c]] /\ out = [c \in Tabs |-> out[c]]
      /\ IsBoard(twinned, t, view[t]) /\ IsQueue(twinned, t, out[t])
  BY DEF PagesFit
<1>2. /\ view' = [view EXCEPT ![t] = d] /\ room' = room
      /\ out' = IF DOMAIN w = {} THEN out ELSE [out EXCEPT ![t] = Append(out[t], w)]
  BY <1>1 DEF SendsFrame
<1>3. \A e \in DOMAIN vals : Fit(twinned, t, e, vals[e])
  BY DEF IsFrame
<1> HIDE DEF vals
<1>4. IsBoard(twinned, t, d)
  BY <1>1, <1>3, PutFits
<1>5. IsQueue(twinned, t, q)
  BY <1>1, QueueAppend
<1>6. out' = [out EXCEPT ![t] = q]
  BY <1>1, <1>2
<1> HIDE DEF d, q
<1> QED BY <1>2, <1>4, <1>5, <1>6, BoardsAfter

LEMMA CommitFits ==
    ASSUME PagesFit, NEW t \in Tabs, NEW s, IsBoard(twinned, t, s), Commit(t, s),
           twinned' = twinned
    PROVE PagesFit'
<1> DEFINE w == Frame(t, s, Changed(base[t], s), {})
<1>1. Changed(base[t], s) \in SUBSET DOMAIN s
  BY DEF Changed
<1>2. IsFrame(twinned, t, w)
  BY <1>1, FrameFits
<1>3. SendsFrame(t, w, s) /\ scene' = [scene EXCEPT ![t] = s]
  BY DEF Commit
<1> HIDE DEF w
<1> QED BY <1>2, <1>3, SendsFits

LEMMA StrokeStep ==
    ASSUME PagesFit, NEW t \in Tabs, PublishStroke(t)
    PROVE PagesFit'
<1> DEFINE s == Visible(scene[t])
           swept == DOMAIN base[t] \ DOMAIN s
           w == Frame(t, s, DOMAIN s, swept)
<1>1. IsBoard(twinned, t, scene[t]) /\ scene = [c \in Tabs |-> scene[c]]
  BY DEF PagesFit
<1>2. IsBoard(twinned, t, s)
  BY <1>1 DEF Visible, Restrict, Standing, IsBoard
<1>3. SendsFrame(t, w, s) /\ twinned' = twinned /\ scene' = scene
  BY DEF PublishStroke, noted
<1>4. scene' = [scene EXCEPT ![t] = scene[t]]
  BY <1>1, <1>3
<1> HIDE DEF s, swept
<1>5. IsFrame(twinned, t, w)
  BY <1>2, FrameFits
<1> HIDE DEF w
<1> QED BY <1>1, <1>3, <1>4, <1>5, SendsFits

LEMMA PublishStep ==
    ASSUME PagesFit, NEW t \in Tabs, Publish(t)
    PROVE PagesFit'
<1>1. Commit(t, scene[t]) /\ twinned' = twinned
  BY DEF Publish, noted
<1>2. IsBoard(twinned, t, scene[t])
  BY DEF PagesFit
<1> QED BY <1>1, <1>2, CommitFits

-----------------------------------------------------------------------------
(* The room takes in a frame; a tab takes in the room. *)

\* What the guard leaves of an element the owner did not write.
LEMMA GuardFits ==
    ASSUME NEW tw, NEW t, NEW e, NEW old, Fit(tw, Owner, e, old), NEW new, Fit(tw, t, e, new)
    PROVE Fit(tw, Owner, e, Guarded(old, new))
<1> DEFINE mend == [new EXCEPT !.page = old.page, !.on = old.on]
<1>1. IsElement(new)
  BY DEF Fit
<1>2. IsElement(mend) /\ mend.page = old.page
  BY <1>1 DEF IsElement, Fields
<1> HIDE DEF mend
<1>3. Undone(old, new) = mend \/ (Undone(old, new) = new /\ new.page = old.page)
  BY DEF Undone, mend
<1>4. Guarded(old, new) = old
      \/ /\ old.page = NoPage
         /\ \/ Guarded(old, new) \in {Absent, Undone(old, new)}
            \/ Guarded(old, new) = new /\ new.page = NoPage
  BY DEF Guarded, Absent
<1>5. Absent.page = NoPage /\ Fit(tw, Owner, e, Absent)
  BY AbsentFits DEF Absent
<1> QED BY <1>1, <1>2, <1>3, <1>4, <1>5 DEF Fit

\* The room after a frame of which won came through: what the owner wrote, or what
\* the guard left; an id of two entries is noted.
LEMMA AppliedFits ==
    ASSUME NEW tw, IsBoard(tw, Owner, room), NEW t \in Tabs, NEW w, IsFrame(tw, t, w),
           NEW S, NEW tx, tw \subseteq tx, t # Owner => Doubled(Restrict(w, S)) \subseteq tx,
           S \subseteq DOMAIN w
    PROVE IsBoard(tx, Owner, Applied(t, Restrict(w, S)))
<1> DEFINE won == Restrict(w, S)
           vals == [e \in DOMAIN won |->
                        IF t = Owner \/ (e \in Doubled(won) /\ room[e].page # NoPage)
                        THEN won[e].el ELSE Guarded(At(room, e), won[e].el)]
<1>1. DOMAIN won = S /\ \A e \in S : won[e] = w[e]
  BY DEF Restrict
<1> HIDE DEF won
<1>2. ASSUME NEW e \in DOMAIN won PROVE Fit(tx, Owner, e, vals[e])
  <2>1. Fit(tw, t, e, won[e].el) /\ Fit(tx, t, e, won[e].el)
    BY <1>1, <1>2, FitElsewhere DEF IsFrame
  <2>2. CASE t = Owner
    BY <2>1, <2>2
  <2>3. CASE t # Owner /\ e \in Doubled(won) /\ room[e].page # NoPage
    <3>1. e \in tx /\ vals[e] = won[e].el
      BY <2>3, <1>2 DEF won
    <3> QED BY <2>1, <3>1 DEF Fit
  <2>4. CASE t # Owner /\ ~(e \in Doubled(won) /\ room[e].page # NoPage)
    <3>1. Fit(tw, Owner, e, At(room, e))
      BY AtFits
    <3>2. Fit(tw, Owner, e, Guarded(At(room, e), won[e].el))
      BY <2>1, <3>1, GuardFits
    <3>3. vals[e] = Guarded(At(room, e), won[e].el)
      BY <2>4
    <3> QED BY <3>2, <3>3, FitElsewhere
  <2> QED BY <2>2, <2>3, <2>4
<1>3. Applied(t, won) = Put(room, vals) /\ DOMAIN vals = DOMAIN won
  BY DEF Applied
<1>4. IsBoard(tx, Owner, room)
  BY BoardElsewhere
<1> HIDE DEF vals
<1>5. IsBoard(tx, Owner, Put(room, vals))
  BY <1>2, <1>3, <1>4, PutFits
<1> QED BY <1>3, <1>5 DEF won

LEMMA PushStep ==
    ASSUME PagesFit, NEW t \in Tabs, Push(t)
    PROVE PagesFit'
<1> DEFINE w == Head(out[t])
           astray == {e \in DOMAIN w : Astray(t, e, w[e])}
<1>1. PICK some \in SUBSET Contested(t, w), first \in SUBSET Doubled(w) :
        LET lost == some \union Losing(t, w)
            won == Restrict(w, DOMAIN w \ (lost \union astray \union first))
        IN /\ room' = Applied(t, won)
           /\ twinned' = twinned \union (IF t = Owner THEN Doubled(w) ELSE Doubled(won))
  BY DEF Push
<1> DEFINE S == DOMAIN w \ (some \union Losing(t, w) \union astray \union first)
<1>2. /\ room' = Applied(t, Restrict(w, S)) /\ S \subseteq DOMAIN w
      /\ twinned \subseteq twinned' /\ (t # Owner => Doubled(Restrict(w, S)) \subseteq twinned')
  BY <1>1
<1>3. /\ out[t] # <<>> /\ out' = [out EXCEPT ![t] = Tail(out[t])]
      /\ UNCHANGED <<view, scene>> /\ out = [c \in Tabs |-> out[c]]
      /\ IsQueue(twinned, t, out[t]) /\ IsBoard(twinned, Owner, room)
  BY DEF Push, PagesFit
<1>4. IsQueue(twinned, t, Tail(out[t])) /\ IsFrame(twinned, t, w)
  BY <1>3, QueueTail
<1> HIDE DEF S, w
<1>5. IsBoard(twinned', Owner, room')
  <2>1. IsBoard(twinned', Owner, Applied(t, Restrict(w, S)))
    BY <1>2, <1>3, <1>4, AppliedFits
  <2> QED BY <1>2, <2>1
<1>6. out' = [c \in Tabs |-> IF c = t THEN Tail(out[t]) ELSE out[c]]
  BY <1>3
<1>7. ASSUME NEW c \in Tabs
      PROVE /\ IsBoard(twinned', c, view'[c]) /\ IsBoard(twinned', c, scene'[c])
            /\ IsQueue(twinned', c, out'[c])
  <2>1. /\ IsBoard(twinned, c, view[c]) /\ IsBoard(twinned, c, scene[c])
        /\ IsQueue(twinned, c, out'[c])
    BY <1>4, <1>6 DEF PagesFit
  <2>2. view'[c] = view[c] /\ scene'[c] = scene[c]
    BY <1>3
  <2> QED BY <1>2, <2>1, <2>2, BoardElsewhere
<1>8. /\ view' = [c \in Tabs |-> view'[c]] /\ scene' = [c \in Tabs |-> scene'[c]]
      /\ out' = [c \in Tabs |-> out'[c]]
  BY <1>3, <1>6 DEF PagesFit
<1> QED BY <1>5, <1>7, <1>8 DEF PagesFit, IsBoard, IsQueue, IsFrame, Fit, IsElement

LEMMA MetFits ==
    ASSUME NEW tw, NEW t, NEW q, IsQueue(tw, t, q), NEW told, NEW lost
    PROVE IsQueue(tw, t, Met(t, q, told, lost))
<1> DEFINE stays(i, e) == \/ e \notin told \/ ~Early(q, i, e)
                          \/ /\ ~Astray(t, e, q[i][e])
                             /\ Sets(q[i][e]) => e \notin lost /\ link[t][e] # "losing"
           r == Met(t, q, told, lost)
           ids(i) == {e \in DOMAIN q[i] : stays(i, e)}
<1>1. r = [i \in DOMAIN q |-> Restrict(q[i], ids(i))]
  BY DEF Met
<1>2. \A i : ids(i) \subseteq DOMAIN q[i]
  OBVIOUS
<1>3. /\ q \in Seq(Range(q)) /\ Len(q) \in Nat /\ DOMAIN q = 1 .. Len(q)
      /\ \A i \in 1 .. Len(q) : IsFrame(tw, t, q[i])
  BY DEF IsQueue
<1> HIDE DEF r, ids
<1>4. \A i \in 1 .. Len(q) : r[i] = Restrict(q[i], ids(i))
  BY <1>1, <1>3
<1>5. ASSUME NEW i \in 1 .. Len(q) PROVE IsFrame(tw, t, r[i])
  <2> SUFFICES ASSUME NEW e \in DOMAIN r[i] PROVE Fit(tw, t, e, r[i][e].el)
    BY DEF IsFrame
  <2>1. e \in ids(i) /\ r[i][e] = q[i][e]
    BY <1>4 DEF Restrict
  <2> QED BY <1>2, <1>3, <2>1 DEF IsFrame
<1>6. r \in Seq(Range(r)) /\ Len(r) = Len(q)
  <2>1. \A i \in 1 .. Len(q) : r[i] \in Range(r)
    BY <1>1, <1>3 DEF Range
  <2>2. r = [i \in 1 .. Len(q) |-> r[i]]
    BY <1>1, <1>3
  <2>3. r \in [1 .. Len(q) -> Range(r)]
    BY <2>1, <2>2
  <2> QED BY <1>3, <2>3, SeqDef
<1>7. IsQueue(tw, t, r)
  BY <1>5, <1>6 DEF IsQueue
<1> QED BY <1>7 DEF r

LEMMA MergedFits ==
    ASSUME NEW tw, NEW t, IsBoard(tw, t, view[t]), IsBoard(tw, Owner, room),
           NEW q, IsQueue(tw, t, q), NEW told
    PROVE IsBoard(tw, t, Merged(t, q, told))
<1> DEFINE d == [e \in DOMAIN view[t] \ told |-> view[t][e]]
           w == [e \in told |->
                    IF e \in Waiting(q) THEN q[LastOf(q, e)][e].el ELSE At(room, e)]
<1>1. IsBoard(tw, t, d)
  BY DEF IsBoard
<1>2. ASSUME NEW e \in told PROVE Fit(tw, t, e, w[e])
  <2>1. CASE e \in Waiting(q)
    <3>1. q \in Seq(Range(q)) /\ \A i \in 1 .. Len(q) : IsFrame(tw, t, q[i])
      BY DEF IsQueue
    <3>2. LastOf(q, e) \in 1 .. Len(q) /\ e \in DOMAIN q[LastOf(q, e)]
      BY <2>1, <3>1, LastOfIs
    <3>3. w[e] = q[LastOf(q, e)][e].el
      BY <2>1
    <3> QED BY <3>1, <3>2, <3>3 DEF IsFrame
  <2>2. CASE e \notin Waiting(q)
    <3>1. Fit(tw, Owner, e, At(room, e))
      BY AtFits
    <3>2. w[e] = At(room, e)
      BY <2>2
    <3> QED BY <3>1, <3>2, FitElsewhere
  <2> QED BY <2>1, <2>2
<1>3. Merged(t, q, told) = Put(d, w) /\ DOMAIN w = told
  BY DEF Merged
<1> HIDE DEF d, w
<1>4. IsBoard(tw, t, Put(d, w))
  BY <1>1, <1>2, <1>3, PutFits
<1> QED BY <1>3, <1>4

LEMMA PullStep ==
    ASSUME PagesFit, NEW t \in Tabs, NEW told, Pull(t, told)
    PROVE PagesFit'
<1>1. PICK lost \in SUBSET Disputed(t, out[t], told) :
        LET q == Met(t, out[t], told, lost)
            d == Merged(t, q, told)
            s == Reconciled(Visible(scene[t]), d)
        IN /\ view' = [view EXCEPT ![t] = d]
           /\ out' = [out EXCEPT ![t] = q]
           /\ scene' = [scene EXCEPT ![t] = s]
  BY DEF Pull
<1> DEFINE q == Met(t, out[t], told, lost)
           d == Merged(t, q, told)
           s == Reconciled(Visible(scene[t]), d)
<1>2. /\ view' = [view EXCEPT ![t] = d] /\ out' = [out EXCEPT ![t] = q]
      /\ scene' = [scene EXCEPT ![t] = s] /\ room' = room /\ twinned' = twinned
  BY <1>1 DEF Pull
<1>3. /\ IsBoard(twinned, t, view[t]) /\ IsBoard(twinned, Owner, room)
      /\ IsBoard(twinned, t, scene[t]) /\ IsQueue(twinned, t, out[t])
  BY DEF PagesFit
<1>4. IsQueue(twinned, t, q)
  BY <1>3, MetFits
<1> HIDE DEF q
<1>5. IsBoard(twinned, t, d)
  BY <1>3, <1>4, MergedFits
<1> HIDE DEF d
<1>6. IsBoard(twinned, t, Visible(scene[t]))
  BY <1>3 DEF Visible, Restrict, Standing, IsBoard
<1>7. IsBoard(twinned, t, s)
  BY <1>5, <1>6 DEF Reconciled, IsBoard
<1> HIDE DEF s
<1> QED BY <1>2, <1>4, <1>5, <1>7, BoardsAfter

-----------------------------------------------------------------------------
(* Editing the board and importing. *)

\* An element a tab changes is that tab's.
LEMMA BumpFits ==
    ASSUME NEW tw, NEW t, NEW e, NEW x, Fit(tw, t, e, x)
    PROVE /\ Fit(tw, t, e, Bumped(x, t))
          /\ Fit(tw, t, e, [Bumped(x, t) EXCEPT !.gone = TRUE])
<1> DEFINE y == Bumped(x, t)
           z == [y EXCEPT !.gone = TRUE]
<1>1. IsElement(x) /\ (t = Owner /\ e \notin tw /\ x.page # NoPage => e \in Pages)
  BY DEF Fit
<1>2. IsElement(y) /\ y.by = t /\ y.page = x.page
  BY <1>1 DEF Bumped, IsElement, Fields
<1> HIDE DEF y
<1>3. IsElement(z) /\ z.by = t /\ z.page = x.page
  BY <1>2 DEF IsElement, Fields
<1> HIDE DEF z
<1>4. Fit(tw, t, e, y) /\ Fit(tw, t, e, z)
  BY <1>1, <1>2, <1>3 DEF Fit
<1> QED BY <1>4 DEF y, z

LEMMA ShapeStep ==
    ASSUME PagesFit, NEW t \in Tabs, NEW e, NEW x, Fit(twinned, t, e, x),
           Commit(t, Overlay(One(e, x), scene[t])), twinned' = twinned
    PROVE PagesFit'
<1> DEFINE w == One(e, x)
           s == Overlay(w, scene[t])
<1>1. IsBoard(twinned, t, scene[t])
  BY DEF PagesFit
<1>2. IsBoard(twinned, t, w)
  BY DEF One, IsBoard
<1> HIDE DEF w
<1>3. IsBoard(twinned, t, s)
  BY <1>1, <1>2, OverlayFits
<1>4. Commit(t, s)
  BY DEF w
<1> HIDE DEF s
<1> QED BY <1>3, <1>4, CommitFits

LEMMA DrawStep ==
    ASSUME PagesFit, NEW t \in Tabs, NEW e \in Shapes, Draw(t, e)
    PROVE PagesFit'
<1>1. PICK f \in Stacked(scene[t]) :
        Commit(t, Overlay(One(e, [v |-> 2, by |-> t, gone |-> FALSE, at |-> 0,
            page |-> NoPage, on |-> Stamp(scene[t], f, shows[t][f])]), scene[t]))
  BY DEF Draw
<1> DEFINE x == [v |-> 2, by |-> t, gone |-> FALSE, at |-> 0, page |-> NoPage,
                 on |-> Stamp(scene[t], f, shows[t][f])]
<1>2. Fit(twinned, t, e, x)
  BY DEF Fit, IsElement, Fields
<1>3. twinned' = twinned
  BY DEF Draw, noted
<1> HIDE DEF x
<1>4. Commit(t, Overlay(One(e, x), scene[t]))
  BY <1>1 DEF x
<1> QED BY <1>2, <1>3, <1>4, ShapeStep

LEMMA CopyStep ==
    ASSUME PagesFit, NEW t \in Tabs, NEW e \in Shapes, NEW p \in DOMAIN scene[t], Copy(t, e, p)
    PROVE PagesFit'
<1> DEFINE y == scene[t][p]
           x == [y EXCEPT !.v = 1, !.by = t]
<1>1. t # Owner /\ Commit(t, Overlay(One(e, x), scene[t])) /\ twinned' = twinned
  BY DEF Copy, noted
<1>2. IsElement(y)
  BY DEF PagesFit, IsBoard, Fit
<1> HIDE DEF y
<1>3. IsElement(x)
  BY <1>2 DEF IsElement, Fields
<1> HIDE DEF x
<1>4. Fit(twinned, t, e, x)
  BY <1>1, <1>3 DEF Fit
<1> QED BY <1>1, <1>4, ShapeStep

LEMMA EraseStep ==
    ASSUME PagesFit, NEW t \in Tabs, NEW e \in DOMAIN scene[t], Erase(t, e)
    PROVE PagesFit'
<1> DEFINE S == scene[t]
           x == [Bumped(S[e], t) EXCEPT !.gone = TRUE]
           s == [S EXCEPT ![e] = x]
<1>1. Commit(t, s) /\ twinned' = twinned
  BY DEF Erase, noted, Decides
<1>2. IsBoard(twinned, t, S) /\ Fit(twinned, t, e, S[e])
  BY DEF PagesFit, IsBoard
<1>3. Fit(twinned, t, e, x)
  BY <1>2, BumpFits
<1> HIDE DEF x
<1>4. DOMAIN s = DOMAIN S /\ \A y \in DOMAIN S : s[y] = IF y = e THEN x ELSE S[y]
  OBVIOUS
<1> HIDE DEF s
<1>5. IsBoard(twinned, t, s)
  BY <1>2, <1>3, <1>4 DEF IsBoard
<1> QED BY <1>1, <1>5, CommitFits

LEMMA MoveByStep ==
    ASSUME PagesFit, NEW f \in Files, MoveBy(f)
    PROVE PagesFit'
<1> DEFINE S == scene[Owner]
           s == [e \in DOMAIN S |->
                    IF e \in Carried(S, f) THEN [S[e] EXCEPT !.at = 1 - S[e].at] ELSE S[e]]
<1>1. /\ scene' = [scene EXCEPT ![Owner] = s]
      /\ UNCHANGED <<room, view, out>> /\ twinned' = twinned
  BY DEF MoveBy, noted
<1>2. Owner \in Tabs /\ IsBoard(twinned, Owner, S) /\ IsBoard(twinned, Owner, view[Owner])
      /\ IsQueue(twinned, Owner, out[Owner])
      /\ view = [c \in Tabs |-> view[c]] /\ out = [c \in Tabs |-> out[c]]
  BY DEF PagesFit, Tabs
<1>3. ASSUME NEW e \in DOMAIN S PROVE Fit(twinned, Owner, e, s[e])
  <2> DEFINE y == S[e]
             x == [y EXCEPT !.at = 1 - y.at]
  <2>1. Fit(twinned, Owner, e, y)
    BY <1>2 DEF IsBoard
  <2>2. s[e] = x \/ s[e] = y
    OBVIOUS
  <2> HIDE DEF y
  <2>3. IsElement(x) /\ x.by = y.by /\ x.page = y.page
    BY <2>1 DEF Fit, IsElement, Fields
  <2> HIDE DEF x, s
  <2> QED BY <2>1, <2>2, <2>3 DEF Fit
<1>4. IsBoard(twinned, Owner, s)
  BY <1>3 DEF IsBoard
<1>5. view' = [view EXCEPT ![Owner] = view[Owner]] /\ out' = [out EXCEPT ![Owner] = out[Owner]]
  BY <1>1, <1>2
<1>6. room' = room
  BY <1>1
<1> HIDE DEF s
<1> QED BY <1>1, <1>2, <1>4, <1>5, <1>6, BoardsAfter

\* The owner puts down, or takes away, a document.
LEMMA CarryStep ==
    ASSUME PagesFit, NEW f \in Files, MoveEnd(f) \/ RemoveDocument(f)
    PROVE PagesFit'
<1> DEFINE S == scene[Owner]
           down == [e \in DOMAIN S |-> IF e \in Carried(S, f) THEN Bumped(S[e], Owner) ELSE S[e]]
           away == [e \in DOMAIN S |->
                        IF e \in Carried(S, f) THEN [Bumped(S[e], Owner) EXCEPT !.gone = TRUE]
                        ELSE S[e]]
<1>1. Owner \in Tabs /\ IsBoard(twinned, Owner, S)
  BY DEF PagesFit, Tabs
<1>2. \A e \in DOMAIN S : Fit(twinned, Owner, e, S[e])
  BY <1>1 DEF IsBoard
<1>3. \A e \in DOMAIN S : /\ Fit(twinned, Owner, e, Bumped(S[e], Owner))
                          /\ Fit(twinned, Owner, e, [Bumped(S[e], Owner) EXCEPT !.gone = TRUE])
  BY <1>2, BumpFits
<1>4. IsBoard(twinned, Owner, down) /\ IsBoard(twinned, Owner, away)
  BY <1>2, <1>3 DEF IsBoard
<1>5. (Commit(Owner, down) \/ Commit(Owner, away)) /\ twinned' = twinned
  BY DEF MoveEnd, RemoveDocument, Decides
<1> HIDE DEF down, away
<1> QED BY <1>1, <1>4, <1>5, CommitFits

LEMMA InsertStep ==
    ASSUME PagesFit, QueueFits, Insert
    PROVE PagesFit'
<1> DEFINE ids == {Head(queue)} \X Index(Head(queue))
           new == [p \in ids |-> [v |-> 1, by |-> Owner, gone |-> FALSE, at |-> 0,
                                  page |-> p, on |-> NoPage]]
           s == Overlay(new, scene[Owner])
<1>1. Commit(Owner, s) /\ twinned' = twinned
  BY DEF Insert, Decides
<1>2. Owner \in Tabs /\ IsBoard(twinned, Owner, scene[Owner])
  BY DEF PagesFit, Tabs
<1>3. Head(queue) \in Files
  BY DEF Insert, QueueFits
<1>4. ids \subseteq Pages
  BY <1>3 DEF Pages
<1>5. DOMAIN new = ids /\ \A p \in ids : new[p] = [v |-> 1, by |-> Owner, gone |-> FALSE,
        at |-> 0, page |-> p, on |-> NoPage]
  OBVIOUS
<1> HIDE DEF ids, new
<1>6. IsBoard(twinned, Owner, new)
  <2> SUFFICES ASSUME NEW p \in ids PROVE Fit(twinned, Owner, p, new[p])
    BY <1>5 DEF IsBoard
  <2> QED BY <1>4, <1>5 DEF Fit, IsElement, Fields
<1>7. IsBoard(twinned, Owner, s)
  BY <1>2, <1>6, OverlayFits
<1> HIDE DEF s
<1> QED BY <1>1, <1>2, <1>7, CommitFits

LEMMA NextItemFits ==
    ASSUME NEW q \in Seq(Files), NextItem(q)
    PROVE QueueFits'
BY DEF NextItem, QueueFits

LEMMA FinishedFits ==
    ASSUME QueueFits, stage # "idle", Finished
    PROVE QueueFits'
<1>1. Tail(queue) \in Seq(Files) /\ NextItem(Tail(queue))
  BY DEF QueueFits, Finished
<1> QED BY <1>1, NextItemFits

LEMMA DropFits ==
    ASSUME QueueFits, NEW fs \in SeqOf(Files, Cardinality(Files)), Drop(fs)
    PROVE QueueFits'
<1>1. PICK m \in 0 .. Cardinality(Files) : fs \in [1 .. m -> Files]
  BY DEF SeqOf
<1>2. fs \in Seq(Files) /\ queue \in Seq(Files)
  BY <1>1, SeqDef DEF QueueFits
<1>3. queue \o fs \in Seq(Files) /\ (queue # <<>> => queue \o fs # <<>>)
  BY <1>2
<1>4. CASE stage = "idle"
  BY <1>3, <1>4, NextItemFits DEF Drop
<1>5. CASE stage # "idle"
  BY <1>3, <1>5 DEF Drop, QueueFits
<1> QED BY <1>4, <1>5

LEMMA DrainFits ==
    ASSUME QueueFits, Drain
    PROVE QueueFits'
<1>1. CASE Finished /\ stage # "idle"
  BY <1>1, FinishedFits
<1>2. CASE queue' = queue /\ (stage' = "idle" \/ stage # "idle")
  BY <1>2 DEF QueueFits
<1>3. OpenFails \/ Declined \/ PageFails \/ Cancelled \/ TooLarge \/ Insert
        => Finished /\ stage # "idle"
  BY DEF OpenFails, Declined, PageFails, Cancelled, TooLarge, Insert
<1>4. Opened \/ Chosen \/ Placed \/ Thrown \/ Render \/ Rendered
        => queue' = queue /\ (stage' = "idle" \/ stage # "idle")
  BY DEF Opened, Chosen, Placed, Thrown, Render, Rendered
<1> QED BY <1>1, <1>2, <1>3, <1>4 DEF Drain

-----------------------------------------------------------------------------
(* The invariant, and what it says of the room. *)

PagesKept == PagesFit /\ QueueFits

LEMMA StartsKept == PagedInit => PagesKept
<1> SUFFICES ASSUME PagedInit PROVE PagesKept
  OBVIOUS
<1>1. /\ room = [e \in {} |-> Absent] /\ view = [t \in Tabs |-> room] /\ scene = view
      /\ out = [t \in Tabs |-> <<>>] /\ queue = <<>> /\ stage = "idle"
  BY DEF PagedInit
<1>2. DOMAIN room = {} /\ \A t \in Tabs : view[t] = room /\ scene[t] = room /\ out[t] = <<>>
  BY <1>1
<1>3. \A t : IsBoard(twinned, t, room)
  BY <1>2 DEF IsBoard
<1>4. \A t : IsQueue(twinned, t, <<>>)
  <2>1. <<>> \in Seq(Range(<<>>)) /\ Len(<<>>) = 0 /\ 1 .. 0 = {}
    BY DEF Range
  <2> QED BY <2>1 DEF IsQueue
<1>5. /\ view = [t \in Tabs |-> view[t]] /\ scene = [t \in Tabs |-> scene[t]]
      /\ out = [t \in Tabs |-> out[t]]
  BY <1>1
<1>6. PagesFit
  BY <1>2, <1>3, <1>4, <1>5 DEF PagesFit
<1>7. QueueFits
  BY <1>1 DEF QueueFits
<1> QED BY <1>6, <1>7 DEF PagesKept

LEMMA SameBoards ==
    ASSUME PagesFit, UNCHANGED <<room, view, out, scene, twinned>>
    PROVE PagesFit'
<1>1. /\ IsBoard(twinned', Owner, room')
      /\ view' = [t \in Tabs |-> view'[t]] /\ scene' = [t \in Tabs |-> scene'[t]]
      /\ out' = [t \in Tabs |-> out'[t]]
      /\ \A t \in Tabs : /\ IsBoard(twinned', t, view'[t]) /\ IsBoard(twinned', t, scene'[t])
                         /\ IsQueue(twinned', t, out'[t])
  BY DEF PagesFit
<1> QED BY <1>1 DEF PagesFit, IsBoard, IsQueue, IsFrame, Fit, IsElement

LEMMA StillBoards == PagesFit /\ Still => PagesFit'
BY SameBoards DEF Still, boards, noted

\* Every step keeps what the boards hold.
LEMMA StepsFit ==
    ASSUME PagesKept, PagedNext
    PROVE PagesFit'
<1> PagesFit /\ QueueFits
  BY DEF PagesKept
<1>1. CASE Drain
  <2>1. CASE Insert
    BY <2>1, InsertStep
  <2>2. CASE ~Insert
    <3>1. Still
      BY <1>1, <2>2 DEF Drain, OpenFails, Opened, Chosen, Declined, Placed, Thrown, Render,
                         PageFails, Cancelled, Rendered, TooLarge
    <3> QED BY <3>1, StillBoards
  <2> QED BY <2>1, <2>2
<1>2. CASE Cancel \/ \E fs \in SeqOf(Files, Cardinality(Files)) : Drop(fs)
  BY <1>2, StillBoards DEF Cancel, Drop
<1>3. ASSUME NEW t \in Tabs, Publish(t) \/ PublishStroke(t) \/ Push(t) PROVE PagesFit'
  BY <1>3, PublishStep, StrokeStep, PushStep
<1>4. ASSUME NEW t \in Tabs, \E told \in Tellings(t) : Pull(t, told) PROVE PagesFit'
  BY <1>4, PullStep
<1>5. ASSUME NEW t \in Tabs, \E e \in DOMAIN scene[t] : Erase(t, e) PROVE PagesFit'
  BY <1>5, EraseStep
<1>6. ASSUME NEW t \in Tabs,
             \E e \in Shapes : Draw(t, e) \/ \E p \in DOMAIN scene[t] : Copy(t, e, p)
      PROVE PagesFit'
  BY <1>6, DrawStep, CopyStep
<1>7. ASSUME NEW f \in Files, (\E t \in Tabs : TurnArrives(t, f)) \/ TurnPage(f)
      PROVE PagesFit'
  BY <1>7, SameBoards DEF TurnArrives, TurnPage, boards, noted
<1>8. ASSUME NEW f \in Files, MoveBy(f) \/ MoveEnd(f) \/ RemoveDocument(f) PROVE PagesFit'
  BY <1>8, MoveByStep, CarryStep
<1> QED BY <1>1, <1>2, <1>3, <1>4, <1>5, <1>6, <1>7, <1>8 DEF PagedNext

\* Every step keeps the queue.
LEMMA StepsQueue ==
    ASSUME PagesKept, PagedNext
    PROVE QueueFits'
<1> QueueFits
  BY DEF PagesKept
<1>1. CASE Drain
  BY <1>1, DrainFits
<1>2. CASE \E fs \in SeqOf(Files, Cardinality(Files)) : Drop(fs)
  BY <1>2, DropFits
<1>3. CASE UNCHANGED <<queue, stage>>
  BY <1>3 DEF QueueFits
<1>4. Cancel => UNCHANGED <<queue, stage>>
  BY DEF Cancel
<1>5. ASSUME NEW t \in Tabs
      PROVE /\ Publish(t) \/ PublishStroke(t) \/ Push(t) => UNCHANGED <<queue, stage>>
            /\ \A told : Pull(t, told) => UNCHANGED <<queue, stage>>
            /\ \A e : Erase(t, e) \/ Draw(t, e) => UNCHANGED <<queue, stage>>
            /\ \A e, p : Copy(t, e, p) => UNCHANGED <<queue, stage>>
            /\ \A f : TurnArrives(t, f) => UNCHANGED <<queue, stage>>
  <2>1. Publish(t) \/ PublishStroke(t) => UNCHANGED <<queue, stage>>
    BY DEF Publish, PublishStroke, import
  <2>2. Push(t) => UNCHANGED <<queue, stage>>
    BY Zenon DEF Push, import
  <2>3. \A told : Pull(t, told) => UNCHANGED <<queue, stage>>
    BY Zenon DEF Pull, import
  <2>4. \A e : Erase(t, e) \/ Draw(t, e) => UNCHANGED <<queue, stage>>
    BY DEF Erase, Draw, import
  <2>5. \A e, p : Copy(t, e, p) => UNCHANGED <<queue, stage>>
    BY DEF Copy, import
  <2>6. \A f : TurnArrives(t, f) => UNCHANGED <<queue, stage>>
    BY DEF TurnArrives, import
  <2> QED BY <2>1, <2>2, <2>3, <2>4, <2>5, <2>6
<1>6. \A f : MoveBy(f) \/ MoveEnd(f) \/ RemoveDocument(f) \/ TurnPage(f)
                => UNCHANGED <<queue, stage>>
  BY DEF MoveBy, MoveEnd, RemoveDocument, TurnPage, import
<1> QED BY <1>1, <1>2, <1>3, <1>4, <1>5, <1>6 DEF PagedNext

LEMMA PagesAlwaysKept == PagedSpec => []PagesKept
<1>1. PagedInit => PagesKept
  BY StartsKept
<1>2. PagesKept /\ [PagedNext]_pagedVars => PagesKept'
  <2> SUFFICES ASSUME PagesKept, [PagedNext]_pagedVars PROVE PagesKept'
    OBVIOUS
  <2>1. CASE PagedNext
    BY <2>1, StepsFit, StepsQueue DEF PagesKept
  <2>2. CASE UNCHANGED pagedVars
    <3>1. UNCHANGED <<room, view, out, scene, twinned>> /\ UNCHANGED <<queue, stage>>
      BY <2>2 DEF pagedVars, boards, noted, import
    <3>2. PagesFit'
      BY <3>1, SameBoards DEF PagesKept
    <3> QED BY <3>1, <3>2 DEF PagesKept, QueueFits
  <2> QED BY <2>1, <2>2
<1> QED BY <1>1, <1>2, PTL DEF PagedSpec

\* Whatever editors do and in whatever order frames arrive, a page in the room
\* is one the owner made, as the owner left it: for any number of editors, files,
\* pages and edits.  Where a second entry was made for an id nothing is claimed.
THEOREM RoomPagesAreTheOwners == PagedSpec => []PagesAreTheOwners
<1>1. ASSUME PagesKept PROVE PagesAreTheOwners
  <2> SUFFICES ASSUME NEW e \in DOMAIN room \ twinned, room[e].page # NoPage
               PROVE room[e].by = Owner /\ e \in Pages
    BY DEF PagesAreTheOwners
  <2>1. Fit(twinned, Owner, e, room[e])
    BY <1>1 DEF PagesKept, PagesFit, IsBoard
  <2> QED BY <2>1 DEF Fit
<1> QED BY <1>1, PagesAlwaysKept, PTL

=============================================================================
