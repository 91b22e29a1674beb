# Teacher Playground: models, checks and proofs

TLA+ modules beside the code of Teacher Playground, a shared whiteboard for
lessons with accounts, companies and Stripe billing. Paths are those of the
repository (`src/worker.ts` is the file of that name in the application's own
`src` directory); line numbers are those of the commit modelled.

## 1. The system

One Cloudflare Worker (`src/worker.ts`) serves the static site, checks who is
asking, and forwards to two kinds of Durable Object. It also runs two daily
cron jobs. The browser side is a Next.js application round Excalidraw and Yjs.

| Part | State it keeps | Operations | What is hard |
|---|---|---|---|
| **IdentityDO** (`src/do/IdentityDO.ts`), one global object | SQLite: accounts, sessions, entitlements, companies, billing rows, referrals, account-to-room list | one synchronous transaction per request | each transaction is atomic; everything that calls it is not |
| **Payment collection** (`lib/identity/entitlementWriter.ts`, `lib/billing/*`) | `billing_subscriptions`: wanted state, versions, in-flight marker; `billing_dispute_holds` | claim, settle, repair, cancel, recompute; executor; daily reconcile | Stripe is called between two transactions; webhooks come late, twice, out of order; workers die |
| **Webhooks** (`lib/billing/apply.ts`) | receipts by event id | apply a fetched object by event class | ordering against newer facts |
| **Company** (`lib/company/*`) | company, members, invites, `company_subscriptions` (seats, pending seats) | create, invite, redeem, revoke, transfer, disable, seat change | capacity against pending seats; ownership; disable against billing |
| **Sessions, erasure** (`lib/identity/sessionStore.ts`) | sessions, accounts, bindings | sign in, confirm, sign out, erase | sockets elsewhere outlive a session |
| **Plans** (`lib/plan/*`) | none (tables) | effective plan, limits | a cap is read in one object and used in another |
| **RoomDO** (`src/do/RoomDO.ts`), one object per room | SQLite: `rooms`, `room_members`, `waiting_peers`, presence; KV: snapshot chunks, markers, alarm; memory: the Yjs document, dirty marks, timers, sockets | HTTP routes, sync frames, alarm | hibernation and eviction; two stores; waits on the IdentityDO in the middle of a handler |
| **Room admission** (`lib/whiteboard/membership.ts`, `guestPin.ts`) | members by role, queues, PIN and failure counters | request, approve, kick, ban, PIN entry | role read before a wait; revocation reaches sockets only by alarm |
| **Realtime** (`presence`, signaling, cursors, calls) | sockets' attachments | relay, sweep | ephemeral |
| **Files, library, documents** | R2 objects, KV | upload, read, orphan sweep | sweep against a board not yet stored |
| **Backups** (`lib/backup/*`) | R2 exports, registry | daily cycle | one room failing |
| **Browser** (`src/app`, `components`, `hooks`) | React and Excalidraw state | editing | not server state |

How they interact. The Worker calls the objects by `fetch`. RoomDO calls the
IdentityDO (owner activity, plan, archive state, session validity); the
IdentityDO never calls RoomDO. A webhook is fetched again from Stripe, applied in one
IdentityDO transaction, and may name a subject for which the Worker then runs the
collection executor: claim (transaction), Stripe call, settle (transaction). The
reconcile cron makes one transaction, executes the claims it was handed, reads
every subscription from Stripe, makes a second transaction and executes the claims
of that one. A RoomDO holds the board in memory, flushes it to a KV snapshot
and afterwards projects it into a SQL row.

What makes each part correct:

- *collection*: Stripe ends up in the state the disputes and cancels call for;
  a version means one state; nothing is applied that Stripe did not do; no
  marker blocks a row for ever; a cancel is final;
- *boards*: a stored stroke stays stored; an edit is stored in the end; a
  deleted room leaves nothing; the row catches up with the snapshot;
- *company*: one active owner while active; members within capacity under
  every seat change; a disabled company has no active member, no entitlement
  and no collection;
- *admission*: never more holders than the plan allows; a banned, demoted or
  signed-out account's sockets close within the revocation period;
- *guest PIN*: guesses are rationed over every stretch of time, a lock ends, and a deleted room's guests go;
- *accounts and rooms*: sessions follow the account; a room is listed or owed to an
  erasure, never forgotten; the bucket goes with the room;
- *events*: what was paid is recorded, the row comes to what Stripe holds, members hold what it entitles them to;
- *editing*: boards at rest agree, a cleared board stays cleared, pages are as their
  owner made them, lost pictures are shown as lost;
- *calls*: who is in the room knows of its call, who is removed leaves it.

The hazards of each part, at their lines, are listed in `PROJECT.json`.

## 2. Plan

| # | Module | Models | Proofs | State |
|---|---|---|---|---|
| 1 | `Collection` | payment collection: entitlementWriter, executor, reconcile, disputes, disable | `CollectionProofs` | done |
| 2 | `BoardFlush` | the RoomDO's board: memory, snapshot, row, alarm, flush | `BoardDocProofs` | done |
| 3 | `Company` | companies, members, invites, ownership, seats, entitlements | `SeatChangeProofs` | done |
| 4 | `SeatPromise`, `SeatChange` | what a change of seats promises; the callers that make it, composed with `Company` | `SeatChangeProofs` | done |
| 5 | `RoomAdmission` | grants, queues, sockets, revocation pass | `RoomAdmissionProofs` | done |
| 6 | `RoomLife` | one account and one room over four stores | `RoomLifeProofs` | done |
| 7 | `GuestEntry` | guest PIN, lock, guest accounts | `RoomAdmissionProofs` | done |
| 8 | `BillingEvents` | webhooks, receipts, subscription reads, referrals | `BillingEventsProofs` | done |
| 9 | `BoardSync` | tabs editing one board through Yjs | `BoardDocProofs` | done |
| 10 | `LiveRoom` | a call and page turns | `LiveRoomProofs` | done |
| 11 | `BoardFiles` | uploads, quota, fetches, orphan sweep | `BoardContentProofs` | done |
| 12 | `PagedDocs` | PDF import, page moves, the page guard | `BoardContentProofs` | done |

`SeatChange` EXTENDS `Company` and is shown to implement both it and `SeatPromise`.
The other modules meet at facts that one leaves to another: `Collection` leaves the
entitlement's state to `BillingEvents`, `BoardFiles` the races of the document to
`BoardSync` and a room's purge to `RoomLife`, `GuestEntry` the sockets of guests to
`RoomAdmission`.

Every safety property a run checks is a theorem, `OwnerPrevails` excepted. A module of proofs holds those of one or
two components that write one thing: the room's document (`BoardDocProofs`), what is on it
(`BoardContentProofs`), the room's door (`RoomAdmissionProofs`); where two components would
meet in it, their definitions have names of their own (`SyncInit`, `PagedInit`, `EntryInit`).

What is left: the liveness properties, which the prover cannot reach, and `OwnerPrevails`, whose invariant
over frames and links is not written yet (section 7); and the watermark of the dispute sweep, which no module has.

## 3. Modules and code

The map in `PROJECT.json` gives each definition its lines; this section says how
state and actions correspond. An operator named `<Definition>_<Slip>` is a plausible
slip in that definition, with which one property of a run fails (`mutants`).

### Collection

State. `row` is the table `billing_subscriptions`, `hold` is
`billing_dispute_holds`, `entSub` the subscription id on the subject's
entitlement row, `latest` the order by `updated_at` with which the settle and
claim routes look a subject's row up, `disabled` the companies' state.
`handoffs` are the subjects a webhook answer gave to `runCollectionExecutor`.
`calls` are the Stripe requests of executors, `cron` the reconcile run,
`stripe` and `executed` are Stripe: its state and the idempotency keys it has
carried out. `verdict` fixes how a dispute closes at Stripe, since a dispute closes once.

The first part of the module is a function on a row for each statement of
`entitlementWriter.ts` (`ClaimCollection`, `CancelCollection`,
`RecomputeDesired`, `SettleSuccess`, `SettleFailure`, `RepairVersion`,
`ObserveCanceled`). Actions compose them the way the transactions do:

| Action | Code |
|---|---|
| `DisputeNotice` | `applyDispute` (apply.ts 506-550), `pendingCollectionSubject` |
| `ReviewDisputeHold` | operator.ts 263-326 |
| `SubscriptionEvent` | `applyClass1`, `applySubscriptionState` |
| `DisableCompany` | membership.ts 272-313 |
| `ExecutorClaims`, `SettleCollection` | IdentityDO operations and settle routes; operations.ts 110-233 |
| `StripeExecutes`, `StripeRejects`, `CallAbandoned` | executor.ts and stripeClient.ts, and what may happen to their request |
| `CronStart`, `CronSent`, `CronReads`, `CronPosts`, `CronHasNothing`, `CronDies` | `runBillingReconcile` (worker.ts 2803-2989) and `reconcileBilling` (reconcile.ts) |
| `MarkerAges` | fifteen minutes pass since `in_flight_since` |
| `StripeCancels`, `DashboardEdit` | outside the system |

Abstractions. One dispute notice per sweep post: several are as many notices
just before it, since the passes that follow only see the rows. A post whose
answer is lost is a `CronDies` after it, whose calls become orphans that may
never run. An executor's handoff may be missed. A read of Stripe returns the state of that
moment; what it does to the row, minutes later, is judged on the row as it then
is. Time is two facts: a marker is fresh or fifteen minutes old, and a call
(ten seconds) is over before its marker is old.

### BoardFlush

State. `mem` is the object's memory (the document if loaded, `dirtyRooms`,
`projectionDirtyRooms`, the flush and touch throttles), `disk` its storage
(snapshot, projection marker, `rooms.elements`, the alarm), `flight` the flushes
that wait for the IdentityDO, `room` and `open` whether the room exists and any
socket is open.

A Durable Object runs one event at a time, and its input gate lets no other
event in while it awaits its own storage. So a handler is one action up to a
`fetch` to another object; the only one on these paths is
`touchOwnerRoomActivity`, inside `flushDirtyDocs`. A flush is therefore cut there
into the part before (`Flush`), the part after (`TouchReturns`, `ForcedReturns`), and every
other action may come between. An eviction is not bound to events: `Crash` may
also fall between the put of the snapshot and of the marker, and between the row's update
and the marker's removal.

A board is a function from elements to `never`, `live`, `erased` (the tombstone is in
the array) or `gone` (pruned or cleared). An edit is one stroke or one erasure.

| Action | Code (RoomDO.ts) |
|---|---|
| `Connect` | `handleSignalingUpgrade` 2533-2623, the alarm it arms |
| `SyncFrame` | `webSocketMessage`, `stageSyncUpdate`, `flushIfDue` |
| `ReadBoard` | any read that loads the document, `getRoomDoc` |
| `ClearBoard` | `clearBoard` and `deleteBoard` 1871-1983 |
| `SceneWrite` | `forgetBoardIfElementsWritten` and the scene handler's row |
| `DeleteRoom` | 1087-1113 |
| `LastSocketCloses` | `handleSocketGone`, `flushDirtyDocs({isLastSocketClose})` |
| `AlarmFires` | `alarm` 2743-2812, `restoreProjectionRetries` |
| `TouchReturns`, `ForcedReturns` | the rest of `flushDirtyDocs` |
| `TimePasses`, `Hibernate`, `Crash` | the platform |

### Company

State. `account`, `company`, `member`, `invite`, `sub`, `op`, `invoice` and `ent` are the
tables of the same names; `customer` is whether `processor_customer_id` is set;
`asked` is a request that passed its checks and waits before its transaction, so
that it may commit after its caller lost what let it in.

| Actions | Code |
|---|---|
| `AskCreate`, `CreateCompany`, `CustomerReady` | COMPANY_PATH POST (IdentityDO.ts 2465-2567), `createCompany` |
| `AskMint`, `MintInvite`, `RevokeInvite`, `ExpireInvite`, `RedeemInvite` | invites.ts |
| `RevokeMember`, `TransferOwnership`, `DisableCompany` | membership.ts |
| `EraseAccount` | `eraseOwnAccount`, `transferOwnershipForErasure` |
| `ApproveInvoice`, `InvoiceFailed`, `InvoiceSettled` | operator.ts, `operatorInvoiceApprovalRoute` |
| `SubscriptionState`, `FirstPaid` | `applyCompanySubscriptionState`, `setCompanyFirstPaidAt` |
| `ReserveSeatChange`, `SettleSeatChange`, `ReleaseSeatChange` | seats.ts |

Every action that changes a subscription or a membership ends by writing the
entitlements that follow (`Materialized`, which writes one row as `Written` gives it, `FannedOut`, `Without`), as the
transactions do. Here a
pending change is settled or released by anybody at any time; `SeatChange` says by whom.

### SeatPromise and SeatChange

`SeatPromise` is what the company was promised: a change is recorded only once Stripe
bills for it, and withdrawn only while Stripe does not. `SeatChange` adds to `Company` the
callers under way (`call`: the route's worker per operation, and the reconcile), the
requests at Stripe (`wire`, which outlive a caller that times out or dies), the keys Stripe has
carried out (`used`), what it bills (`billed`) and whether the idempotency window has closed (`old`).

| Actions | Code |
|---|---|
| `Reserve`, `RouteReads`, `Settles` | `companySeatsRoute`, `applySeatChange` (worker.ts 1159-1298) |
| `CronStarts`, `CronReads` | `reconcileBilling` (726-760), `decideSeatChangeRecovery`, `retrySeatChange` |
| `Asks`, `NoAnswer`, `ReadFails`, `WorkerDies` | executor.ts 357-438 |
| `StripeBegins`, `StripeExecutes`, `StripeReplays`, `StripeRefuses`, `RequestLost`, `Dashboard` | Stripe |

`Overlap` says whether the reconcile may start while an earlier call of the same company is
alive. The code has no lock that forbids it, only ten seconds against a day; the run and
`PromiseIsKept` take it as FALSE, and say so (section 5 for what happens otherwise).

### RoomAdmission

State. `role`, `late`, `waiting`, `present` are the membership rows, those of them past their
time, and the waiting and presence rows; `version` is `rooms.grant_version`; `sock` the open sockets with
the account, session and version stamped at the upgrade; `due`, `ending` and `counted` what handlers
that wait still owe: an account's sockets to be cut, the guests' sockets to be closed, an approval counted
against the plan; `pass` the sockets the revocation pass asked the IdentityDO about.

| Actions | Code |
|---|---|
| `RequestAccess`, `Withdraw`, `Heartbeat`, `LeavePresence` | membership.ts, handlers/presence.ts, handlers/waiting.ts |
| `CountForApproval`, `ApproveWaiting`, `ApproveRequest`, `Deny` | `admitWithinOwnerPlan`, handlers/waiting.ts, requestsId.ts |
| `Ban`, `Suspend`, then `Cut` | handlers/presence.ts; RoomDO.ts 739-803 |
| `OpenToGuests`, `CloseToGuests`, `CloseGuestSockets` | `applyGuestSettings`, `closeGuestSockets` |
| `Upgrade`, `RefuseFrame`, `Disconnect` | `handleSignalingUpgrade`, `webSocketMessage`, `webSocketClose` |
| `AlarmIdle`, `AlarmEarly`, `AlarmAsks`, `IdentityAnswers`, `IdentityFails` | `alarm`, `closeRevoked` |
| `EndSession`, `EraseMember`, `CloseErased`, `DeleteRoom`, `DeleteSockets`, `Restart` | sign-out, erasure, deletion, eviction |

Every request begins with the purge of what ran out (`Purged`); an action that authorizes does
so after it. The role read before a handler awaits its body is part of its action's guard.

### RoomLife

One account, one room, four stores: the IdentityDO (`account`, `session`, `listed`, `owed`,
`registry`), the RoomDO (`room`), the bucket (`files`, `exports`: put before or after the room went) and
the worker, whose requests (`at`, with the token in `by`) go from one to the next a step at a time
and may die between. `lost` and `purges` remember what a dead create left and what a delete still has to empty.

| Actions | Code |
|---|---|
| `SignInResolves`, `SignInInserts`, `Rotate`, `Confirm`, `Ends`, `Ages` | identityStore.ts 635-758, sessionStore.ts |
| `RevokeAll`, `Disable`, `Enable` | sessionStore.ts 853-887 |
| `CreateStarts`, `CreateMakes`, `CreateReserves`, `CreateUndoes`, `CreateDies` | worker.ts 3901-3984, handlers/room.ts 162-311 |
| `SettingsStart`, `SettingsStored`, `SettingsSync` | worker.ts 2134-2149, 3925-3938 |
| `DeleteStarts`, `DeleteRoom`, `DeleteReleases`, `DeleteDies`, `Purges` | worker.ts 3890-3900, 2045-2132 |
| `EraseStarts`, `EraseLists`, `EraseCommits`, `EraseRoom`, `EraseFiles`, `EraseExports`, `EraseClears` | `accountErase` (worker.ts 1861-1981), `eraseOwnAccount` |
| `UploadReserves`, `UploadPuts`, `Registers`, `BackupDue`, `BackupReads`, `BackupPuts` | uploads; the daily backup cycle |
| `RoomExpires` | `purgeExpiredRoomsAndTombstones` |

### GuestEntry

The room's PIN, its failure counter with window and lock (as ages in ticks), the guest accounts, and one browser that enters
while strangers guess. `wrong` is history: the wrong guesses taken in under the PIN in force, by age.

| Actions | Code |
|---|---|
| `IssuePin`, `RevokeAccess`, `PinExpires` | `issueGuestPin`, `revokeGuestAccess`, the twelve hours of a PIN |
| `StrangerGuesses`, `EntryMistyped`, `EntryVerified` | `verifyGuestPin`: `Fails` counts unless a tombstone or a lock refuses before |
| `EntryStarts`, `GuestCreated`, `GuestIssued`, `AnswerLost`, `Answered` | `issueGuestAuth` (worker.ts 529-605) over both objects |
| `Traffic`, `GuestExpires` | the purge of guests no session holds, which any request to the IdentityDO makes; expiry |
| `RoomDeleted`, `RoomReleased`, `PurgeGuests` | the deletion's three requests (worker.ts 2045-2132, RoomDO.ts 619) |

Two submissions may be under way at once (`Slots`: two tabs, or a second try over a slow first one), and each walks through three
requests while the deletion walks through three of its own. `passed` is history: the submissions that were past the PIN when the
room was deleted. Nothing stops those, since `purgeRoomGuests` cannot know of an account that does not exist yet, so
`GuestsGoWithTheRoom` bounds the guests left after the purge by their number; a submission that only found the room in the
registry meets the tombstone. `guest` counts because of this property: an account is `new` until a session holds it, and `Traffic` may
take it away between the two requests that make it.

### BillingEvents

State. `stripe` is the truth at Stripe and `owed` the events it still delivers; `handlers` are the
webhook requests that have fetched what they will post; `db` is the identity store: receipts, effects, the
subscription's row, the member's copy and the redemption; `run` is the reconcile with what it has read.
An apply is a function from tables to tables (`StateApplied`, `PaidEffects`, `CheckoutEffects`, `Reversed`),
so that one transaction is one step and one that throws changes nothing. A member's copy is not the row: it is what
`companyEntitlements` makes of it (`CompanyEntitlement`: "active" and "past_due" stay, any other status, "unpaid" with them, is the member's
"canceled"; only "past_due" has a grace), written whenever row, payment or membership change (`Materialized`).

| Actions | Code |
|---|---|
| `StatusChanges`, `InvoicePaid`, `InvoiceFails`, `CheckoutCompletes`, `ChargeRefunded` | Stripe's events |
| `CheckoutOpens` | `billingCheckout` |
| `AnsweredFromReceipt`, `Fetched`, `FetchFails` | `handleStripeWebhook`, `fetchWebhookObjects` |
| `Applied`, `ApplyThrows`, `AppliedAnswerLost`, `HandlerFails` | `applyEvent`, BILLING_APPLY_PATH |
| `ReconcileLists`, `ReconcileReads`, `ReconcileApplies`, `ReconcileFails` | `runBillingReconcile`, `applyFetchedSubscription` |
| `AttachCompanySubscription`, `MemberJoins` | entitlementWriter.ts 887-924, companyEntitlements.ts 57-78 |

An account starts with or without a personal row, since no code makes one (section 5). "unpaid" is a
status a personal entitlement cannot hold: the apply throws and is rolled back whole. A second event for one invoice and
`reconcileCauseApplied` are left out.

### BoardSync

Yjs is an external definition: a document is the prefixes it holds of its writers' logs
(`log`, `held`), a map entry's value is the last write no other was made after, the highest client id
winning, and twins stand in the order of their creators. Excalidraw's `reconcileElements` is
external as well. What the code adds is modelled whole: the baseline of published versions (`base`), the ids last
sent (`sent`) and ever seen (`met`), the observer that lifts a remote scene into the editor (`Observe`, `Pull`), the commits
(`Publish`, `Lift`, `Commit`), the row drained after the first sync (`Drain`), and the room's `Clear`, `PruneDoc` and `SaveRow`.
A stroke's points are its version and the tab that made it: the whole-element value is one register.

### LiveRoom

`server` (the stored call and page), `links` (sockets, dead sockets the room still holds, frames both ways), `client`
(what each room page believes), `av` (each person's start of the media session, its connection and microphone).
A start is cut at every await (`Mint`, `Reach`, `Publish`) and may be cancelled there; a cancelled start goes
on beside the next (`StrayReaches`, `StrayEnds`), and two that are at one stage go on as one. `Connect` includes the replay of call and page
(RoomDO.ts 2598-2621), `Frame` the relay, `Moderate` and `Evicted` the removal and the request to the media server.
A removed page learns of it by its presence poll, and `asks` says whether that runs: a page `beats`; it `rests` in a hidden tab with no
call joined (`Hides`, `shouldPollPresence`); it is `lost` after five minutes without the room's socket (`GivesUp`, `hasGivenUp`),
until a connection. Only a page that beats polls by itself (`Poll`); one that is looked at again asks once (`LooksBack`), and
beats on if it only rested. Frames are rendered one at a time; one host tab.

### BoardFiles

`up` is what each tab's uploader remembers of a picture, `put` and `get` the requests it waits for, `stray` a PUT
still at work whose tab has gone; `board`, `ready`, `library` what the room mentions; `bucket` and
`total` the stored objects and the counted bytes; `sweep` the orphan sweep between its listing and its deletes.
`Serve` takes a PUT through `Authorized`, `StoredAgain`, `Reserved`, `Stored` (worker.ts 3661-3788); `Created`, `PutOff`,
`Refused` and `CutOff` are `uploadBoardFile`'s four ends; `RemoteChange`, `GetServed`, `GetAnswered` and `HintArrives` the
fetches of a peer. `uncounted`, `collected` and `forsaken` are history: an object stored anew that was taken for
present (worker.ts 3711), what the sweep deleted, what a reload left in spite of the warning. A flush and its read of
references are one step; every picture weighs one unit.

### PagedDocs

The import queue (`queue`, `stage`, `left`, `cancel`; `Drain` is `processPdfQueue` cut at its awaits), the boards
(`room`, `view`, `out`, `scene`, `base`), and the page each tab `shows`. `scene` and `base` are those of BoardSync: a tab reconciles what
it is told with the elements of its editor that are not erased (`Visible(scene[t])`, ExcalidrawWrapper.tsx 1086), so a tombstone is no argument against
an element that came back.

The document is one value per element, but a value is kept in a Y.Map, and the guard is not a filter in front of it:
a refused frame is applied, and then undone by writes of the server's own (documentPageGuard.ts 313-358). `Push` does both and
gives the outcome: `Guarded` is what an id shows in the end, and `link` what it did to the entry under it, as each tab stands to it. An owner's
write made before the tab heard of the undo is concurrent with it (`Contested`; on a pull, `Disputed`): either may win, as client ids
decide, and a write that lost once goes on losing (`losing`). A page that was deleted is put in again as a new Y.Map at the end of the array, so a write to the old
one is lost (`cut`, `Astray`), and a deletion always takes the entry it was made to. The room does not tell the sender what it undid
(`Tellings`): its tab keeps the refused change until it connects anew (`undone`). `Relinked` and `Met` carry this along. Yjs is external here as in BoardSync.

Histories: `will`, what the owner last wanted of a page; `beaten`, pages of which a write of the owner's was lost to another's since; `twinned`,
ids of which two Y.Maps stood at once. The guard looks an id up by its last entry, so where a page has a
twin it may take one for the other; the model leaves open what comes of that and the properties exempt these ids (section 5, 22).

## 4. Runs

| Run | Checks | Instance | States, time |
|---|---|---|---|
| `collection` | KeyDeterminesState, DesiredFollowsHolds, AppliedOnEvidence, StripeConverges, MarkersEnd | one company subscription, two disputes, one fault | 290 k, 2.5 min |
| `board` | DeletedLeavesNothing, StoredStrokesStay, DirtyIsFlushed, RowCatchesUp | two strokes, one too large for the row; two flushes; one eviction, failure and drop, one of the three at a time | 1.7 min |
| `company` | OneOwner, SeatsNeverOversold, EntitlementFollowsMembership | three accounts (symmetric), two companies, one of which pays, one invite, one seat change, 1-3 seats | 484 k, 45 s |
| `seats` | KeepsPromise, ChangesEnd | one company, two seat changes, two faults, one dashboard edit | 127 k, 48 s |
| `admission` | SocketsAreWatched, GuestsLeaveWithTheDoor, BansLast, EndedSessionsClose | owner and guest, two sockets, one more session, one version | 216 k, 1.8 min |
| `room_life` | SessionsFollowAccount, NoRoomIsForgotten, ErasedListsNothing, BucketGoesWithRoom | two tokens (symmetric), two requests at once, one epoch, one fault | 1.27 M, 1.4 min |
| `guest_entry` | GuessesAreRationed, GuestsGoWithTheRoom, LockEnds | threshold 4, window 2, lock 3, two submissions, three guest accounts, one lost answer | 1.31 M, 1.2 min |
| `board_sync` | SettledBoardsAgree, ClearedStaysCleared | two tabs, one element, three acts, the room's client id below or above | 315 k, 1.5 min |
| `billing_events` | MembersFollowTheRow, RowConverges, PaidIsRecorded | a free and a paid invoice, one checkout, two events, two handlers, one fault | 255 k, 2 min |
| `live_room` | CallKnownWhenSettled, PagesAgreeWhenSettled, RemovedLeavesTheCall | host and student, three acts, one end, one fault | 808 k, 3.3 min |
| `board_files` | LossIsVisible, BytesAreCounted, UploadsResolve, PicturesArrive | two tabs, one picture, quota 2, two tries, two acts, one fault | 119 k, 2 min |
| `paged_docs` | PagesAreTheOwners, OwnerPrevails, DropsSettle | owner and editor, two PDFs, one of them long, one other element, two acts, three frames of a tab under way | 195 k, 1.2 min |

Why the bounds are enough to be interesting.

- `collection`: one fault, two disputes and the reconcile give an orphaned request, a late settle, a stale read and a
  marker without an owner; two disputes are the least for which a hold that closes must not lift another's
  pause. `InBounds` follows the first dispute to its end whatever fails, and the second and a disable while
  versions stay within `MaxVersion`; the theorems hold without the constraint.
- `board`: two flushes are what one close over one waiting flush needs; an eviction and a failure fall at any step.
- `company`: an owner who leaves has an admin and a member to choose from, the invite may go to either company,
  and a seat is missing, just enough or spare.
- `seats`: a second change may meet what the first left at Stripe; two faults let a call be lost and its retry refused.
- `admission`: one socket per account and two accounts already give an upgrade during a close, a pass that overtakes a
  sign-out, and a bystander whose socket a moderation must restamp.
- `room_life`: any two of create, settings, delete, erase, upload and backup overlap, with a worker that dies in one.
- `guest_entry`: the bound `2 * Threshold - 1` is reached, by guesses on both sides of a window's end;
  two submissions overlap a deletion at every step of both, one past the PIN and one not, and three accounts let the purge of unused
  ones take one of them meanwhile.
- `board_sync`: two tabs edit, erase or clear one element at one version in every interleaving of frames;
  the order of client ids decides both ways.
- `billing_events`: two events are the least that come in the wrong order, two handlers the least that hold different reads.
- `live_room`, `board_files`, `paged_docs`: each fault falls into every stage of a start, an upload, an import. In `paged_docs` two acts are what
  a refused change and an owner's act over it need; `MaxFrames` bounds only what reconciling sends unasked.

A fault or an act that only a larger number could reach is not excluded by the runs;
for what section 6 proves it is.

Deadlock. Only `collection` and `guest_entry` can always step. In `board` a deleted room without an alarm has nothing to do, in
`company`, `seats` and `room_life` a disabled company or account may be the end, in `admission` a deleted
room, and in the others acts or events are bounded.

### Fairness

| Run | Assumed | Because |
|---|---|---|
| `collection` | the cron starts and gets on, a call ends, a finished call is settled unless its worker dies, time passes | `wrangler.toml` `crons`; the call's ten second timeout |
| `board` | alarms are delivered; a call to the IdentityDO returns or fails | the platform |
| `seats` | the cron starts and reads, the route's worker and Stripe go on, the idempotency window closes | as above; requests may be lost and workers die within the faults |
| `admission` | the alarm asks; the IdentityDO answers if it is asked again and again (SF), or fails | the alarm is armed again after a failure |
| `guest_entry` | time passes | nothing is assumed of guests, owners or guessers |
| `billing_events` | an owed event is delivered, a handler that fetched applies, the reconcile gets on | Stripe redelivers until it is answered 200; the cron |
| `live_room` | a start of a session goes on; a page that beats polls | timers of the page; nothing makes one poll that rests or has given up |
| `board_files` | requests are served and answered, retry timers fire, hints arrive; remote changes come | the last is "while the room is in use": pictures are fetched on a change |
| `paged_docs` | the queue goes on, and the owner answers the question of a long document | the promise chain of `processPdfQueue` |

`company`, `room_life` and `board_sync` state safety only and assume none. Nothing anywhere is assumed of what users do.
Faults are bounded in every specification, which is how "once interference ends" is said.

What the liveness properties leave out, they must. `StripeConverges` exempts a disabled company (section 5).
`DirtyIsFlushed` speaks of a board that has a deadline: a stroke gives it one, a clear does not (section 5). `RowCatchesUp` asks that a
marker is paid or nothing remains armed: an instance that crashed right after its alarm was consumed keeps the marker until
the next connection arms one. `RowConverges` and `PaidIsRecorded` exempt a status the personal row cannot hold. `RemovedLeavesTheCall` exempts a
page that for ever neither polls nor was told of its removal: one that rests in a hidden tab, or that gave up after five minutes without a socket
(useCollaboration.ts 829-833). If the request to the media server failed too, nothing takes that page's media session away. `DropsSettle` exempts a queue behind a file whose first page cannot be read (section 5).

## 5. Where documents and code differ

Read in the code while modelling it; the models do what the code does. Specification paragraphs
are those of `spec/IMPLEMENTATION_SPEC.md`.

Billing.

1. **At most one call in flight** (D-6, lines 586 and 641). The reconcile's read confirms a marker by state alone
   (reconcile.ts 640) while the executor that made it may not have called yet; the next version is
   then claimed and two requests are live. `StripeConverges` holds all the same.
2. **A reported cancel leaves nothing to send** (P-9, line 613). `cancelCollection` returns early when a lost
   dispute made the row canceled before (entitlementWriter.ts 504); the version stays pending.
3. **Disabling a company stops collection** (C-13, line 659, and membership.test.ts 370). membership.ts 305 uses
   the cancel meant for one that Stripe reported: it is recorded as applied and never sent.
4. A late settle is not inert (operations.ts 164-184 repairs and claims with nobody to send it). With two
   subscriptions of one subject the settle takes the one updated last (operations.ts 115-124) and a dispute
   recomputes the entitlement's current one (apply.ts 542-549): the properties of `Collection` are stated, and proved, for a subject's only one.
5. An unmappable dispute's ignored receipt is replayed by the sweep (reconcile.ts 231-253, against D-5);
   the sweep's watermark is taken over a truncated page (worker.ts 2778-2801, reconcile.ts 624-628).
6. A subscription event overwrites `collection_paused` (apply.ts 376-409).
7. No code makes a personal entitlements row except `applySubscriptionState`, which skips when it is
   missing: a first personal checkout never entitles. A company paid before its subscription is attached never gets `first_paid_at`.
8. The reconcile stamps `last_state_event_created` with its own clock, so a stale read overwrites a newer
   state until the next event or run (`RowConverges` says it comes right).
9. Two seat changes race (C-10, line 656): a reconcile that meets a live call may release what Stripe then bills. `Overlap` is that case.
10. An invite can be redeemed into a disabled company, a revoked member cannot rejoin (invites.ts 179-246),
    and an operator's invoice settles onto a disabled company (operator.ts 163).

Rooms.

11. **`flushDirtyDocs` writes every document that has changed** (comment 2232). An edit that arrives while the flush
    waits for the IdentityDO loses its dirty mark (RoomDO.ts 2297-2299).
12. **The first dirty transition schedules a flush within 3 s** (SERVER_SIDE_BOARD_PLAN.md 160). Clearing a board does not (1871-1983).
13. **Seeding never resurrects erased elements** (comment 1690-1692). A cleared board's snapshot is empty too, so an eviction before the
    projection lets the row fill it again (1694).
14. A scene write drops the library and the pages too (RoomDO.ts 1999-2057).
15. The plan's cap on a room (line 1407) is counted in one step and used in another; overlapping approvals pass it (RoomDO.ts 712).
16. Denying a request bans, but leaves the account's presence row, and a later suspension by that row queues a banned account's peer again.
17. The failure window of the guest PIN is called sliding (guestPin.ts 177) and is fixed: `GuessesAreRationed` states what follows.
18. A worker that dies between POST /room and the reservation leaves a room no list names (worker.ts 3943); the erasure's own
    clear call comes after its session ended and is refused, so what is owed stays owed for the operator; expiry for idleness leaves exports behind (against worker.ts 2111).

Editing.

19. The row read over HTTP is drained into the document after the first sync and overwrites what is newer there or
    brings back what was erased (useCollaboration.ts 243-257, 458-466; SYNC_STORAGE_REVIEW, SYNC-03). `ClearedStaysCleared` exempts that step.
20. Where an id has twins, the editor reads the first entry and writes the last (yjsDoc.ts 131), and a twin behind a tombstone shows again (225).
21. "A peer uploads the bytes before it publishes the element" (orphanFiles.ts 52-57): the editor starts the upload and publishes
    without waiting for it (ExcalidrawWrapper.tsx 865, 1872), so an element may come first, or stay without bytes in the end.
22. **The guard leaves a page as its owner made it** (PAGED_DOCUMENTS_SPEC.md 7). It takes a refused change in and undoes it with writes of its own
    (documentPageGuard.ts 313-358), which can beat a write of the owner's that is under way, or detach the Y.Map it was made to. The owner's tab then reconciles without
    its tombstones (ExcalidrawWrapper.tsx 1086), so a document it removed can come back and stay: `OwnerPrevails` exempts a removal that was `beaten`.
    A move or an import is not lost so, since the owner's editor keeps the higher version and publishes it again. "An honest client never makes these changes"
    (344-350) is not so either: an editor erases a page by hand, and its next stroke sweeps the tombstone out of the array. If the tombstone is published again
    the id has two entries, and the guard, which reads the last (`byId`), may delete the first (`twinned`).
    The writer whose change was refused keeps it "until it resyncs": what the guard restores has the older version, which its editor does not take over even then.
    Of a page that one frame both changes and deletes the guard puts back the values written last (217-225; the comment at 311 says the old ones): a shipped
    client collects its deleted items, so its update has none left to read, but one with collection off would get its own values in. `PagesAreTheOwners` is about the shipped one.
    Erasing a single page hides what was drawn on it for ever (pagedDocuments.ts 213-217). A file whose first page cannot be read throws out of `processPdfQueue` and stays at the head.
23. "A peer arriving mid-call must still be told there is one" (RoomDO.ts 2602-2603): told on connection, but a host whose own flag became true by that replay
    ends the call for itself without announcing it, and a student that missed the end stays in. A token minted before a removal stays valid an hour.
24. "A peer still waiting to be admitted keeps beating too" (presencePolling.ts 26-28): `shouldPollPresence` says so, but the same loop asks `hasGivenUp` first
    (useCollaboration.ts 829, and 485-490 for the clock), and one who waits has no socket: after five minutes it hears no more of its admission until the tab is looked at anew.

## 6. Proofs

The theorems hold for every value of the constants that meets the assumptions in the
modules: any number of subscriptions, accounts, companies, sockets, tokens, events, tabs,
pictures, students, callers and faults. Those assumptions are what the schema or the platform gives (ids
are numbers and finitely many, a company has one subscription, a dispute's payer has one, a lock
is no shorter than its window, a room's owner is not one of its students, a page's id is no
other element's, Yjs client ids are ordered as numbers are, a browser has finitely many submissions under way), that bounds are numbers, and that
"nothing", or the name of a stage, is none of the values it stands beside.
Only `PromiseIsKept` assumes more: that the reconcile does not run beside a live call.

| Theorem | States |
|---|---|
| `CollectionProofs!TypeCorrect`, `VersionChainHolds`, `NeverBackwards` | shapes; the schema's CHECKs on versions; no version or cancel is taken back |
| `CollectionProofs!KeysAreStable` | `Spec => []KeyDeterminesState` |
| `CollectionProofs!WantedFollowsHolds` | `Spec => []DesiredFollowsHolds` |
| `CollectionProofs!AppliedHasEvidence` | `Spec => AppliedOnEvidence` |
| `BoardDocProofs!TypeCorrect`, `OpenRoomsTick`, `DeadlineHolds` | shapes; an open room has a next alarm; a stroke's deadline lasts while the board is dirty |
| `BoardDocProofs!DeletedIsGone` | `Spec => []DeletedLeavesNothing` |
| `BoardDocProofs!StoredStays` | `Spec => StoredStrokesStay` |
| `SeatChangeProofs!RowsKeepTheirTypes`, `AlwaysOneCompany`, `AlwaysOnePendingChange` | shapes; an account is in one company; a pending change is one operation |
| `SeatChangeProofs!AlwaysOneOwner` | `CompanySpec => []OneOwner` |
| `SeatChangeProofs!SeatsAreNeverOversold` | `CompanySpec => []SeatsNeverOversold` |
| `SeatChangeProofs!EntitlementsFollowMembership` | `CompanySpec => []EntitlementFollowsMembership` |
| `SeatChangeProofs!CallersKeepTheirTypes` | shapes |
| `SeatChangeProofs!ImplementsCompany` | `Spec => CompanySpec` |
| `SeatChangeProofs!SeatsFitWhileTheyChange` | `Spec => []SeatsNeverOversold`, from the two before |
| `SeatChangeProofs!PromiseIsKept` | `~Overlap` gives `Spec => KeepsPromise`: `SeatChange` implements `SeatPromise` |
| `RoomAdmissionProofs!RoomKeepsItsTypes`, `StampsStayCurrent` | shapes; who was not acted upon keeps a current stamp |
| `RoomAdmissionProofs!AlwaysWatched` | `Spec => []SocketsAreWatched` |
| `RoomAdmissionProofs!GuestsLeave` | `Spec => []GuestsLeaveWithTheDoor` |
| `RoomAdmissionProofs!BansHold` | `Spec => BansLast` |
| `RoomLifeProofs!StoresKeepTheirTypes` | shapes |
| `RoomLifeProofs!SessionsAreTheAccounts`, `RoomsAreRemembered`, `ErasedStaysEmpty`, `BucketIsEmptied` | the four invariants of `room_life` |
| `BillingEventsProofs!EventsKeepTheirTypes`, `CancelIsTheEnd`, `GraceIsGivenOnce` | shapes; a recorded cancel lasts; a grace is opened once |
| `BillingEventsProofs!CopiesFollow` | `Spec => []MembersFollowTheRow` |
| `BillingEventsProofs!RewardsAreEarned` | an earned redemption has a paid invoice that was not free (no run checks it) |
| `LiveRoomProofs!RoomKeepsItsTypes` | shapes |
| `LiveRoomProofs!CallIsKnown`, `PagesAgree` | `Spec => []CallKnownWhenSettled`, `Spec => []PagesAgreeWhenSettled` |
| `LiveRoomProofs!OutIsSilent` | a page out of the call holds no session and no microphone once its cancelled starts ended |
| `BoardContentProofs!FilesKeepTheirTypes` | shapes |
| `BoardContentProofs!LossIsShown` | `Spec => []LossIsVisible` |
| `BoardContentProofs!QuotaHolds` | `Spec => []BytesAreCounted` |
| `BoardContentProofs!RoomPagesAreTheOwners` | `PagedSpec => []PagesAreTheOwners` |
| `RoomAdmissionProofs!EntryTypes` | shapes |
| `RoomAdmissionProofs!RationOfGuesses` | `EntrySpec => []GuessesAreRationed` |
| `RoomAdmissionProofs!GuestsGo` | `EntrySpec => []GuestsGoWithTheRoom` |
| `BoardDocProofs!SyncInvariant` | `SyncSpec => []SyncInv`: the logs are closed, and an editor's document says what the editor takes for published |
| `BoardDocProofs!SettledBoards` | `SyncSpec => []SettledBoardsAgree` |
| `BoardDocProofs!ClearedBoards` | `SyncSpec => ClearedStaysCleared` |

Collection. `Sound == TypeOK /\ VersionChain` is inductive: the types alone are not, since a settle's
or a cancel's arithmetic stays legal only on a legal row. Every row function is shown to move a row
`Forward` (versions up, a new state under a new version, a cancel for ever) and to keep the
marker or make a `Fresh` one; `Forward` composes, so every transaction does the same
(`StepMovesRows`). `NeverBackwards` is that lemma read as an action property. For the keys the invariant is
strengthened by `KeysBounded`: no key is newer than its row, and one at the row's own
version has the row's own state. Without it a key left behind by an orphan could meet a new one with
another state. `WantedFollowsHolds` adds that the holds of a sole subscription name it, so that a
recompute folds all of them; `AppliedHasEvidence` that a call which ended well was carried out at Stripe and
that a marker keeps the state its version was claimed with. Both are for a subject's only subscription and false without (section 5, 4).

BoardFlush. `Inv` says of memory and storage together (`Fine`) that a loaded document `Covers` the stored snapshot,
that a dirty mark has its document, and that a deleted room has nothing stored. The coverage is what makes
`StoredStrokesStay` hold: a flush writes the document, so the new snapshot knows whatever the old one knew. The lemmas follow a
flush as its code does: projection, what comes after the touch, the whole; each for any memory
and storage that are `Fine`, since a flush resumes in a state others made. A second pass over the same parts
(`Rests`) says that a part that ends leaves an alarm for whatever is still dirty and takes none away; from it follow the
two theorems about alarms, the first with `open => room = "live"` in its invariant, since only the alarm of a room that exists arms the next.

Company. `Sound` joins the properties with `Founded` (a company that was never founded has nothing) and `Paired` (pending
quantity and operation come together): capacity, owner and entitlement each need the other two when an erasure hands the company
over. The lemmas say what revoking, promoting and fanning out return; cardinalities come from `FiniteSetTheorems`.

SeatChange. A settle is one of Company's two steps or changes nothing, and every other step stutters: with `CallsOK` that gives
the refinement, and `SeatsFitWhileTheyChange` follows by it. For the promise, `AllCalm` says that a caller alive is the only one that
is looking, has one request at most, and that its verdict is what Stripe bills; each of the steps is then one of `SeatPromise`'s under the mapping
(`has` the quantity, `wants` the pending one, `taken` whether the pending operation's key is used).

RoomAdmission. A step moves rows and no socket, or closes sockets and no row; only an upgrade opens one. What relates rows and sockets has few steps to survive,
and `Shapes` (types, and that a late row belongs to an account) is all that is needed beside them. A purge takes the rows of editors and requests, never a ban.

RoomLife. `Kept` adds four facts. `Taken`: a delete about to release the list has taken the room. `Spent`: the
token an erasure asked with never counts again, so it cannot clear what is owed. `Outlived`: no request that outlives an erasure
has a session to write the list with. `Following`: a room that went has files or exports only while a request or a purge is on its way to them.

BillingEvents. Every write of the identity store is a function from tables to tables; each keeps `Sane` (`Follows`, `Deserved`, `Settled`), and only
`StateApplied` moves a status, as a cancel and a deadline allow (`Moves`). `Waiting` says that an event names an object of its own kind wherever it waits.

LiveRoom. The two properties speak of a student with nothing on its way to it, and are not inductive. `AllKnow` says the same of
one with frames on their way: the last frame of a kind says what is stored, or there is none and its page says it (`Comes`).
A frame is stored and relayed in one step, so it becomes the last of its kind and leaves the other kind alone; an arrival takes the
first; a connection replays both. That the relay skips whoever lost its grant does no harm by `SocketsAreGranted`. `AllSilent` says that a page
which does not want the call has started nothing, and that what is an earlier start's is accounted for in `stray`; each change
of a page keeps it because the effects run with it (`RendersEffect`).

BoardFiles. `Counted`: what the bucket holds and what requests past their reservation carry, live or stray, fits the count plus the
history of objects stored anew. `Remembered`: a tab with a picture's request, mark or failure shows it as pending until the
bytes are stored. `DoomedAreHeld` and `FewMissed` are what the sweep's deletes and the types need.

PagedDocs. `PagesFit` says of the owner's document, editor and frames what `PagesAreTheOwners` says of the room: outside `twinned` a page is the owner's and bears a page's own id. It holds of the room because an editor's frame goes through the guard, which gives back what was there
or takes a new page away (`GuardFits`, `AppliedFits`); of the owner's tab because that only merges what the room shows with its own (`MergedFits`), reconciles and
bumps versions under its own name (`BumpFits`). Of the editors' tabs it says less, and need not more: a copy or a bump of theirs is not the owner's, and the guard
meets it at the room. Which of two concurrent writes wins is never asked, so the proof stands for every order of client ids. `twinned` only grows, so what once was exempt stays so.
`QueueFits` says that a drain under way has a file at its head, of which an import makes pages.

GuestEntry. A guess is a pair of an age and a number at that age, so that a stretch of time is a set of guesses and its count a cardinality; no sum is needed. `Rationed` splits
the stretch at the start of the open window: the guesses since are counted in `guest_failed_count`, those before are fewer than would have locked the room:
together twice the threshold less one. `LockHolds` says that a lock takes in nothing and that every guess is out of the stretch when it ends, which
is where "no shorter than its window" is needed. The history begins anew with a PIN and when access is revoked; only the first resets the counters.
For `GuestsGo`, `Spent` counts live guests and the submissions that may still make one (past the PIN, or with an account of their own) together: after the deletion the
second kind can only shrink, a submission becomes one guest at most, and at the purge the guests there are go. Their sum stays within `passed`.

BoardSync. `SyncInv` compares an editor with its own Y.Doc only, never with another tab's. `DocsOK` is about the documents: a write stands in its writer's
log where it says it does, knows an earlier part of it, and whoever holds it holds what its writer held; so of the writes to an entry there is always a last one and a
map's value is one of them (`ValueIsPut`: a finite set has a greatest member in the order of what each one knew). `EditorOK` relates the four things an editor remembers; `Agrees` has what the properties need:
`StillThere`, what the room once showed and the editor still shows has an entry (so nothing is created anew: `ClearedBoards`);
`SaysPublished`, what the baseline calls published the document says; `ShowsAll`, what the document shows the editor shows. Two facts carry the proof. What others write leaves a tab's
document alone, so a step is about one tab (`OthersKept`). And a step of that tab is either an observation, after which the editor is reconciled
with the document and the baseline adopted from it (`Reconciles`), or a commit, which makes the document say the scene it is given (`Committed`): the glitch rule, the
forced lift and the filtered scene of a pointer that is down are its cases. Twins are excepted in each conjunct, as they are in the property, since there the code's read and write disagree (section 5, 20).
At rest every tab has the room's document, and the two properties follow.

## 7. Only model-checked, and not modelled

Only model-checked:

- every liveness property, since fairness and ENABLED are beyond the prover: StripeConverges, MarkersEnd, DirtyIsFlushed, RowCatchesUp,
  ChangesEnd, EndedSessionsClose, LockEnds, RowConverges, PaidIsRecorded, RemovedLeavesTheCall, UploadsResolve, PicturesArrive, DropsSettle;
- of the safety properties `OwnerPrevails`: it needs the owner's frames, versions and links related over any number of frames while the guard's writes
  beat and detach them.

Not modelled, and why:

- in Collection: the sweep's watermark, formatting of requests and audit rows;
- in BoardFlush: chunks of a snapshot (one `put` writes them all), unreadable snapshots, an undo of an erasure, a deleted
  id that is created again, a time-to-live that ends while sockets are open, a failure of the update of `updated_at` after both puts (RoomDO.ts 2289), which leaves
  the board dirty as a failed put does, though it is stored;
- in Company: display names, e-mail matching, audit rows, manual grants;
- in SeatChange: the refusals of `RouteReads` that end a change like the one that is there (worker.ts 1199-1223);
- in RoomAdmission and GuestEntry: limits of requests per address;
- in BoardSync: undo, the fallback poll, edits made before the socket opens. An entry's value is the last write of all (`Value`), as Yjs decides
  between two writers; among three concurrent ones its order of insertion may decide otherwise. The run has one element, so that the sweep of a whole scene
  in `Published` meets no bystander there; the proof is for any number;
- in PagedDocs: undo of an import, two tabs of one owner, joins, the row drained after the first sync, the scene route's own guard, a cancel while a PDF is
  measured; an element's value is one register, where Yjs keeps one for each key; what the guard does to a page with two entries;
- in BillingEvents: signatures, a second event for one invoice;
- in LiveRoom: guide frames, mute, screen share, device pickers and the preview; a scene write that drops the stored pages (RoomDO.ts 1999-2056), the cap on how many are stored;
- in BoardFiles: sizes and types of pictures (a refused type is a permanent refusal; a stored object of another size than announced is deleted again and refused, worker.ts 3727-3729);
- cursors and the signaling of peers are ephemeral fan-out; plan tables, token checks and per-isolate rate counters are pure or read by nothing else;
  encryption and serialisation of backups; React screens whose state is a copy that is fetched again; configuration.
