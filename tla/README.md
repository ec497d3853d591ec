# Formal models of my-chat

TLA+ models of the services in `src/`, checked with TLC and partly proved with
TLAPS. The code is the reference: each action stands for one handler step, SQL
statement or call of the source, and `PROJECT.json` names the lines.

## 1. The system

Four Go processes share one PostgreSQL database; a mobile web client (TypeScript)
talks to two of them.

| component | state it keeps | operations | talks to |
| --- | --- | --- | --- |
| auth-proxy, sessions (`services/auth`, `store/auth_session_repository.go`) | table `auth_sessions` | login, refresh with rotation and reuse detection, logout; revoke-all, which no HTTP route reaches (`authproxy/app.go:90-92`) | the client over HTTP |
| login rate limiter (`app/authproxy/middleware.go`) | token buckets in memory, one per address | allow, clean-up every 5 minutes | every login request |
| main-service, chat (`services/chat`, `store/message_repository.go`, `receipt_repository.go`) | tables `messages`, `message_receipts` | send, mark read, delete, unread count, history pages | hub, push queue |
| dialogs (`services/chat/dialogs.go`, `store/dialog_repository.go`) | table `dialogs` | get or create, list | chat |
| hub (`hub/`, `handlers/ws`) | connections in memory | register, unregister, send, heartbeat | called by chat and by the event poller |
| push queue (`store/notification_outbox_repository.go`) | table `notification_outbox` | enqueue, claim with a lease, mark sent or failed, housekeeping | filled by chat, drained by notification-worker |
| notification-worker (`services/notification`) | the claimed batch | claim, list devices, push, mark | push providers, table `devices` |
| devices (`store/device_repository.go`) | table `devices` | register, unregister, disable | client, worker |
| message-expirer (`services/expirer`) | none between ticks | remove what has timed out, insert its events | tables `messages`, `ws_event_outbox` |
| event delivery (`services/wsdelivery`, `store/ws_event_outbox_repository.go`) | table `ws_event_outbox` | claim, hand to the hub, mark processed | hub |
| migrations (`store/migrate.go`) | table `schema_migrations`, advisory lock | bootstrap, apply and record | run by each Go process at its start |
| mobile client (`mobile/src`) | stored tokens, PIN, chat screen | rotation, lock and unlock, history and event handling | all of the above |

What is hard in it:

* **Statements that interleave.** Every repository call is a statement of its
  own. A handler reads a row, decides in memory and writes later: a refresh
  beside a logout, two first reads of one message, a deletion beside the expirer.
* **Work that is claimed.** Workers hold leases on tasks; they crash, lose the
  status write, or outlive the lease.
* **Two queues without a common transaction.** A message is removed in one
  statement and its events are inserted in later ones; a delivery is sent first
  and marked after.
* **Connections and answers that are lost.** A lost answer of a rotation looks
  like a replay to the server; a dead connection looks alive to the hub.

The lines where these hazards bite are listed in `PROJECT.json` under `hazards`.

## 2. The modules

| module | models |
| --- | --- |
| `NotificationOutbox` | push queue, notification-worker, housekeeping, devices as far as the worker sees them |
| `NotificationDelivery` | what the push queue promises: a notification is absent, owed, settled, forgotten |
| `AuthSessions` | refresh sessions under concurrent requests |
| `SessionChain` | what the session table promises, however requests overlap: a rotation replaces the session its request found usable |
| `MessageLifecycle` | a message from its creation to its removal: chat service, receipts, TTL, badge, hub answers, expirer |
| `MessageLife` | what the chat promises about a message: kept until it is withdrawn or expires, read, dated once |
| `Hub` | the registry of WebSocket connections, their heartbeat, and one call of `Send` |
| `WSEventOutbox` | the expirer's ticks, the event queue, and the poller with the connections of `Hub`, which it extends |
| `EventDelivery` | what a removal promises: each participant is owed one event, which is queued or lost, handed over in turn, done |
| `Dialogs` | a dialog of two users and a walk through the pages of its history |
| `RateLimiter` | the token buckets in front of the login |
| `TokenBucket` | what the limiter promises: one bucket for each address, filled as time passes |
| `Migrations` | the start of the processes on a clean or an older database |
| `ChatScreen` | the client's open chat: history answers, events, timers, read marks, lock, reconnections |
| `MobileSession` | the client's session in a browser: stored tokens, PIN, rotation, lock, login and logout |
| `NotificationOutboxProofs`, `AuthSessionsProofs`, `MessageLifecycleProofs`, `WSEventOutboxProofs`, `RateLimiterProofs`, `ChatScreenProofs`, `MobileSessionProofs` | theorems about the module of that name |
| `StoreProofs` | theorems about `Dialogs` and `Migrations` |
| `MCNotificationOutbox`, `MCAuthSessions`, `MCMessageLifecycle`, `MCWSEventOutbox`, `MCRateLimiter`, `MCMigrations`, `MCChatScreen`, `MCMobileSession` | constants and symmetry for TLC; `Dialogs` needs none |

An operator introduced as the mutant of another one states a plausible mistake in that
place; no specification uses it. `PROJECT.json` lists with each property the mistake
that breaks it.

### NotificationOutbox

`status`, `attempt` and `wait` are the columns `status`, `attempt` and
`next_attempt_at` (as the time left until it), `age` stands for `updated_at` of a
sent row. `pc`, `batch`, `cur`, `listed`, `todo`, `result` and `seen` are the local
variables of `RunOnce` and `processTask` of each worker. `reached` and `gone` record what the push provider answered and influence nothing.

| code | action |
| --- | --- |
| `NotificationOutboxRepository.Enqueue` and the CHECK of migration 006 | `Enqueue` |
| `ClaimBatch` (one UPDATE with SKIP LOCKED) | `ClaimBatch` |
| `processTask` up to the loop | `StartTask`, `ListError` |
| one round of the send loop | `SendOk`, `SendGone`, `SendError` |
| `MarkSent`, `markFailed`, an error of either | `MarkSent`, `MarkFailed`, `MarkLost` |
| a kill or a shutdown | `Crash` |
| `runHousekeeping` | `DeleteSent` |
| passing time | `Tick` |

The payload, the badge number and the wording of errors are left out. A payload
that does not parse takes the same path as `ListError`.

### AuthSessions

A session id stands for the row, its id and its token. `created`, `family`, `user`,
`device`, `from`, `revoked` and `expired` are the columns; `known` are the tokens
some client received; `pc`, `tok` and `dev` belong to the requests under way.
`holder`, `loggedOut`, `compromised` and `branch` are records for the properties. A
refresh is `BeginRefresh` (FindByTokenHash and the checks) followed by `RotateSession` or
`RevokeFamily`; a logout is `BeginLogout` and `RevokeSession`; `WriteFails` is a
failed transaction or a killed server. A token that fails the parse before its row is
read changes nothing and is left out.

Whoever holds a token presents it at any time, beside any other request with it. The
single-flight promise of `mobile/src/api.ts:121-134` keeps one page's refreshes apart only
until `fetch` rejects or the page is reloaded, which may be before the server has ended the
first; a logout does not wait for it (`main.ts:1380`), and a second holder of the token, for
whom reuse is detected, is not bound by it. So overlap is not restricted here.

The writing transaction does not look at `revoked_at` again
(`auth_session_repository.go:113-126`). A rotation is *late* when its row was revoked between
its check and its write; its session starts a `branch` of its own, as a login does, while
every other rotation stays on the branch of its row. With it two documented promises fail
(section 4: a reuse ends the family, a logout ends the session), and what holds can be said:
one usable session for each branch, no branch survives a reuse, and none survives the logout
of its usable session (`LogoutEndsBranch`). In `SessionChain`
a late rotation is an `Advance` whose session is no head any more.

### MessageLifecycle

`stored`, `expiresAt`, `deleted` are columns of `messages`, `read` the receipts with
a `read_at`, `conn` what the hub has registered (`dead`: registered, but nothing
arrives), `queued` the push tasks. Each request has a program counter; every
statement or `Hub.Send` of SendMessage, MarkRead and DeleteOwnMessage is a step,
in the order of the code, early returns included. `fresh` is the snapshot
`msg.ExpiresAt == nil` that MarkRead decides on several statements later.
`timer` and `badge` are what a client was last told; `unheard` keeps the messages whose event
went to a dead connection, `raced` those that two requests found without a deadline, `outdated`
the users whose last badge carried a count that was no longer true when it was sent. Any
user may mark any message as read: neither the handler nor the service looks at the dialog
(`handler.go:171-190`, `service.go:337-368`), so `CallRead` does not either.

Two simplifications: `message_delivered`, `message_read` and the author's
`message_deleted` are sent in the same step as the statement before them, because
no property looks at them; and the badge_sync task is left out, because the table
refuses it: `service.go:447` enqueues it, the CHECK of migration 006 (line 13) does not
know its type, and the error is dropped. Two first reads that overlap announce two deadlines,
one of which is stored, the exception of `TimersTrue`. A message that its receiver has not read
expires when somebody else has marked it; since such an expiry tells nobody's badge, it is an
exception of `BadgesTrue`. Both contradict the documents (section 4). One dialog with two participants is
modelled; dialogs share no rows apart from the unread count of a user.

The refinement reads a message's fate off `stored`, `deleted` and who removed it (`Fate`);
receipts, deadlines and the clock stand for themselves. A reading may be recorded by
anybody and after the message is gone, and a deadline set then; both are steps of `MessageLife`.

### Hub

`conns` is the hub's map, a list for each user; `link[c]` is what the connection `c` really
is: `open`, `dead` (nobody reads at the other end, and the server does not know),
`closed` (Read has returned, or the socket is closed) or `none`. `copied`, `written` and
`got` belong to the one `Send` under way: the list it copied, how far it is, and whom it
has reached.

| code | action |
| --- | --- |
| `Connect` up to `Register` | `Register` |
| the network or the browser goes silent; `Read` of `RunConn` fails | `PeerVanishes`, `PeerCloses` |
| `runHeartbeat`, a ping without a pong, `cancel` | `Heartbeat` |
| the deferred function of `Connect` | `Unregister` |
| the end of the process | `Shutdown` |
| `Send`: the copy under the lock, a write and its error | `BeginSend`, `Write` |
| a write to a silent peer that the buffer takes, or that returns late | `WriteSwallowed` |

Connections come, break and go between the writes of a `Send`; a write to a silent peer may
never return, and blocks until the heartbeat gives it up. The gauge is left out.

### WSEventOutbox

`unsaved[x]` are the events expirer `x` still has to insert, `queue` the rows with
`processed_at IS NULL` in the order of `created_at`, `batch` and `sent` the local
variables of `Delivery.RunOnce`. `AbandonTick` is a failed INSERT or a killed
expirer, which leaves the rest of its events in `abandoned`; `MarkFails` and `Restart`
separate sending from marking.

The poller's `Hub.Send` is the hub's: `SendEvent` copies the list, each `Write` is a step
between which the actions of `Peer` and `TearDown` run, and the event counts as sent with
the last one. `BlockedWrite` is a write to a dead peer that returns by itself; it has no
fairness, so only `TearDown` is sure to free a blocked poller. `Restart` is a `Shutdown`
of the hub with the loss of the poller's batch.

A tick that fails after the removing statement loses its events: nothing tries again
(`expirer.go:72-86`), although `docs/api-sprint-4.md:14` promises both users the
event. `NothingLost` names these events as its exception, and in `EventDelivery` they are
`lost`. The refinement tells from where an event waits which phase it is in (`Phase`): with a
tick it is owed, as a row it is queued, as a processed row done.

### Dialogs

`row` is the table `dialogs`, keyed by the ordered pair of its users, `opened[<<u, v>>]` the
id that `u` was given for a dialog with `v`; `home`, `stamp`, `visible` and `removed` are
the messages: their dialog, `created_at`, whether the INSERT has committed, whether
`deleted_at` is set. One user at a time walks: `reader`, the cursor `before`, what has been
`listed`, what was `there` at the start.

| code | action |
| --- | --- |
| `CreateDialogByUsername`, the upsert of `GetOrCreate` on `normalizeDialogUsers` | `GetOrCreate` |
| `MessageRepository.Create`: `NOW()` is when it begins, the row is seen when it commits | `BeginPost`, `CommitPost` |
| a deletion or the expirer | `Remove` |
| `ListMessages` from the handler to the SELECT, for the first and each further page | `BeginWalk`, `NextPage` |

`Cut` is the format of the cursor, RFC 3339 in whole seconds: the next page starts before
the second of the last row, and messages of that second that were not on the page are
skipped. `WalkListsEach` names exactly these (`Skipped`) as its exception. `next_before` is
given for a full page. The other participant learns of the dialog from the list of
dialogs, which is one SELECT and left out; here that user opens it as well.

### RateLimiter

`known`, `tokens`, `lastTime` and `lastSeen` are the map of buckets and the fields of its
entries. A request is `Get` (the map's mutex) followed by `LetThrough` or `Refuse`
(`allow`, under the bucket's mutex); `Cleanup` is one round of the clean-up and `Tick`
passing time. `passed` and `promised` are records for the properties: when logins were
let through, and what the last Retry-After said. Tokens are exact: a unit is what one tick
refills, and a login costs `Cost`. The code counts in float64, so it may let a login through a
rounding error earlier or later. `Available`, which the refinement maps to the level of the
abstract bucket, is what the next login would find: the refill that is due, or a full new entry.

The bucket is filled while it is emptied, so up to twice the burst less one pass in a window
that begins full. `WindowBound` says what it guarantees; `docs/api-sprint-4.md:285` promises
ten logins in 60 seconds, which the code does not keep (section 4).

A request that holds a bucket the clean-up forgets would use it up beside the new one.
`LimiterAssumption` excludes that by `TTL >= Full + Stall`: five minutes are longer
than the minute of a refill and any time a request spends between the two mutexes.

### Migrations

`applied` are the files whose statements have taken effect, `recorded` the rows of
`schema_migrations`, `lock` the holder of the advisory lock, `pc` and `file` where each
process is in `Migrate`.

| code | action |
| --- | --- |
| the start of a process, `pg_advisory_lock` | `Start`, `AcquireLock` |
| `CREATE TABLE IF NOT EXISTS` | `EnsureTable` |
| `bootstrapSchemaMigrations`: its queries, and one INSERT for each old file | `Bootstrap`, `MarkApplied` |
| the loop: is it recorded, execute it, record it | `CheckFile`, `ExecFile`, `RecordFile` |
| the end, `releaseMigrateConn` | `Done` |
| a statement fails; the process is killed, or stopped when it runs | `Fails`, `Crash`, `Stop` |

A file is one implicit transaction, and idempotent, as every file of
`store/migrations` is; `Needs[f]` are the files whose tables `f` works on, and without
them it fails. `again` and `torn` are records: files executed twice, and whether a
process has died between file 1 and its row.

### ChatScreen

`screen`, `current`, `hiddenAt`, `locked`, `before`, `pending` and `timers` are the
variables of `main.ts` (`currentDialogId`, `appLocked`, `screenBeforeLock` and
`dialogBeforeLock`, `pendingMarkRead`, `ttlTimers`), `list` the bubbles in the
document with the interval that `timers` gives them, `link` the socket together
with its timer of three seconds, `wire` the events on it. A callback runs to its
end, so it is an action; an `await` of the server splits one:

| code | action |
| --- | --- |
| `loadChatHistory` up to its await | `LoadChatHistory`, part of `ShowChat`, `Open`, `OnAppVisible`, `UnlockAfterResume` |
| the server's SELECT | `ListMessages` |
| the rest of it, and of its caller | `HistoryAnswer`, `HistoryFails` |
| a `markRead` call that fails, in `tryMarkRead` and `flushPendingMarkRead` | `MarkFails` |
| `handleWSMessage` | `HandleWSMessage` |
| a tick of `startTTLTimer`'s interval | `HideExpiredBubble` |
| `connectWS` and its listeners, `doReconnectWS` | `Open`, `Break`, `DoReconnectWS` |
| `showChat`, `handleBackFromChat`, `loadHome` | `ShowChat`, `BackFromChat`, `LoadHome` |
| `onAppHidden`, `onAppVisible`, `unlockAfterResume` | `OnAppHidden`, `OnAppVisible`, `UnlockAfterResume` |

`loads` are the requests under way: `latest` says that `chatHistoryGen` has not moved
on, `flush` that the caller flushes the read marks after its await. The server is
`PeerPosts`, `StartTTL`, `RemoveMessage`, each a statement, and `Send`, which
announces it some time later and in any order (`owed`). `crossed` records, for the properties, the events that the
list cannot account for: those handled while a history request was under way, the
news of a message that the history holds already, events overtaken by a later
one, and events sent after the socket was opened and before the hub knew it.
For these the code has no guard, and TLC shows a doubled bubble, or one that stays, as soon
as the exception is dropped; that a bubble stays which a handled deletion should have hidden
contradicts the documents (section 4). `unmarked` are the messages whose last `markRead` call has failed:
the code drops the failure (`main.ts:463`, `475`) and calls again only for a new history. A PIN is set, and the user is signed in throughout. The user's own messages are not part of
the screen: the answer of a send is appended to whichever list is open by then
(`main.ts:714`), and no property says what should become of it.

### MobileSession

`access`, `refresh` and `verifier` are the storage: the access token as far as
`jwtAccessExpired` looks at it, the refresh token with the key it is sealed with, and
the PIN's salt and hash. `screen`, `locked`, `sessionPin` and `fails` are the variables
of the page, `rotation` with its `callers` is `rotateInFlight` with the promises that
wait for it, `checking`, `keying`, `signIn` and `signOut` are the handlers under way, `sent`
says that a request is on its way whose access token has expired.
On the server `login` tells the families apart and `usable` is what it would rotate.

| code | action |
| --- | --- |
| `rotateSession`, `rotateSessionInner` up to `decryptRefreshToken`, and from there to the request | `RotateSession`, `RotationOpened` |
| `Service.Refresh`; a request or an answer that is lost | `ServerRefresh`, `RefreshFails` |
| the rest of `rotateSessionInner`, its callers' `catch` and continuation | `RotationAnswered`, `RotationSealed`, with `Settle` |
| `handleUnlockPin` up to `verifyPin`, and after it | `EnterPin`, `UnlockPin` |
| `handleSetupPin`, `handleChangePin` | `SetupPin`, `ChangePin`, `PinHashed`, `TokenSealed` |
| `handleLogin`, `handleLogout` | `SignIn`, `SignedIn`, `SignOut`, `SignedOut` |
| `loadHome`; `ensureFreshAccess`, as `doReconnectWS` calls it | `OpenHome`, `EnsureFreshAccess` |
| `fetchAuth` up to the request, and from its 401 | `FetchAuth`, `Unauthorized` |
| `lockAppForResume`; `init` after a reload | `LockAppForResume`, `Reload` |

A handler is split where it waits for the network or for a key derivation; reads and
writes of the storage belong to the step before or after, and the derivations that `handleChangePin`
makes one after the other before it writes are one wait. A 401 comes at any time, after
a logout too. `Calling` holds everything
else back between a call of `rotateSession` and its first await. What the code leaves
to chance is recorded in `mishaps` and named by the properties as their exception:
the answer of a rotation is `lost`; a PIN is set or asked for beside a rotation or a
change of the PIN (`rekeyed`); the storage is cleared beside a rotation or a change
(`wiped`); the page dies between the new PIN and the token sealed with it (`torn`).
Without an exception TLC shows the property violated: nothing in the code keeps these
apart. That a rotation stores its tokens after a logout contradicts what the documents say of
the logout (section 4).

Left out: biometry (a browser has none); two tabs of one browser, which share the storage and
have each their own `rotateInFlight`, so that the tabs can rotate one token twice; a second click on
a form that is being submitted; and a request that reaches the server only after the page that
sent it was reloaded. `OwnTokensOnce` is therefore a property of one page; what the server makes of
such doubled requests is in `AuthSessions`. The resume lock outlives a session that has
ended (`main.ts:1061`, `1002`): `locked` stays set through the next login, as it does here.

## 3. The runs

Violation runs state what a document or a comment of the repository says and show
the behaviour of the code that contradicts it; they are listed as `findings`. The
type invariants are proved (section 5), so no run repeats them; nor do they repeat
`RemovedOnce`, `DeadlineIsFinal` and `HandedInOrder`, which are theorems and are contained in
the refinements that are checked (`ImplementsLife`, `ImplementsPromise`). `BadgesTrue` is proved
only: it takes two messages beside the two requests to go wrong.

| run | checks | shows |
| --- | --- | --- |
| NotificationOutboxWorkers | LeaseExclusive, RoundComplete, EventuallySettled, ImplementsDelivery | claims exclude each other; a notification is pushed only while owed and settled once; no task starves behind one that keeps failing |
| AuthSessionsOverlap | FamilyBound, OneLivePerBranch, ReuseEndsBranches, LogoutEndsBranch, OverIsFinal, ImplementsChain | what holds for any overlap of requests: the binding of a family, one usable session for each branch, the end of all branches at a reuse and of one at a logout; what is over stays over; the abstract chain |
| MessageLifecycleRaces | FullLifetime, NewMessageReaches, TimersTrue, ImplementsLife | deadlines and removals under overlapping requests of any user; no receiver is forgotten; clients show the stored deadline; a message has one end, one deadline |
| MessageLifecycleRemoval | TimedOutIsRemoved | what has a deadline is removed |
| WSEventOutboxTicks | EachEventOnce, NothingLost, OpenOnesAreTold, QueueDrains, ImplementsPromise | no event twice, none out of order or marked unsent, none missing but those of a failed tick; a Send reaches every connection that stays open; the queue is emptied past dead peers; all of it is the abstract promise to two participants |
| DialogsWalk | OneDialogPerPair, WalkListsEach, WalkEnds | both users write to one dialog; a walk lists each message once but for those cut off with a cursor's second, and ends |
| RateLimiterLogins | WindowBound, RetryAfterTrue, ImplementsBucket | no span of time lets through more than the burst and its refill; who waits for Retry-After is served; lazy refills and forgotten entries are one bucket |
| MigrationsStarts | UpIsComplete, RunAgainAfterFault, ComesUp | a process that is up has the whole schema, nothing is executed twice without a fault, every process comes up unless a start was torn at file 1 |
| MigrationsBootstrap | RecordedIsApplied *violated* | a first start that dies between file 001 and its row leaves a database that the next start takes for an old one: 001 to 011 are recorded, 002 to 011 have never been applied, and every start fails at 012 |
| ChatScreenCrossings | HistoryOfOpenChat, OneBubble, RemovedLeaves, TimersRun, ShownIsRead, LockedMarksNothing | the list shows the open dialog, no message twice, nothing removed, a timer for each deadline, but for events that crossed the history request; what is shown has a markRead call, unless it failed, and none is made behind the lock |
| ChatScreenReconnect | Reconnects *violated* | a reconnection that fails behind the lock is never tried again |
| MobileSessionBrowser | OwnTokensOnce, Readable, LogoutForgets, ThrownOutWhenOver | but for the named mishaps, one page replays no token of its own, can open what it stores, forgets what it clears, and gives up no session that is alive |

**Bounds.**

* *Push queue.* Two workers compete for a lease; they take one task at a time
  (`BatchSize = 1`), so two tasks have an order, one for each of two recipients;
  `MaxAttempts = 2` has a first, a last and no further attempt; `Lease`, `BackoffBase`,
  `BackoffCap` and `ExhaustedDelay` are small but ordered as in the code. A due row's
  age is kept apart up to `MaxOverdue`, enough for the order of two tasks. Batches end
  within their lease (`Prompt`), without which `LeaseExclusive` says nothing.
* *Sessions.* Three sessions give a login and two rotations of one family, on one branch or, with a
  late one, on two; two requests at once are two refreshes of one token, or a refresh
  beside a logout, a reuse, a revoke-all or a login.
* *Message.* Two requests on one message are two racing readers, a reader and a
  deletion, or a sender and its reader; three users are both participants and an outsider.
  The clock runs for one TTL after each of two reading times. The
  removal needs no connection; that run has the failed statement and the killed request
  (`MaxFaults = 1`), which the other leaves to the proofs.
* *Events.* Two messages make four events, more than one batch of the poller takes
  (three), while one tick can insert all four. Two connections of one user are a
  dead one before or after a live one in the copied list. Two faults are a failed mark
  and a restart, or two of either; how often ticks fail has no bound but the messages.
* *Dialogs.* Three messages on pages of one give a first, a middle and a last page
  and the empty one behind them; two ticks make a second, so two messages share a
  second or not. Ids are compared by pair, so two users have both orders.
* *Limiter.* A burst of two, refilled at one login in three ticks; the clean-up time is
  the least that the assumption allows, and the clock runs for two of them. Addresses share
  nothing, hence one.
* *Migrations.* Two processes, the twelve files of the repository with the dependencies
  of their tables, the code's cutoff, two faults: a crash in any pair of places.
* *Chat screen.* One message meets itself in history answers and events, a second
  dialog makes an answer stale, two requests give an old and a new one, and one fault
  is a broken connection, a failed request or a failed read mark; the reconnection needs no
  message.
* *Browser.* Three tokens are a login and two rotations, or a login beside the remains
  of an earlier one; two PINs are an old and a new one, or a right and a wrong one, and
  of two wrong attempts the second is the last. `OneMishap` does not combine the
  mishaps, nor a mishap with a request whose 401 is on its way (the proofs have no such bound); four salts can be in use, so five leave a fresh one in every state.

`MaxFaults` bounds crashes, failed statements and lost writes; everything else repeats
without bound or until its ids are used up. In the sessions run ids run out and the
last clients may have lost their tokens, hence `CHECK_DEADLOCK FALSE`; every other run
checks deadlock.

**Symmetry** permutes interchangeable ids (sessions' ids, PINs, requests) and is used in no run of a liveness property.

**Fairness.**

* `NotificationOutbox`, `WSEventOutbox`: the worker's, the expirer's and the poller's
  tickers fire for ever and a started tick goes on (weak fairness of claiming, of each
  process and of time). Crashes and lost writes are finitely many; provider errors
  are not bounded. A write to a dead peer is not fair; the heartbeat of each
  connection and its deferred `Unregister` are, since each runs in a goroutine of its own.
* `MessageLifecycle`: a handler runs to its end, the expirer ticks, time passes.
* `Dialogs`: the client asks for the next page while there is one.
* `Migrations`: a process that is down is started again and a statement ends (weak);
  whoever waits for the advisory lock gets it although others take it in between
  (strong: PostgreSQL serves waiters in their order).
* `ChatScreen`: a callback whose event has come runs, handlers go on and answer, the
  timer of the socket fires.

Nothing is assumed of the users, of the network or of requests to come. Fairness of a
claim or a removal needs no strong form: a due row stays due until it is taken.

## 4. Where the code and its documents disagree

Two disagreements are `findings`, with a run that shows the whole trace:

* `MigrationsBootstrap`: `store/migrate.go:28` and `:112` say that applied files are skipped by
  the table and that only databases from before the table are taken for old ones; a clean one whose
  first start died between `001_users.sql` and its row (lines 88, 92) is taken for one too.
* `ChatScreenReconnect`: `main.ts:218` ("переподключение через 3 сек...") and
  `docs/api-sprint-8.md:105` promise a reconnection; `doReconnectWS` (line 230) gives up behind the lock.

The others are steps of the models and the named exception, or the weaker form, of a property.
TLC shows each as soon as the document's promise is stated as an invariant:

| code | what it does | document | instead |
| --- | --- | --- | --- |
| `auth_session_repository.go:113-126` | a refresh that has passed its check commits a usable session after a reuse has revoked its family | `docs/api-sprint-3.md:11`, `268-282`: reuse revokes the whole family, a new login is needed | `ReuseEndsBranches` |
| `services/auth/service.go:265` | a refresh that has read its row commits a successor after the logout was answered | `docs/api-sprint-3.md:12`: "`logout` теперь реально завершает сессию на сервере" | `LogoutEndsBranch` |
| `services/chat/service.go:363` | the first read of anybody starts the TTL, so a message expires which its receiver has not read | `docs/api-sprint-4.md:9`, `15`: at the receiver's first read; unread messages are kept | `FullLifetime` |
| `services/chat/service.go:374` | two first reads announce two deadlines, one of which is stored | `docs/api-sprint-4.md:13`: "таймер запускается синхронно у обоих" | `TimersTrue` |
| `expirer.go:72-86` | a tick that fails after the removal loses its events | `docs/api-sprint-4.md:14`: both users are told | `NothingLost` |
| `main.ts:680` | `message_deleted` is handled while the history is on its way; the answer draws the bubble afterwards | `docs/api-sprint-4.md:224`: the bubble is hidden at once | `RemovedLeaves` |
| `api.ts:172` | a rotation under way at the logout stores its tokens afterwards | `docs/sprint-3-checklist.md:97`, `docs/sprint-8-plan.md:160`: logout wipes the storage | `LogoutForgets` |
| `authproxy/middleware.go:50` | the bucket is refilled while it is emptied: nearly twenty logins pass in 60 seconds | `docs/api-sprint-4.md:285`, `442-444`: ten, the eleventh is refused | `WindowBound` |

## 5. What is proved

TLAPS proves, for all values of the constants that satisfy the assumption of the
module:

| module | theorems |
| --- | --- |
| `NotificationOutboxProofs` | `TypeCorrect`, `RoundsComplete`, `LeasesExclude`, `QueueImplementsDelivery` |
| `AuthSessionsProofs` | `TypeCorrect`, `FamiliesBound`, `OverFinal`, `OneLive`, `ReuseEnds`, `LogoutEnds`, `TableImplementsChain` |
| `MessageLifecycleProofs` | `TypeCorrect`, `RemovalClaimedOnce`, `NewMessageArrives`, `DeadlineStands`, `LifetimeKept`, `TimersToldTrue`, `BadgesToldTrue`, `LifecycleImplementsLife` |
| `WSEventOutboxProofs` | `TypeCorrect`, `EventsAreOnce`, `OrderKept`, `NoneLost`, `SendReachesOpen`, `OutboxImplementsPromise` |
| `StoreProofs` (dialogs) | `TypeCorrect`, `OneHistory`, `WalkComplete` |
| `StoreProofs` (migrations) | `MigrateTypeCorrect`, `NoneTwice`, `CompleteUnlessTorn`, `UpOverWholeSchema` |
| `RateLimiterProofs` | `TypeCorrect`, `LoginsBounded`, `RetryAfterHolds`, `LimiterImplementsBucket` |
| `ChatScreenProofs` | `TypeCorrect`, `HistoryIsOfOpenChat`, `NothingMarkedBehindLock`, `ShownAreRead`, `OneBubbleEach`, `RemovedOnesLeave`, `TimersKeepRunning` |
| `MobileSessionProofs` | `TypeCorrect`, `TokensOnce`, `StaysReadable`, `LogoutFinal`, `ThrownOut` |

Assumptions are the named `ASSUME`s of the modules: the shapes of the constants
and the sentinels being no ids. Five say more. `LifecycleAssumption` has finitely many
messages, since a badge counts them. `LimiterAssumption` has the clean-up time longer than
a refill and a stalled request. `MigrationsAssumption` has the cutoff of the bootstrap
behind the first file and not behind the last. `OutboxAssumption` of `WSEventOutbox` has the two users of a
dialog differ, which `migrations/002_dialogs.sql:6` enforces. `SessionAssumption` has a fresh salt for
any four in use, which is what 16 random bytes give.
`QueueImplementsDelivery` and `LeasesExclude` need
`Prompt`, as leases do: without it a worker's late push can follow another
worker's `MarkSent`. Nothing is assumed of who presents a token, or when.

The arguments:

* *Leases.* The property is inductive once it also says how a worker's local
  variables fit together (`cur` in `batch`, `left` positive exactly while it works).
  The key step is `ClaimBatch`: a due row has `wait <= 0`, a held one has
  `wait = left > 0`.
* *Rounds.* `listed \ todo` of a worker without an error has been reached or is
  gone, in every state of the loop.
* *Families.* `FamilyBound` needs that a request about to rotate has passed
  `DeviceAccepted` for its session, and that columns never change.
* *Over.* Only `RotateSession` creates live rows in an existing family, and its
  request has been under way since before; `BeginRefresh` cannot start one from a
  revoked row.
* *Branches.* A branch lies in one family (`BranchShape`). A rotation that is not late revokes
  the one usable row of its branch in the same transaction that inserts the next; a late one, like
  a login, begins a branch with a new id, to which nothing else belongs. So each branch has
  one usable row at most, and a branch that a reuse or a logout has ended gets none: whoever would go on
  there has found its row revoked. The chain needs no more than that a request took its turn on
  a usable session.
* *A message.* `Handling` says what a request holds at each of its statements.
  `ReadFirst`: a deadline exists only for a message with a receipt, and lies the TTL after
  it at least, also in the hands of a request that has not stored it yet; whichever reader is
  first, the UPDATE's `WHERE expires_at IS NULL` keeps one, and nobody moves it. What a request is
  about to announce is the stored deadline, or it has found one set (`Timing`). A badge that is wrong
  has a request behind it that will tell the right one (`Badging`), unless that one was
  outdated when sent; and while only receivers read, what expires is not in their count. For
  the refinement the reading time of a
  request must not be ahead of the clock (`NotAhead`), or a deadline could be too late.
* *An event.* It waits with one expirer, as one row, or is processed (`Once`): two ticks remove
  different rows. The batch is always the head of the queue (`Claim`), since rows are inserted
  behind it and taken out by nobody else; so whatever has been handed over is such a head, or is
  processed (`Handed`), and a failed mark or a restart only hands it over again. Taking the
  marked rows out is the one step that renumbers the queue: `Without` keeps the rows and their
  order (`Nth` counts what stays before a place). The promise needs also that a message's first
  event is ahead of its second wherever they are (`InOrder`), and that what was lost is nowhere
  else (`Lost`).
* *A Send.* Whom it has passed in its copied list and who is still open has got the event
  (`Told`); a connection is never opened again, so those that come later are not in the list.
* *Dialogs.* A user was given the row of the ordered pair (`Opened`), and both orders
  are one pair. During a walk a message that was there is listed, removed, skipped, or
  older than the cursor (`Walked`): each page takes the newest of those, and the cut
  moves the cursor back by less than a second.
* *Limiter.* For each earlier login, what has passed since and what the bucket still holds
  is no more than the burst and the refill (`Budget`). The clean-up is harmless because
  an entry it forgets is full by then (`Fresh`: a bucket was used no later than
  `Stall` after it was seen). Retry-After: the tokens still missing for a login are
  refilled by the promised time (`Promised`), whole seconds being rounded up. For the
  refinement, neither making nor forgetting an entry changes what the next login would find.
* *Migrations.* Who is past the lock holds it (`Serial`), so statements of two
  processes do not interleave; `InStep` says how far the one at work is; `Sound`, that
  recorded files have been applied while no start is torn. Until the first row the database is
  as it was found (`Untouched`), so a torn start leaves file 1 alone; from then on the files
  recorded by mistake stand in the way of a later one that wants their tables (`Gap`), which fails
  at every start. `UpOverWholeSchema` assumes that there is such a file for each (`EachIsNeeded`);
  TLC evaluates this for the twelve files of the repository (`MCMigrations`).
* *The open chat.* `ScreenInv` makes the screen, the lock and the open dialog agree;
  by `LoadsInv` an answer has only rows of the dialog it was asked for: one that is
  not stale belongs to the open dialog. No step marks behind the lock, since each asks `locked` first.
* *Shown and read.* `MarkInv`: what the list shows unread is asked for, pending, or its call has failed;
  nothing is pending with no dialog open, and something flushes it: the return to
  the app, the unlock, or a request that carries the flush. When the user looks,
  all three are over.
* *Bubbles.* The news of a message is told once, and not before it is stored (`Told`). While
  it is to come, or an answer is, the message is not on the list (`Drawn`); so whichever of
  the two draws the bubble is the first, unless they crossed, and `crossed` has it.
* *Removed and timed.* An event is `Silent` when what it tells has happened, it is no
  longer on its way and did not cross a request. It becomes silent only by being handled
  or by a new request (`SilentStep`): each way to listen again (the socket opens, the
  app comes back, the lock opens) begins with one. A silent removal leaves
  nothing to see, on the list or in the answer to come (`Gone`), and a silent start leaves a
  timer (`Timed`) that points at the one bubble (`Pointing`).
* *The browser's session.* `Shape` ties the handlers under way to the screen. A logout
  is final because nothing under way holds a token it could write, unless a rotation or a new PIN
  was (`wiped`): a late 401 or unlock finds an empty storage (`Forgotten`). Tokens under way are those of the stored session (`Issued`,
  `Linked`), and the newest token of a family is stored, on its way into the storage, or
  has just been asked for (`Current`): so the client never shows an older one, and
  the server's "no" means that the session is over. `Keyring`: the stored token is open or
  sealed with the PIN that is set, or the handler that changes either is still under way.
* *Refinements.* Each step is shown to be a step of the abstract module or to
  leave its variables unchanged.

Every safety and action property that a run expects to hold, and every refinement, is the
conclusion of a theorem. Only model-checked are the liveness properties (`EventuallySettled`,
`TimedOutIsRemoved`, `QueueDrains`, `WalkEnds`, `ComesUp`): they rest on fairness, hence on
ENABLED, for which TLAPS has no rule here.

## 6. What is not modelled

* Registration, search and profiles: single statements on unique indexes. The list of
  dialogs with its previews: one SELECT.
* Access tokens: signed and parsed by a library, and main-service accepts one until it
  expires. CORS and HTTP decoding keep no state.
* The arithmetic of the backoff: `calcBackoff` (`worker.go:282`) leaves the range of a Duration after
  some thirty attempts, and is called for fewer than `max_attempts`, 5 in every configuration.
* The unlock with biometry of the native build, two tabs of one browser, and the user's own messages on the chat
  screen: see the plan.
* Composition, configuration, logging and metrics, the service worker, the debug page and
  the deployment.

The reason for each is in `PROJECT.json` under `components`.

## 7. Plan

Done: all components that keep state are modelled at least in part, and the safety
properties of all modules are proved. What is left, in order:

1. `ChatScreen`: the user's own messages, whose answers are appended to the list
   that is open by then, and their deletion (`main.ts:634`).
2. `MobileSession`: the unlock of the native build, which rotates without the shared
   promise, a second tab on the same storage, and the composition with `AuthSessions`.
3. The composition of `MessageLifecycle`, `WSEventOutbox` and `NotificationOutbox`, with
   `MessageLife` and `EventDelivery` in the place of the first two.
