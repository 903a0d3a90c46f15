# GeroWallet in TLA+

GeroWallet is a browser-extension wallet (Cardano, with Bitcoin and Midnight
support). A Manifest V3 service worker holds the logged-in wallet; popup, side
panel and dashboard pages show it; IndexedDB and `chrome.storage` keep what must
survive the worker, which the browser may kill at any time. What is hard in it is
not the arithmetic of transactions but the *order of things*: promises that
settle late, stores that no transaction spans, messages a relay repeats. This
directory models that part, checks it with TLC and proves some of it with TLAPS.

Paths below are relative to `src/src/`.

## 1. Inventory

| Component | State it keeps | Operations | Interacts with | Module |
|---|---|---|---|---|
| Secret migration (`chrome/secretMigration.ts`, `chrome/walletBg.ts` 1650-1716) | wallets row and config rows in two IndexedDB databases, a mutex per wallet, WalletBg's copy of the blobs, `storedSecretsCurrent` | upgrade pass at login and at each use of the password; rewrite of a nested root key | password change, login, worker kills | `SecretMigration` |
| Spending-password change (`shared/utils/passwordRotation.ts`, `stores/geroStore.ts`) | the page's copy of the row, the prepared blobs | prepare, write the row, re-encrypt config secrets, reload, refresh the worker | the same two databases, worker message | `SecretMigration` |
| Wallet store persistence (`utils/storePersistence.ts`, `utils/storeCache.ts`, `stores/walletStore.ts`) | memory copy; compact record, bulk cache and private store; dirty sets, fingerprints, legacy values, timer | setters, flush with retry, hydration with migration of an old record | login, logout, loaders, worker kills | `StorePersister` |
| Cross-device signing (`services/crossDevice/crossDeviceSigning.service.ts`) | pending entries, timers, wake state, request machine; replay list and sheets on the approver | requestSignature, issue, wake poll, response, dispose; request, decision | relay, device registry | `CrossDeviceSigning`, `SignatureCalls` |
| Cross-device proving (`services/crossDevice/proveService.ts`) | one job slot, chunks, replay list, rate window | INIT with its gates, chunks, proof, cancel, timeout, dispose | relay, local proof server | `ProveService` |
| Notifications (`services/notify/`) | switch, endpoint, links and queue of deletes on the device; device, target and links on the server | switch, enable, disable, wallet removed, credentials changed, reassert, reconcile, flush | notification server, push service, worker kills | `NotifyLinks` |
| Sync websocket (`services/websocket.service.ts`, `services/sync.service.ts`) | socket, last block, catch-up mode, held batches, tip cache, waits; rows and checkpoint | subscribe, SYNC, complete, check, forced resync, timeout, close | gero-sync, login and logout, `tipMutex`, worker kills | `SyncSocket` |
| Pending flag and transactions loader (`stores/loading.ts`, `db/loaders/walletLoader.ts`) | flag with its generation, backstop, waiting release; passes of the loader | arm, release, backstop, read, pass, logout | the socket's answers, Dexie's live query | `SyncPending` |
| Store messaging (`chrome/storeMessagingBg.ts`, `services/storeMessaging.service.ts`, `stores/geroStore.ts`) | the worker's store, a page's copy, the record in `chrome.storage` | broadcast, snapshot, subscribe, reconnect, hydrate, delayed write | live queries over gero-db, ports, worker kills, pages that come and go | `StoreMessaging` |
| Unlock throttle (`chrome/unlockGuards.ts`) | failure count in memory and session storage | check, count, clear | unlock, spending password | planned |
| Submit router (`chrome/submitRouter.ts`, `chrome/submitApiSettings.ts`) | the wallet's two setting rows, the last result | submit with fallback; save, test, reset of the setting | the user's endpoint, Gero's API, the settings page, worker kills | `SubmitRouter` |
| Wallet manager, message router, dApp connector, auto lock, MPC, Midnight, other loaders, databases, UI | see `PROJECT.json` | | | partly or not modelled |

### What is hard, and what makes each component correct

* **Secrets.** A pass decrypts blobs, derives keys for seconds, then writes. In
  between, a page may change the password. Correct means: the wallets row always
  opens with the password of the last committed change; config secrets follow; no
  writer weakens a format; a mnemonic that does not derive the root key is never
  migrated; "nothing left to do" is only remembered when it is true; the mutex is
  always released.
* **Store persistence.** Three stores, no common transaction, a worker killed at
  any await, setters that run before hydration has answered. Correct means: no
  wallet's data under another wallet's session; the durable session is one that a
  login or logout chose, or none while the record cannot be read; an old record's data
  is somewhere on disk until a setter writes its field or a start that could not read
  the record writes over it; in the end a restart would show what memory shows.
* **Cross-device signing.** A relay that drops, repeats, delays and reorders
  frames, four timers and promises inside one closure. Correct means the promise
  of `SignatureCalls`: one answer per call, "approved" only for a live request of
  this call that a user approved, nothing sent after the answer; every call is
  answered; nothing is left running.
* **Cross-device proving.** One job slot, but a proof cannot be stopped: it outlives
  the job that a cancel or the timer ended, and settles while the next job has the
  slot. Correct means: keys and timer are those of the job in the slot, no result of a
  dead job is sealed, a repeated INIT claims nothing, frames keep their order, and the
  slot is always freed. (A result that was sealed and queued when its job was cancelled
  is still signed and sent: `services/crossDevice/proveService.ts:185-196`, 428.)

* **Notifications.** Every trigger is a list of requests with a kill, a lost answer
  a server that forgets or a storage call that fails between any two. Correct means: the
  device never loses track of a link the server holds, a switched-off browser is not
  subscribed, and device and server agree in the end. The code keeps the first but for
  DELETEs given up on a 4xx and what a failed storage call loses, the second but for a
  registration under way when the switch goes off, the third unless the server refuses
  the protocol.
* **Sync websocket.** Frames are inflated each on its own and handled in any order,
  a catch-up is collected in memory, and what the socket tells the server it has is
  what the server never sends again. Correct means: it has it. A login's wait ends,
  and in the end the wallet has the chain.
* **Pending flag.** Answers, reads and releases are macrotasks that overlap over
  several subscribes, and a pass may clear the table or fail to put its rows. Correct
  means: the flag does not drop before its rows are shown (unless they were cleared or
  could not be put), nor for an older answer, and drops.
* **Store messaging.** A page hears the worker over a port that dies with the worker,
  reads storage beside it, and reads the list back from the database after its own
  writes. Correct means: no unread list of wallets is shown or stored, nothing older than
  what the port has brought is shown (but for a list the page read back itself), the
  record does not go back, and what was lost meanwhile is caught up.
* **Submit router.** Two ways to a node, either of which may take a transaction and
  lose the answer, and a setting that changes while submits run. Correct means: Gero's
  path only where the user allows it; nobody hears of a rejection while a node has the
  transaction; the settings page and the caller hear the same, unless Gero's 2xx held no
  transaction id; a saved header value stays with its origin, unless another page replaced
  it between the check and the write of a save.

All hazards, each at its line and with the properties that would catch it, are in
`PROJECT.json` under `hazards`.

## 2. Plan

Done: (1) `SecretMigration`; (2) `StorePersister`; (3) `SignatureCalls`, refined by
`CrossDeviceSigning`; (4) `ProveService`; (5) `NotifyLinks`; (6) `SyncSocket`;
(7) `SyncPending`, which looks at the flag that `SyncSocket` leaves out; (8)
`StoreMessaging`; (9) `SubmitRouter`. All have a module of proofs: `NotifyLinks` and
`SubmitRouter`, the two whose request may be applied though its answer is lost, share
`ServerRequestsProofs`; the others have one each.

Next, in this order:

10. `UnlockThrottle`: parallel attempts and worker restarts; to check: the number of
    guesses in a period.
11. The stores that register no snapshot, on top of `StoreMessaging`; the agreement
    of `StorePersister`'s record with what pages show.

Abstract specifications worth stating: `SignatureCalls` (done); a `DurableStore`
(a register with sessions that a crash may set back to an earlier write) refined
by `StorePersister`; a `PasswordChange` (row and config follow one password)
refined by `SecretMigration`.

Every safety property the passing runs check is a theorem, but `NoOrphan`: it holds for
one operation at a time only, which the code does not ensure, so it stays a statement of
its run. Theorems planned: the two abstract specifications above, once they are stated,
each step of the code as a step of them or a stutter.

## 3. The modules and the code

One action is the code between two awaits; a commit of a storage write is one
step with the callback that follows it where nothing can interleave that matters
(said in the module). Timers, kills and frames are steps that may come at any
time. Names follow the code where TLA+ allows it; `PROJECT.json` maps every
definition to its lines. A definition called `XMutant` is a plausible bug of `X`,
kept next to it, that nothing uses: replacing `X` by it shows that a property
would notice.

### SecretMigration

`db` is the content of both databases: for each field its stored format and the
password that opens it. `task` holds the passes: their program counter and the
exact blobs (format) they expect to replace. `lock` is `lockFor(walletId)`. `mem`
is WalletBg's copy, `page` the page's. `current` is a ghost, the password of the
last committed change; `orphaned` a ghost, the config secrets that a change could
not carry along (its second phase is best effort).

| Action | Code |
|---|---|
| `Login`, `UsePassword`, `ReadFlag` | the three places that start a pass, and the flag that decides which |
| `RewriteNestedKey`, `KeepNestedKey` | `migrateEncryptedPrivateKeyFormat`: write, then memory |
| `Enter` ... `CheckConfig`, `Report` | `migrateWalletSecrets` and `upgradeLegacyTextSecrets`: mutex, read and open, equivalence check, plan, swap, read-back, per database; then the caller's bookkeeping |
| `PrepareRow` ... `RefreshWorker` | the password change, await by await |
| `WorkerKilled`, `PageClosed`, `FlipFlag`, `PageRefreshed` | the environment |

Not in it: plaintexts (but for "the mnemonic derives the root key"), salts (two
seals of one plaintext are one blob, so the swap of the model lets through every
swap of the code, and more), Strike keys, child accounts, writers of 2FA secrets,
backup-code lists beyond "a config text", and the logout of WalletBg.

### StorePersister

`mem` is the worker's store, `record`, `cache`, `vault` and `adopted` the three
places on disk, the rest the fields of the persister (`dirty*`, `legacyInline`,
`legacyHeld`, `last*`, the timer and the write in flight). `Flush` and the six
`...Written` / `...Failed` actions are `flush` and its stages; `HydrateRecord` and
`HydrateBulk` are the two halves of `hydrate`; `Login`, `Logout`, `SetLocked`,
`SetAccount`, `SetBulk` are the setters. `Init` is every way a release leaves
storage: nothing, an old record with or without the entries of an interrupted
move, this release's own, and an old record again after a rollback. Three ghosts:
`fate` is what became of an old record's value (still to be kept; superseded by a setter;
written over by a start that could not read the record, "unread"), `chosen` the
sessions a login or logout set, `blind` that this start could not read the record.

Not in it: the pages' copies, `read()` and `hydrateWith`, values that fail to
serialise, content scripts that rewrite the record, loaders of a session that has
ended (they are taken to stop with it).

### SignatureCalls and CrossDeviceSigning

`call` is the closure of one `requestSignature`: answered or not, the device it
names (`to`), the current request, the requests whose signature is awaited, the
re-issues, the wake timers and the registry lookup in flight. `waiting`, `ttl` and
`machine` are the service's maps. `seen`, `sheets` and `shown` are the approver's.
A frame once sent stays on the wire and may be delivered never, late or again, so
loss, repetition, delay and reordering need no action of their own. A
`WAKE_PENDING` may come for any awaited request of a call that names a device,
whether the request arrived or not.

Not in it: signatures and the pinning of devices (they only drop frames), the PAIR
frames, skew between the devices' clocks.

### ProveService

One prover, any number of jobs. `active` is the slot; `held`, `timers`,
`cancelled` and `received` are the fields of each job that outlive a change of the
slot; `runs` holds every `runProof` of a job and the await it is at; `tail` is the
queue of `sendSigned`, `out` what left it. `seen` is the replay list.

| Action | Code |
|---|---|
| `InitArrives`, `HandleInit` | `handleInbound` up to the awaits of the verification, then the gates of `handleInit` and the claim of the slot |
| `HealthAnswers` | the health check, then ACCEPT and "queued", or the end of the job |
| `ReceiveChunk` | `handleChunk`, with the last chunk into `runProof` up to its first await |
| `StartProof`, `ProofSettles`, `ResultSent` | the rest of `runProof`, await by await |
| `SendNext` | one frame of the queue is signed and sent |
| `HandleCancel`, `Timeout`, `Dispose`, `Expire` | cancel, the job's timer, logout or wallet switch, the INIT's time |

Not in it: the refusals sent to the phone (they wait in the queue and nothing waits
for them), the window of the rate limit (a gate that may refuse at any time),
payloads, tags and digests (a check that may fail), and the phone's side.

### NotifyLinks

An operation is the list of the steps it still has to take (`ops`), one step per
request or write, so a kill is the empty list; `Step` runs the head of one and each
step's definition says what the answer makes of the rest. `Thread` is how many operations
run at a time: the code does not exclude any number, the run takes one. `queue` is
`notifyPendingDeletes`, the rest of the device's fields are `notifyDevice` and
`notifyWallets`; `known`, `target`, `links` and `dead` are the server. Every
request may fail, be deferred, be refused, or be done with its answer lost.

`notifyStore.ts:172-188` swallows storage failures, so `EnqueueDelete`, `ForgetWallet`,
`SetEntry`, `SetQueue` and the reads of queue and entries that change what follows may
fail: a write is lost, a read finds nothing, and what is written after it replaces
everything. `dropped` is a ghost: the DELETEs given up on a 4xx (`notifyRegistration.ts:327`: any but
`auth_clock_skew`) and the links whose DELETE or entry a failed storage call has lost.
`unsupported` is `protocolUnsupported`: set by a 426 or by a config that asks for more,
cleared by nothing, and then no reassert begins (`:384`). `late` is a ghost: the operations
under way when another one turned the switch off.

Not in it: failures of `notifyDevice` (taken to be read and written), two storage failures
in one step, the contents of preferences, the client's retries within one request, the
rendering of a push.

### SyncSocket

`tip` and `serve` are gero-sync; `inflating` are the frames sent and not handled, a
set, since each is inflated on its own. `lastSynced`, `catching`, `batches`,
`tipCache` are the fields of `WebSocketService`; `waits` and `current` the calls of
`waitForSync` and the one whose `resolve` is kept. `applying` is the queue of
`tipMutex`, whose head writes rows and checkpoint in either order. `clean` is a
ghost: no kill, logout or resync came while a frame or an apply was under way.

| Action | Code |
|---|---|
| `Open`, `Drop`, `Handle` | connect and reconnect, close, the frame handler with its four kinds of frames |
| `WaitTimeout`, `Resubscribe`, `ResyncDone` | `waitForSync` with its safety timeout, and the resync that awaits it |
| `WriteRows`, `WriteCheckpoint` | the two writes of `setSync` |
| `Login`, `Restored`, `Logout`, `Resync`, `ClearRow`, `ClearTxs`, `WorkerKilled` | the wallet manager and the browser |

Not in it: rollbacks, failed writes, the timeout of the mutex, agent and swap frames.
Breaks and resyncs do not meet in one behaviour (`MayBreak`, `MayResync`): together
they lose rows in the way section 6 tells of.

### SyncPending

`gen` is the arm made last, `timer` the one whose backstop runs, `settle` a release
that waits for the loader. `answers` and `applying` are the frames and applies of an
arm, `tasks` the macrotasks queued. `committed` counts the commits, `stored` is what the
table holds (0 when it was cleared), `old` that rows of an older release are among it.
`passes[0]` is the loader's latest pass, the others the superseded ones that still run, and
`loadingTxs` is the store's flag. `due` and `lost` are ghosts: the rows a waiting release
stands for, and the newest of those that were cleared or that no pass could put.

| Action | Code |
|---|---|
| `Arm`, `Release`, `Clear`, `SetLoadingTxs` | the loading store |
| `OnOpen`, `Resubscribe`, `OnClose`, `Answered`, `GiveUp`, `Backstop` | the socket and its timers |
| `Expand`, `Commit`, `Applied`, `RealtimeRows`, `RunRelease`, `RunRead` | an answer under `tipMutex`, its commit, and the two macrotasks |
| `Load`, `ReadFails`, `PutRows`, `PassEnds` | a pass: its read, `setTransactions`, the catch that empties the store, the `finally` |
| `FindOldFormat`, `ClearTable`, `TriggerResync` | `detectAndHandleOldTransactionFormat`: the clear, the resync it awaits, and the early return after it |
| `Resync`, `Logout` | the user |

### StoreMessaging

A value is the version of the gero-db table it was read from; `Unread` is the
store's default. `mem` is the worker's store, `loaded` the live queries that have
emitted, `view` the page's, `stored` the record; `link`, `toPage`, `asked` are the
port. `Persist` with `WriteLater` is the record's delayed write, `HandleSubscribe`
with `Snapshot` the answer to a subscribe, held until the wallets are read.
`FetchWallets` and `AssignWallets` are the two halves of `setWalletName`,
`setWalletIcon`, `createNewWallet`, `addAccounts`, `updateSpendingPassword` and the like:
after its write the page reads the list back, and shows it an await later. `heard` and
`own` are ghosts: the list the port brought last, and that the list shown is one the page
read back.

Not in it: other stores, the chunks of a message, changes a page or the worker shows
before they are written (`setLocale`, `removeWallet`), `destroy`.

### SubmitRouter

`config` and `auth` are the rows `submitApi` and `submitApiAuth`, the URL reduced to
its origin and the header value to the origin it was typed for; `last` is
`submitApiLastResult`. `submits` says of each submit where it is, which setting
it read and what answers it has had; `told` is what its caller got. `landed` is a ghost, the
transactions some node has taken; `request` the one last made to an endpoint.

| Action | Code |
|---|---|
| `WithoutWallet`, `Read`, `ReadFails`, `Malformed` | `submitCardanoTx` up to its first request |
| `PostToEndpoint`, `DefaultSubmit` | the two requests, each with every answer it may get or lose |
| `RecordLastResult` | the write of the last result and the return to the caller |
| `CheckSave`, `SaveSubmitApi`, `SaveFails`, `DropLastResult` | `saveSubmitApi` await by await: the check against the rows, their write, the last result |
| `ResetSubmitApi`, `TestSubmitApi` | the other handlers of the settings page |
| `RouterKilled` | the browser |

An outcome is the class its message belongs to (`CustomTold`, `FallbackTold`):
rejected by the node, refused, unknown, not sent. A 2xx of Gero's whose body is no
transaction id ("odd") is a success to the router; `Heard` says what callers make of it:
WalletBg and the CIP-30 handler report a failure ("unexpected"), WalletConnect hands the
body on ("relayed"). That only a 400 is a node's word, and that any other 4xx but 408 comes
before any node, is assumed of the endpoints, as the router does. A dialog is disabled
while its own request runs, but every extension page may have one open: `saving` is the
save or reset of each page, and between the check of a save and its write another page's
may come. `mixed` is a ghost: the values kept by a save whose check saw another one. The
two rows are read in one turn. `RouterInit`, `RouterNext` and `RouterSpec` are what other modules
call `Init`, `Next` and `Spec`: the module of proofs extends this module and
`NotifyLinks`.

Not in it: the pending row a caller writes after a success, a second submit of the
same transaction, other wallets, a browser restart that empties `chrome.storage.session`.

## 4. Runs

| Run | Instance | Shows |
|---|---|---|
| `secret_passes` | 2 passes, 2 passwords, key and mnemonic, flag flips, kills | `RowOpensWithCurrentPassword`, `EquivalenceGate` over all interleavings of two passes, a change and kills |
| `secret_upgrade` | 1 pass, one config secret, every root format | `ConfigFollowsPassword`, `ClaimIsTrue`, `NoDowngrade`, and `PassesEnd` under fairness |
| `secret_nested` | root key in the legacy nested format | violation: the unconditional rewrite lands after a change (lockout of the signing key) |
| `store_hydration` | 2 wallets, 1 bulk field, 2 setter calls, 1 kill, reads may fail | the safety properties of section 1 |
| `store_settles` | the same without failing reads, with fairness | everything settles on disk |
| `prove_service` | 2 jobs, payloads of 2 chunks, up to 2 proofs a job | the properties of section 1: nothing of a dead job is sealed, the slot is freed |
| `xdev_signing` | 1 call, targeted or broadcast; 2 devices; 2 re-issues | refinement of `SignatureCalls`, no leftovers, every call answered |
| `sync_socket` | 2 blocks, 2 frames under way, 1 break or 1 resync, any history | `BelievedIsKept`; a restore ends; the wallet ends up with the chain |
| `sync_pending` | 2 subscribes, 1 commit, rows of an older release or none, resyncs, 1 superseded pass | `SomeoneReleases`, `RowsShown`, `ArmOutlives`, and the flag drops |
| `notify_links` | 2 wallets, 1 operation at a time, 4 of the user, reasserts, 2 faults (kills, requests, storage, server, browser) | `NoOrphan`, `OptedOut`; the queue drains; device and server agree in the end |
| `submit_router` | 2 submits, 1 origin, 2 pages, 2 saves or resets, any row at the start | `GeroOnlyIfAllowed`, `RejectedMeansRejected`, `LastResultTrue` |
| `store_messaging` | 1 write to each table, 2 faults, the page opened once, 1 attempt to reconnect, 1 list read back at a time, a record at the start or none | no unread list, nothing older than what the port brought, no older record; both catch up |

The type invariants are theorems (section 5) and take no run: the runs spend their
properties on the rest.

**Why the bounds are enough.** Two passes and one change are the least that can
race for the row; passwords may return to the first, which is why two suffice for
a chain of changes. One text of the row and one config secret stand for all of
their kind: the code treats the fields of a database in one transaction. In
`StorePersister` two wallets distinguish "mine" from "another's"; the setter bound
of two lets a change meet a write and a hydration in flight; one kill between any
two steps is followed by a full hydration. In `CrossDeviceSigning` two re-issues
are the least at which two `issue()` overlap and the cap is still reached (the
code's cap is 3); calls share no state but the service's life, so one call is
enough; only the second device restarts (`Restarting`), to keep the run short.
In `ProveService` two jobs are the least at which a proof outlives its job and
meets the next; two chunks distinguish a payload that is under way from a complete
one; `MaxRuns` lets a job's proof start twice, which is once more than it should.
In `SyncSocket` two blocks are the least that can be handled out of order, and two
frames under way the least that can overtake; every history the disk may hold is a
start. In `SyncPending` two arms are the least of which one is older, and one
superseded pass the least that can free the wrong release; one commit makes rows that a
release may miss, and clearing the table older rows that may return. In `NotifyLinks` two
wallets tell the last registered one from another, two faults let a half-done
request meet a kill or a failed write, and the four operations include every order of
switch, enable, disable and removal. In `StoreMessaging` one write makes an older and a
newer list; two faults take the port and fail the one reconnect, so the page that has given
up is reached; a page that is opened starts from its defaults whatever came before, so one
opening with or without a record stands for a later one. In
`SubmitRouter` a submit meets another one only in the last result, and a setting only
when it reads: two submits and two changes put every pair in every order, and two pages
put one save between the check and the write of another. One origin is enough for what the
run checks; that a value stays with its origin is proved for any number.

**Fairness.** `SecretMigration`: promises settle (weak fairness of a pass's steps)
and `async-mutex` serves waiters in order (strong fairness of `Enter`: a waiter is
not passed over for ever). `StorePersister`: reads, timers and flushes happen
(weak); a write that is retried for ever succeeds in the end (strong), which is
what retry with backoff counts on. `CrossDeviceSigning`: timers fire and the
awaits of the requester settle (weak); no frame, user or device has to do
anything. `ProveService`: the timer of the job in the slot fires (weak); the
relay, the phone and the proof server may do nothing. `SyncSocket`: the reconnect
timer, gero-sync while the socket lasts, inflaters, database, safety timeout and the
awaits that follow (weak); no keep-alive, break or resync has to come.
`SyncPending`: timers, macrotasks and the database (weak), nothing of gero-sync.
`NotifyLinks`: the steps of an operation and the alarm that reasserts (weak), and
strong fairness of `Resend`, since a request that is retried at every alarm is
answered some day. `StoreMessaging`: timers, ports and live queries (weak); the
worker is started again only for a page that connects, as Chrome does.

## 5. Proofs

The theorems hold for every value of the constants under the named assumptions of
the modules (`PhoneAssumption`, `ReissuesAssumption`, `SlotAssumption`, ...), which
the runs evaluate.

**`SecretMigrationProofs`**: `TypeCorrect`; `NoLockout`: the wallets row opens with
the password of the last committed change; `ConfigFollows`: the config secrets follow.
`RowOpensWithCurrentPassword` is not inductive alone. The invariant `LockoutInv`
adds `ConfigFollowsPassword`; the types with what the program counters say of a
pass (`TypeInv`); and `NeverNested`, that no root key is handled as a nested one.
The last needs the theorem's assumption that no root key starts in the legacy
format, and `secret_nested` shows that without it the theorem is false. The step
that matters is the swap (`SwapKeepsPasswords`): what it writes is sealed under the
password that opened the blob it expects, and it writes only where that blob still
is.

`GateHolds` is about `EquivalenceGate` and holds however the flag moves: a pass that
would seal gpw2 is past the check of the key only where the check passed (`Verified`).

`FormatsOnlyRise` (of `NoDowngrade`) and `ClaimsHold` (of `ClaimIsTrue`) assume
`FlagFlips = FALSE`, as the properties do: a pass or a password change that began under
the other value of the flag finishes in the format it began with, so both are statements
about a wallet under a flag that stands, at either value. Their invariant `FlagStands`
says that a pass obeys the flag, that nothing a change is about to store is weak, and,
where the flag is off, that every copy (WalletBg's, the page's, what a pass expects)
agrees with the database about which fields are gpw2, as none becomes one. `ClaimsHold`
has to follow the fields that are still weak. A password change can open such a field
again, so `FirstChange` says that one which no change carried along belongs to a wallet
whose change never completed; and `Covers` says, by where a pass is, that what it planned
covers all that is open, which makes its report true when it comes.

**`StorePersisterProofs`**: `TypeCorrect`, `BulkIsOwn`, `NewestKept`, `SessionStands`,
`LegacySafe`. All four properties compare two places (the store and its session, storage
and what a start would read), and a value passes through several in between, so each
invariant names them all.

* `BulkInv`, for the first two: every value in the store, the held ones, the record, the
  cache, a write in flight and a hydration that is reading belongs to the session that
  place names and is no newer than the setter calls so far (`BulkTame`); before the record
  is read nothing is written, and the store has only defaults and what setters wrote,
  which the hydration knows of (`Reading`, `Unfilled`).
* `SessionInv`, for the session: what may reach storage as the session is one a setter
  chose, the one storage has, or the default of a start that could not read the record
  (`Allowed`, `Fit`), which needs that a write in flight carries the store's session unless
  a setter replaced it (`InFlight`), and that the marker of adoption never comes before the
  session itself (`Taking`, `Queued`).
* `KeptInv`, for the old record's values. What the persister believes to be in IndexedDB is
  there (`Mirror`). While a value is to be kept, there are three cases: the session is the
  record's, and the value is in IndexedDB, or still inline and in any record being written,
  or both (`Carried`); a start that could not read the record has nothing of it and leaves
  it where it is (`Left`); or it is in IndexedDB only (`Cached`). `Apart`, `Quiet` and
  `DiskSession` say when a step can go from one case to another.

The theorems let any read and write fail, in any order with setters and kills. What they
do not say is that a login of the same wallet leaves an old record's value alone, or that
a start which could not read the record leaves the session alone: the code does neither
(section 6).

**`CrossDeviceSigningProofs`**: `TypeCorrect`, `NothingLeft`, `CallsPending`,
`Surfaced` and `ImplementsPromise`, the refinement of `SignatureCalls`. The
invariant adds to the checked ones: entries and timers belong to the current
request of their call, and awaited requests were sent (`OnlyCurrent`); a request
being signed has a number no sent request has, which is what makes an overlapping
re-issue harmless (`Numbered`); sheets show requests that were sent (`SheetsSent`);
what a device surfaced it remembers or it has expired (`Remembered`). `OneCall`
carries the proof: a step that changes one call keeps the invariant if it obeys six
conditions, and every step of the requester but `Signed` and `Dispose` is one.

**`ProveServiceProofs`**: `TypeCorrect`, `KeysCorrect`, `ClaimsCorrect`,
`SealsCorrect`, `FramesCorrect`. `KeysOfActiveOnly` is inductive because `endJob`
compares the job with the slot (`EndJobStep`); `ClaimedOnce` needs that a claimed INIT
stays listed until it expires (`Listed`); `SealedByLiveJob` follows from the guard after
`deps.prove` and `KeysOfActiveOnly`. `FramesInOrder` is about the queue that signs one
frame after the other, and so is its invariant: a job that waits for its health check
has nothing running, queued or sent (`Waiting`); nothing of a proof is queued before
ACCEPT has gone out (`Accepted`); and a "queued" still to go has no "proving" of its job
before it (`QueuedFirst`).

**`SyncSocketProofs`**: `TypeCorrect` and `Believed`. `BelievedIsKept` speaks of
`lastSyncedBlock` alone; what becomes it later must be covered as well, and that is
the invariant `Claims`: every block below what gero-sync has sent, below the block
of a frame being inflated, and, before any resync, below the checkpoint and every
checkpoint queued, is written, queued, held or being inflated. `Quiet` says what a
break finds: nothing is held back before a resync, and nobody is logged out with a
frame under way unless something was cut short. `HandleClaims` is the step that
matters: whatever a handled frame brought is kept somewhere else afterwards.

**`SyncPendingProofs`**: `TypeCorrect`, `Releases` and `ArmsOutlive`, from the
invariant that every token about names an arm that was made (`Tokens`) and that only
the latest pass holds `loadingTxs` (`RaisedByLatest`); and `RowsFirst`, from `RowsInv`.
There `Coming` and `Top` are the argument: a commit the store has not caught up with has
its read queued, ahead of the release of the answer that made it, and macrotasks run first
in, first out; so a release that finds no pass running finds its rows shown, and one that
waits for a pass waits for one that read them. Rows that were cleared, or that a pass could
not put or took back, count as caught up with (`lost`), as in the property; the flag may
drop without them (`DropsWithRows`, section 6).

**`StoreMessagingProofs`**: `TypeCorrect`, `ListKnown`, `PageKept`, `RecordKept`. The
invariant orders the versions: no copy of the list is newer than gero-db (`BehindDb`)
nor, once a worker has read it, than the worker's (`BehindMem`); the messages on a
port do not go back, nor behind what it has brought (`heard`); what the page shows once the
port has brought a list is that one or one it read back itself (`Shown`); and only a worker
that has read the list writes the record (`Hydrated`).

**`ServerRequestsProofs`**, first part: `LinksTyped` and `StaysOptedOut` (of `OptedOut`), the
theorems about `NotifyLinks`, for any number of operations at a time. An operation reads
the switch once and plans its steps from it, so `OptedOut` is not inductive without a word
about what is still to do. That is `SwitchInv`, with `Heeds` for each operation: a step that
needs the switch (`NeedsOn`) is planned only while the switch is on or by an operation in
`late`, and none follows a step that may turn it off (`Switches`). `Heir` carries the proof:
what replaces a step needs the switch no more than the step did. There is one lemma for each
kind of step.

**`ServerRequestsProofs`**, second part, about `SubmitRouter`: `RouterTyped`,
`FailsClosed`, `Rejections`, `ResultsTrue`, `KeysStay` (of `KeyStaysWithOrigin`, which no
run repeats). The invariant says of each submit, by where it is, what its answers allow:
before a request its transaction is nowhere, in the fallback it is nowhere unless the
endpoint's failure left that open, and before the record what it will say is true
(`Sound`), to every caller it may have (`Says`); a result is recorded only by a submit that
is over (`Recorded`); the saved value, and one that a save under way would keep, is of the
origin it goes with, or is in `mixed` (`Own`, `OwnKey`). A step of one submit leaves the others as they
are (`OthersKept`).

Only model-checked: all liveness, since fairness and `ENABLED` are out of the prover's
reach; `NoOrphan`, for one operation at a time; and the run that shows a finding. No module uses a recursive operator; what a
fold or a recursive function computes for every input could not be proved here, since
induction over data needs theorems with operator parameters.

## 6. Findings and disagreements

One has a run, and its lines quoted in `PROJECT.json`.

`secret_nested`: the nested-key rewrite is outside the mutex and not a
compare-and-swap: a password change that commits meanwhile is undone for the root key.

### Disagreements

The rest are properties defined in the modules, marked "Not kept", that no run
checks. TLC refutes each when it takes the place of the properties of the cfg named.

| Property | cfg | What the code does |
|---|---|---|
| `SecretMigration!MemNeverReverts` | `MCSecretUpgrade` | a pass that finishes after a change puts WalletBg's copy back under the old password (`chrome/walletBg.ts:1689`) |
| `StorePersister!RecordNamesOnlyKnown` | `MCStorePersister` | the compact record may name a session the private store does not know, against the comment above the trusted write (`utils/storePersistence.ts:362`) |
| `StorePersister!HeldOverLogin` | `MCStorePersister` | a login of the session's own wallet drops the old record's held values, although the comments promise that they outlive `clearForWalletSwitch` (`:164-168`, 289-290, 545-548): the broadcast that follows it marks every field dirty, and `markDirty` deletes them (`:225`) |
| `StorePersister!SessionAlwaysChosen` | `MCStorePersister` | flush waits for the read of the record, not for one that succeeds: after a failed one the default session may be written with the marker of adoption (`:443-449`) |
| `ProveService!ProvedOnce` | `MCProveService` | chunks repeated after the last one start the proof again (`services/crossDevice/proveService.ts:380`) |
| `ProveService!WipedOnDispose` | `MCProveService` | an INIT verified across a logout claims the slot after it and keeps keys until its timer (`:474`) |
| `CrossDeviceSigning!ShownStaysAwaited` | `MCCrossDevice` | a `WAKE_PENDING` for the request on the approver's screen does more than extend the wait (`services/crossDevice/crossDeviceSigning.service.ts:316`) |
| `NotifyLinks!NoOrphan` | `MCNotifyLinks` with `Thread = {t1, t2}`, `MaxWallet = 1`, `MaxUi = 2`, `MaxFault = 1` | a reassert that planned a link before the user disabled the wallet puts it after the DELETE: the server has a link that neither the device's entries nor its queue know of, until the next reconcile saves it (`services/notify/notifyRegistration.ts:219`) |
| `NotifyLinks!Durable` | `MCNotifyLinks` | a DELETE is lost with a storage failure that the store swallows (`services/notify/notifyStore.ts:172-188`), and given up on any 4xx but `auth_clock_skew` (`services/notify/notifyRegistration.ts:327`) |
| `SyncPending!DropsWithRows` | `MCSyncPending` | the flag drops for an answer whose rows are not shown: a pass clears the table and returns early (`db/loaders/walletLoader.ts:254-256`), or its catch empties the store and the `finally` releases (`:357-363`) |
| `StoreMessaging!ShownNeverOlder` | `MCStoreMessaging` | a snapshot or broadcast posted before takes back the list a page has just read back, and a list read before an await takes back a broadcast (`stores/geroStore.ts:329-331`, 384, 398, 435) |
| `StoreMessaging!ShownCatchesUp` | `MCStoreMessaging` | the latter stays: nothing is broadcast again until the table changes |
| `SyncSocket!HeldOnlyWhileWaiting` | `MCSyncSocket` | a resync answered by SYNC_CHECK_OK ends the wait and leaves `catchingUp` set: later blocks are held and nobody applies them (`services/websocket.service.ts:441`) |
| `SyncSocket!EveryWaitEnds` | `MCSyncSocket` | a resync's `waitForSync` takes over `syncResolve`: the login's wait is never answered, its timeout finds another resolve (`services/websocket.service.ts:652`) |
| `SyncSocket!DuplicateIsHeld` | `MCSyncSocket` | after a resync a block is skipped as a duplicate of one the resync cleared, against the comment at the skip (`:359`) |
| `SyncSocket!HistoryAtLogin` | `MCSyncSocket` | rows and checkpoint are written in parallel: a kill in between leaves a checkpoint for rows that are not there (`services/sync.service.ts:332`) |
| `SubmitRouter!NoFalseFailure` | `MCSubmitRouter` | a 408 is worded "could not send", and so is a fallback answered 429 or 404 after a timeout of the endpoint, against the comment at `chrome/submitRouter.ts:199-202` |
| `SubmitRouter!FreshHistory` | `MCSubmitRouter` | a submit that began before a save records its result after it, against "a changed setting starts a fresh history" (`chrome/submitApiSettings.ts:96`) |
| `SubmitRouter!SameOfOddBody` | `MCSubmitRouter` | a 2xx of Gero's that holds no transaction id is recorded as a success and told to the caller as a failure (`chrome/walletBg.ts:2515-2522`) |
| `SubmitRouter!KeptIsChecked` | `MCSubmitRouter` with `Origins = {oa, ob}` | a kept value may be one another page saved between the check and the write, and then goes to an origin it was not typed for, against "a kept secret cannot follow a typed URL to another host" (`chrome/submitApiSettings.ts:46-48`, 81-95) |

Two more follow from the exceptions the properties name. `protocolUnsupported` is set by a
426 or a config that asks for more and cleared by nothing in `services/notify/`
(`notifyClient.ts:164-166`, 196): a browser that has been updated since stays silent, its
queue with it. And a registration that was under way when the switch went off goes on
(`notifyRegistration.ts:219`, against :13-14), which `OptedOut` leaves to `late`.

Seen in the code and not in a model: the loading store registers no snapshot, so
after a reconnect a page keeps its flags though `stores/loading.ts:72-73` says the
worker re-broadcasts them.

## 7. Not modelled

Transaction building and signing, coin selection, key derivation and ciphers are
computation over libraries; formats, screens, locales and build scripts keep no state
that actors share. They make up most of the repository's lines, which is why the map
covers a small share of them. Message routing, the dApp connector, MPC and Midnight
have control of their own that is not read yet; `UnlockThrottle` is planned.
