# LAN Drop: a TLA+ verification project

LAN Drop is a file and text sharing tool for a local network: a Go HTTP server
with an embedded web client, a Windows desktop shell around the server, mDNS
advertising, and an Android shell that discovers servers. This directory holds
TLA+ modules translated from its source, TLC configurations that check them on
small instances, and TLAPS proofs of what holds for every instance.

Paths below are relative to the repository (`src/`). `upload.go`, `handler.go`,
`config.go` and `ws.go` are in `src/core/server/`.

## 1. Inventory

| Part | State it keeps | Operations | Interacts with | What is hard |
|---|---|---|---|---|
| Lock table of uploads (`upload.go` 135-158) | `uploadLocks`, per object `mu`, `refs` | `lockUpload`, the closure `unlock` | every upload handler | entries are created and deleted while others look them up |
| Upload engine (`upload.go` 160-308, 449-998) | `uploadDirectories`, `cancelledUploads`, `.tmp_<id>` directories, finished files | chunk, complete, cancel, status, the sweeper `CleanupTempChunks` | config (upload directory), storage, hub (announcement) | retries, cancel racing merge, directory switched under way, failing I/O, crash, restart |
| Storage reservations (`upload.go` 310-341) | one counter `reservedStorage` for all volumes, under `storageMu` | `reserveStorage`, its `release` closure | upload engine | sums of concurrent writers on several volumes, overflow |
| File index (`upload.go` 361-447, 1000-1263) | cached listing keyed by directory and mtime | list, search, page, batch delete | upload engine, hub | stale cache, partial failure of a batch |
| Text feed (`config.go`, `handler.go` 334-386) | `TextFeed` in memory, `.landrop_feed.json` in the upload directory | add with save, load, replace on directory switch | hub, upload directory | order of stored against broadcast texts, silent save failures |
| WebSocket hub (`ws.go` 60-287) | `clients`, channels `register`, `unregister`, `broadcast`, each client's `send` | `Run`, `BroadcastJSON`, `Close`, the two pumps | feed, upload engine, web client | full buffers, close against send, shutdown |
| WebSocket framing (`ws.go` 131-140, 289-373) | `writeMu`, the connection | `readWSFrame`, `writeWSFrame` | hub | two pumps write to one connection, each frame in two writes; length encodings at their boundaries |
| Authentication (`config.go` 150-277) | PIN, attempts per address, sessions | `CheckPINAttempt`, `CreateSession`, `ValidSession` | all handlers | concurrent attempts, expiry, limits of both tables |
| mDNS advertiser (`core/discovery`) | socket, responder, `stop` and `done` | `Start`, `run`, `Close` | main, desktop | a goodbye or a late answer of a former advertiser after its successor's announcement; lost packets; waiting for the responder |
| Command-line server (`main.go`) | the advertiser, the HTTP server | start, serve, shut down | advertiser, hub | the order of the steps, any of which may fail |
| Desktop shell (`desktop/`) | settings, chosen adapter, running server | `setAdapter`, `chooseUploadDirectory`, `restartDiscoveryLocked` | config, advertiser | one step of several failing |
| Web client uploads (`webui/assets/app.js`) | a task per file: run token, offsets, state | create, pause, resume, cancel, retry | upload engine | a superseded run continuing after `await` |
| Web client socket and lists (`app.js`) | socket, reconnect timer, list request tokens | connect, message handlers, `loadFiles` | hub, file index | late answers, late events of an old socket |
| Android discovery (`局域网发现.kt`) | queue of services, resolve in flight | `start`, `stop`, `restart`, `resolveNext` | advertiser, activity | a resolve that answers after its timeout |
| Android activity (`MainActivity.kt`) | which screen is shown, whether it is in view | lifecycle callbacks, opening a page, back, refresh | Android discovery | screens change while callbacks of the search are under way |
| QR encoder (`core/qrcode`) | none | `Encode`, `ToSmallTerminalString`, `ToSVG` | desktop, console, web client | capacities of each version, block structure and module placement; the tests decode a few payloads (`qrcode_test.go` 164 and 185), not each version at its boundary |
| Network helpers, consoles, disk probes, routing, download | none of their own | | | no state to interleave |

The parts meet in few places. The desktop shell calls `Config.SetUploadDir`;
every upload handler reads `Config.UploadDir()` once, at its start, and the
upload engine remembers per upload the directory it began in. A handler asks
for storage, then for the mutex of its `file_id`, and announces a finished file
through the hub. The sweeper is a goroutine of its own that uses the same
mutexes. The web client knows the server only through answers that may be lost.

### What makes each part correct

- **Lock table**: one request per `file_id` inside; no waiter stranded on an
  object that left the map; no entry kept for nobody.
- **Upload engine**: an acknowledged chunk stays until its upload ends; what is
  published is whole; a publication replaces no file; cancel and publish have
  one order, and after an answered cancel nothing of the upload is left; an
  upload lives in exactly one directory; the limit on active uploads holds; every
  request is answered; abandoned uploads are swept.
- **Storage**: what is reserved never exceeds what was free above the reserve;
  everything reserved is released.
- **File index**: a listing after a change shows it; pages neither skip nor
  repeat an entry of an unchanged directory.
- **Feed**: memory and file hold the newest texts added to that directory's
  feed; a switch, a crash or a failing file operation never mixes two feeds.
- **Hub**: a client sees the feed and then an unbroken part of the one broadcast
  order; no text of the feed slips between the feed it was shown and its
  registration; a closed channel is never sent on; posters, pumps and handlers
  all come to an end when the hub stops.
- **Authentication**: no more than the allowed failures per address and window;
  a session is valid only between its creation and its expiry.
- **Upload task of the web client**: one run sends at a time and none after a pause
  or a cancellation; a task shown as running has a run that will end it.
- **Socket and file list**: an online page has a connection, or a retry that will
  run; once answers and announcements have arrived the list is the page of what the
  server's index held.
- **Android search**: one resolve at a time, nothing waits for nobody, and what is
  shown belongs to the search that runs.
- **Android activity**: the app searches exactly while its home screen is in view,
  and lists there what the search found (not after the back key: finding 3).
- **Desktop**: after each call the settings are what the server uses and what the file
  has, and links and mDNS name one address (not after an adapter could not be saved:
  finding 2).
- **Advertiser**: a listener that knows a running server keeps knowing it, whatever a
  former advertiser still sends; it learns of it although packets are lost; the
  program that closes it ends.
- **Framing**: the peer reads exactly the frames that were written.
- **QR encoder**: a reader that knows the standard finds the text.

## 2. Plan

| # | Module | Kind | State |
|---|---|---|---|
| 1 | `KeyedMutex`, `UploadLock`, `UploadLock_proofs` | abstract mutex; the table that implements it; proofs | done |
| 2 | `Upload`, `MCUpload`, `Upload_proofs` | the upload engine over the abstract mutex | done; section 9 lists what is proved |
| 2a | `UploadView`, `UploadView_proofs` | one upload as its client knows it, which `Upload` implements; proofs of that, of the bindings and of cancellation | done |
| 3 | `Storage`, `MCServer`, `Server_proofs` | reservations of concurrent writers; the proofs of rows 3, 5, 6 and 7 | done |
| 4 | `Feed`; `Hub` (extends `Feed`), `MCHub`, `Hub_proofs` | text order and persistence; client registry, queues, shutdown; the proofs of both | done |
| 5 | `Auth` | attempts, lockout, sessions | done |
| 6 | `FileIndex` | cache validity under concurrent changes; filters and paging | done |
| 7 | `Advertiser`, `MCBackground` | advertisers that succeed one another; both programs that own them | done |
| 8 | `UploadClient`, `WsClient`, `FileView`, `MCClient`, `WebClient_proofs` | the web client: run tokens and retries, reconnecting, the file list | done |
| 9 | `NsdDiscovery`, `MainActivity`, `Desktop`, `Apps_proofs` | the Android search and the activity that drives it, the desktop program | done |
| 10 | `WSFrame`, `WSFrame_proofs`; `QRCode` | frames under two writers, with proofs; the QR encoder against a reader | done |
| 11 | `DnsName` | the codec of DNS names against a reference definition | planned |

Abstract specifications: `KeyedMutex` for the lock table, `UploadView` for the upload
engine. For the hub the abstract picture is a log of which every client sees a
contiguous part; `ContiguousDelivery` states it directly, with the log as a
history variable.

Theorems: one for every safety invariant and every safety action property of a run but
`Readable`, and the refinements of `KeyedMutex` and `UploadView`; section 9 says which and
from what, and why `Readable` and everything under fairness are left to TLC.

## 3. The lock table: `KeyedMutex`, `UploadLock`

`UploadLock` follows one `lockUpload` call through four actions, cut where the
code releases a mutex: `Ref` (the section under `uploadMu` that finds or makes the
object and counts the request), `Acquire` (`lock.mu.Lock()`), `Release`
(`lock.mu.Unlock()`), `Unref` (the second section under `uploadMu`). `LockObj` is
the set of addresses; an object that neither the map nor a request points at may
be handed out again, as a garbage collector does.

Its constants are `Caller`, `LockID`, `LockObj` and `Null`, its actions and type
invariant `LockInit`, `LockNext`, `LockTypeOK`: names of its own, because the run
`background` checks it beside two other components (`MCBackground`).

`KeyedMutex` is what the callers rely on. `Place` maps a request to outside,
waiting or inside; `Release` is the step that leaves the abstract mutex, `Unref`
stutters. TLC checks `ImplementsKeyedMutex`, and `UploadLock_proofs` proves it.

## 4. The upload engine: `Upload`

### State

| Variable | Code |
|---|---|
| `uploadDir` | `Config.uploadDir` |
| `uploadDirectories` | the map of that name, `None` for an absent key |
| `cancelledUploads` | the tombstone map as a sequence ordered by expiry |
| `lock` | holder of the mutex of each `file_id` (the abstract mutex of section 3) |
| `uploadMu`, `uploadStateMu` | holders of the mutexes across the steps that other goroutines can fall between |
| `temp[d][id]` | directory `d/.tmp_<id>`: metadata file, chunk files, `.merged.part`, and whether its modification time is older than the sweeper's cutoff |
| `files[d]` | finished files: `key` is a name with the number of its ` (n)` suffix |
| `pc`, `req` | the goroutines serving requests, their position and locals |
| `acked`, `cancelAck`, `stale`, `spent`, `pubs` | history variables for the properties |

### Actions

A request of each handler is one goroutine that runs through

- **chunk** (449-690): `BeginChunk`, `LockUpload`, `AdmitChunk` (tombstone,
  binding, stored metadata), `ReserveChunk`, and for the first chunk `CountActive`,
  `MakeTemp`, `WriteMeta`, then `StoreChunk`, and on failure of a first chunk
  `Undo`, `Forget`; `Reply`.
- **complete** (783-969): `BeginComplete`, `LockUpload`, `AdmitComplete` (every
  chunk present, aggregate size), `CreatePart`, `MergeChunk` per chunk, `Seal`, the
  three steps of `publishUploadFile` under `uploadMu` (`TakeUploadMu` with the tombstone
  check, `PickName` once per turn of the loop in `getUniqueFilePath`, `PublishFile`),
  `Clean`, `Forget`, `Reply`; each failure ends in `AbortMerge`.
- **cancel** (752-781): `BeginCancel`, `Mark` (before the mutex), `LockUpload`,
  `AdmitCancel`, `Forget`, `Reply`.
- **sweep** (971-998): `BeginSweep` (the listing), `LockUpload`, `AdmitSweep`
  (age looked at again), `Forget`, `Reply`.

The world acts too: `SetUploadDir`, `ExpireTombstone`, `Age`, `DeleteFile`, `Crash`
(memory lost, disk kept, restart in any directory). The constant `Hazard` says
which of them, and which file operations' failures, an instance has: `"removal"` for
the removal of a whole directory, `"fault"` for every other operation that changes the
disk or asks for its free space, `"read"` for those that look (`Stat`, `ReadDir`, the
reading of metadata). Two of the latter matter. Metadata that cannot be read turn a
chunk request away after it has bound its upload and before the rollback is deferred
(`upload.go` 544-559), so the binding stays; and a `Stat` that fails for another reason
than a missing file makes `getUniqueFilePath` pass the name over.

### Abstractions

- A section under `uploadMu` is one action. `publishUploadFile` is not, because
  the point of holding `uploadMu` there is that nothing can happen in between.
  `finalizeMu` is only taken inside it, and is folded into `uploadMu`.
- Actions that only touch the upload's own directory, under its mutex, are cut
  where a crash or an error can leave a different state on disk.
- A chunk is a member of `Data`: a size and a tag for its bytes. `sameFile`-like
  comparisons of content compare the member.
- Time is its order: a tombstone expires oldest first; a directory becomes `old`
  at some moment after its last write and every write makes it young.
- An interrupted `os.RemoveAll` (`"removal"`) leaves any subset of the directory's
  files, or the directory untouched with its old modification time.
- Storage may refuse at any time (`"fault"`); the accounting itself is
  `Storage`.
- `Marked` drops expired tombstones only by `ExpireTombstone`; an expired one
  that is still in the map counts nowhere else.
- The visit of one upload by the sweeper is a request of its own. The code makes
  the visits of a sweep one after the other; the model allows them to overlap,
  which only adds behaviours.
- Validation of form fields (lengths, characters, ranges) is left out: `Meta`,
  `FileID` and indices are what passes it.

### What a client relies on: `UploadView`

`UploadView` knows no requests, mutexes or directories: an upload is opened by its
first chunk, gets chunks that are never replaced, and ends by `Publish`, or by
`Discard` while a cancellation is under way or once it is old. A tombstone keeps it
from being published, an answered cancellation from being opened.
`MCUpload` maps `Upload` to it. An upload is a directory with metadata and a chunk
that was not published yet; most handler steps stutter, `PublishFile` is `Publish`,
and the removal behind it is not seen. One property, `ImplementsUploadView`, thereby
covers publishing once, publishing whole, cancelling for good, one upload per
`file_id` and the sweeper's restraint. It holds without crashes and failing removals,
with which a directory may survive its publication.

## 5. The text feed and the hub: `Feed`, `Hub`

### The feed

| Variable | Code |
|---|---|
| `uploadDir`, `feedPath`, `TextFeed` | the fields of `Config` of those names; a path is represented by its directory |
| `stored[d]` | `.landrop_feed.json` of directory `d`, `None` when absent |
| `switching` | the directory of a `SetUploadDir` that is between its two critical sections |
| `added[d]` | history: every text added to the feed of `d` |
| `damaged` | history: directories whose feed was once not saved or not read |

`AddTextMessage` is one action with its save, for `Config.mu` covers both.
`SetUploadDir` is two (`SwitchDir`, `SwitchFeed`), since it releases `runtimeMu`
before it takes `mu`; only the desktop's UI calls it, so two calls do not
overlap. A save is a temporary file and a rename: it takes place or it does not
(`"fault"`), silently either way. `Restart` is the server dying, possibly between
the rename and the answer, and starting in any directory.

### The hub

`Hub` extends `Feed` and adds one step per channel operation.

| Variable | Code |
|---|---|
| `hub`, `newcomer` | where the goroutine `Run` is, and its local `client` while it sends the feed |
| `clients`, `broadcast`, `done` | the registry and the channels of `WSHub` |
| `send[c]`, `closed[c]` | the buffer and the flag of a `WSClient`; `closed` stands for the closed channel and the closed connection |
| `serving[c]` | `ServeWebSocket`: about to register, registered, refused, served |
| `pump[c][k]` | the read and the write pump: running, on the way to `unregisterClient`, ended |
| `posting[g]` | the text a poster has stored in the feed and not yet handed to the hub |
| `log`, `since`, `shown`, `got`, `informed` | history: texts in broadcast order, and per client its start in it, the feed it was shown, the frames written to it; the clients shown the feed since the last switch |

- **Connecting**: `Connect`, then `TakeRegister` (Run's case of `register`) or
  `Refuse` (`done`), `SendInit` (Run reads the feed after registering the
  client), `StartPumps`.
- **Posting** (`handleSendText`, and the text frames of `readPump`): `Store`, then
  `Enqueue` or `Abandon`, the two cases of `BroadcastJSON`.
- **Run**: `TakeDone`, `TakeRegister`, `TakeUnregister`, `TakeBroadcast`. A client
  whose buffer is full is deleted and closed in the same step (`Stuck`).
- **Pumps**: `Write`, `PumpEnds` (peer gone, deadline, or closed by the hub),
  `Depart` or Run's `TakeUnregister`.
- `Shutdown`; and `SwitchFeedDir`, the feed being replaced under the hub.

Abstractions: the registry's `h.mu` is taken by `Run` alone. Run's loop over the
clients is one step, because each iteration touches another client's buffer.
Announcements of files share the channel `broadcast` and are not modelled; they
would only be more messages in the log. Clients are not told of a directory
switch, so `NothingMissed` is about clients that connected after the last one
(`informed`). A text may reach
a client twice, in `init_feed` and as `new_text`: the code allows it and no
property excludes it.

## 6. The server's tables and codecs: `Storage`, `Auth`, `FileIndex`, `WSFrame`, `QRCode`

Five components that share no state with one another. `MCServer` puts their
instances into one run: a behaviour exercises one of them (`part`) and leaves the
others as they started.

**`Storage`** (`upload.go` 314-341). `reservedStorage` is one counter for all
volumes; `free[v]` is what the probe of volume `v` reports. `Reserve` is a call that
grants, `WriteByte` the writer's progress, `ReleaseStorage` the closure it got.
`OtherUse` is another program filling the disk, counted in the history variable
`lost`, because no accounting can prevent that. The arithmetic is that of
`int64` and `uint64` with `MaxInt64` as the largest `int64`. A refusal or a failing probe changes nothing.

**`Auth`** (`config.go` 150-225, `handler.go` 103-210, 284-332). `authFails` and `sessions` are the maps
of those names, with the zero record and 0 for absent entries. `WrongPIN` and
`RightPIN` are the outcomes of `CheckPINAttempt`, an attempt under lockout changing
nothing; the handlers then mint a session in a step of its own (`admitted` are the
requests in between), which sweeps the expired ones. `Tick` moves the clock
between any two steps. Addresses and tokens are opaque: that tokens do not repeat
is the random generator's promise. `wrong` and `minted` are history.

**`FileIndex`** (`upload.go` 361-415, 931-968, 1000-1092, 1177-1263). `dir` is the set of files in one directory, `dirTime`
its modification time, which a change may leave as it was, as coarse file systems
do. `fileIndex` is the cached entry. A list request is `StatDir`, `ReadDir`,
`StoreIndex` (or `ListFails`) under `fileIndexMu`; a request that finds a usable index
changes nothing. A publication is `Publish`, `Invalidate`, `Answer`; a batch delete
is `BeginDelete`, `Remove1` per name, `EndDelete` at any of them (an error) or after
the last, `Invalidate` if it removed anything, `Answer` (the handler writes its answer
before the deferred invalidation, but its end is sent when the handler has returned). `Outside` is another program
in the directory. `settled` is history: files whose present state was answered to
some client. `ListingFresh` then says what a user relies on: who got the answer to
an upload or a deletion does not see the contrary in a list requested after it.
It does not promise the same from the *event* `file_deleted` on, which is sent
before the invalidation (a hazard in `PROJECT.json`); `FileView` says what that means
for the list on the screen. `Filtered` is the loop of the
list handler over the index, `TotalPages` and `Page` are its arithmetic;
`PagesPartition` checks them for every filter and page size.

**`WSFrame`** (`ws.go` 81-140, 157-218, 289-373). One connection, its two pumps as
writers and the hub that closes it. The wire is a sequence of header bytes, each with
its value, and payloads, each a number of bytes, so that the real boundaries 125, 126,
65535, 65536 and the limit of 1 MiB are checked with the real arithmetic.
`writeFrame` is `Lock`, `WriteHeader`, `WritePayload`; a write may fail after nothing
or a part of it. `readWSFrame` is used twice: by the read pump, and by the peer that
decodes the whole wire in `FramesWhole` (`ReadFrom`, which reads one frame after the
other up to `NoLimit`, 2^31 - 1), with its own pings to compare the pongs with. The hub's
queue of messages is in `Hub`; here a message is any length.

**`QRCode`** (`qrcode.go`). The encoder as functions: the field GF(256) by its
log tables, `Generator` and `calculateReedSolomon`, padding, blocks and their
interleaving, function patterns, the zigzag, mask 0, the format bits, and the two
pictures. A byte is the set of its one-bits and a matrix the set of its dark modules.
`Readable` is a reader written from the standard and not from the code: it finds the
patterns, checks the format, walks the columns by its own description, and evaluates
each block at the roots of the code (`Value`, which multiplies without tables) instead
of dividing.

## 7. The clients: `UploadClient`, `WsClient`, `FileView`, `NsdDiscovery`, `MainActivity`, `Desktop`

Components without shared state (only `MainActivity` drives `NsdDiscovery`), in one run as in section 6 (`MCClient`). The
browser, Android's main looper and the window's thread each run one callback at a
time, so an action is what happens from one `await` (or posted callback) to the
next, and interleaving means the order of callbacks.

**`UploadClient`** (`app.js` 405-612). `runs[t]` is the call of `runUploadTask` with
token `t`: where it is, the chunks nobody took, and its workers, each known by the
chunk in hand and the failed attempts at it, in a request or in the delay before the
next. A superseded run stays in the model until its last callback is over. The
server's answers are arbitrary: it may forget everything (sweep, restart) or gain
chunks from another page. `Abort` is `abortTaskRequests`: a request given up ends its
run, but one whose refusal was just being read counts as a failure and goes into its
delay (`responseError` swallows the abort). The search for a former `file_id` in
`createUploadTask` is left out.

**`WsClient`** (`app.js` 173-232, 1072-1087). `navigator.onLine` changes at once, the
`online` and `offline` handlers run later (`events`); a socket fails at once, its
handlers run later. A socket closed by the `offline` handler keeps its `onerror`
(`aborted`), which only the generation check silences.

**`FileView`** (`app.js` 258-266, 615-651, 872-901, 979-996, with `upload.go` 1044-1092 as the
server). `loads` are the requests under way with the filter, page and sequence they
were sent with, and the answer once the server has made it; answers arrive in any
order or not at all. `news` are the announcements, in order. `fileList` and `cards` differ between
the answer for a page that no longer exists and the answer of the request for the
last page; the box that selects a page works on `fileList`. A change of one file and its
announcement are one step, for the client cannot tell a late announcement from a
slow network. The invalidation of the cached index is not part of that step: a batch
delete is `DeleteOne` per name (`Unlink` removes and announces) and then `EndDelete`,
whose deferred function drops the index. `leaving` are the files that were removed and
announced and that the index may still hold; `Serve` answers from the files as they are
or from such an index. `held` is history: what the answer on the screen held of
`leaving`. `ListSettles` does not assume a fresh index, then: it says that the screen
ends with the page of the server's files and of those, and the list may indeed go on
showing a deleted file, because nothing reloads it after the invalidation.

**`NsdDiscovery`** (`局域网发现.kt` 28-209). `posts` is the main looper's queue: what
`NsdManager` reports is posted with the generation or token of its request and
handled later. `ResolveNext` includes the recursion after a `resolveService` that throws.
The ten-second timeout of a request and the delayed start of `restart` may run at any
time. `queuedServiceNames` is written and never read by the code and is left out. Its
`start`, `stop` and `restart` are operators that the activity calls. A callback that ends
with `emitServers` says so by its parameter `emits`, whether the servers changed or not.

**`MainActivity`** (`MainActivity.kt` 78-131, 209-305, 403-419) extends it. An action is
a callback of the activity or a tap: `onStart`, `onStop`, `onDestroy`, `openWebView`,
`Browse`, `onBackPressed`, `Refresh`; `Searching` is whatever goes on in
`NsdDiscovery` by itself, and renders what it emits. `listed` is what stands on the home
screen; `emptied` is history: `showHome` has built the screen anew during the search that
runs, and nothing was emitted since. Which server is chosen does not matter to it.

**`Desktop`** (`desktop/main.go` 67-181, 219-315, `设置_windows.go` 31-66). The operator's calls
arrive one at a time and each is an action; saving, starting the advertiser and
switching the directory may fail. `unsaved` and `unannounced` are history. The
directory switch inside the server is `SwitchDir` and `SwitchFeed` of `Feed`.

### The advertiser: `Advertiser`

(`局域网发现.go` 55-163, `main.go` 140-205, `desktop/main.go` 112-181, 304-315.) The owner is
one thread, the main goroutine or the window's, and `main` its next step; each
responder `run[g]` is a goroutine that ends only when it looks at `stop`. `Close` is
four steps (`Goodbye`, `CloseStop`, `CloseConn`, `AwaitDone`), between which the
responder may answer. Every packet may be lost. A listener's `cache` holds the last
announcement, since all advertisers announce one name with the cache-flush bit, and
loses it by a goodbye or when its time is over. `heard` is history. `Die` is
`log.Fatalf` or a killed process: no goodbye. `MCBackground` runs it beside the
sweeper and the lock table, with which it shares nothing.

## 8. Runs

All bounds are small sets in the `.cfg` files; `MCUpload` serves the
`Upload*` configurations, `MCHub` the `Hub*` ones.

| Run | Shows | Bounds, and why they suffice |
|---|---|---|
| `upload_lifecycle` | `BindingExact`, `QueuedChunkStaysOut`, `ImplementsUploadView` | 3 goroutines, so that a cancel meets a merge and a queued chunk together; 1 upload of 2 chunks under 2 declarations, 2 directories, sweeper and switches |
| `upload_crash` | `AckedChunkKept`, `PublishedWhole` with one crash and any file operation failing, reads included | 2 goroutines, 2 chunks of 1 or 2 bytes for a file of 3: wrong sums exist in both directions |
| `upload_files` | `NoOverwrite`, and the type invariant with the limit on tombstones | 2 uploads of one name, deletions and failing looks, so that a free number may lie below a taken one; 2 cancellations for 1 tombstone, so that one evicts the other upload's |
| `upload_progress` | `ActiveLimit`, `EveryRequestAnswered` | 2 uploads, limit 1, failing I/O, 1 failing look for a name, strong fairness |
| `background` | `AbandonedSwept` while directories are switched; `SuccessorHeard`, `EventuallyHeard`, `ProgramEnds`; `RefsExact`, `EventuallyInside` (no stranded waiter), `ImplementsKeyedMutex` | 2 directories, 1 upload; 3 advertisers, so that a successor is succeeded and a program restarted; lock table: 3 requests, 2 file_ids, 3 objects, which is a holder, a waiter and a third request that arrives at the delete, and an object changes file_id |
| `upload_queued_chunk` | *violated*: `QueuedChunkStaysOut`, a queued chunk outlives the tombstone | 1 expiry |
| `server_parts` | `FeedDurable`, `FeedSeparate`, `NoOvercommit`, `GuessesSpaced`, `SessionExact`, `ListingFresh`, `PagesPartition`, `FramesWhole`, `Readable` | 4 texts for a feed of 2, 2 directories; 3 writers of 1 or 3 bytes on 2 volumes of up to 9, 7 as the largest integer, so that sums wrap; 2 addresses, 2 tokens, 6 instants, lockout after 2; 3 files of which 2 share a time, one changer and one lister: `Outside` plays every other changer and the mutex makes listers take turns. The theorems cover any number of them; frames of 7 lengths on both sides of every form of the header and of the server's limit, until 5 pieces are on the wire, which is two frames and the third begun; texts of 0 bytes, of what each of the five versions holds and of one byte more, with every byte value among them |
| `client_parts` | `OneRunSends`, `NeverStuck`, `NeverStranded`, `ListSettles`, `OneResolve`, `ShownAreCurrent`, `SearchWhileHome`, `DesktopAgrees` | 3 chunks, 2 workers, 1 retry, 4 tokens: a pause, a resumption and a failure of one task, more chunks than workers; 5 socket generations and 3 events; 2 files on pages of 1, 2 filters, 3 list requests, 1 deletion and 1 announcement at a time; 2 services, 4 searches (a restart and a return to the home screen in either order), 5 resolves; 3 adapters, 2 directories |
| `desktop_address` | *violated*: `HostIPAdvertised` after a failed save | 2 adapters |
| `android_back_key` | *violated*: `FoundAreListed` after the back key on the home screen | 1 service, 2 searches |
| `hub_delivery` | `OpenWhileListed`, `ContiguousDelivery`, `NothingMissed` | 1 client and 1 sender (2 posters), 3 texts, buffers and feed of 1 or 2, so that each is full; switches between 2 directories. The theorems cover any number of clients |
| `hub_progress` | `PostReturns`, `Delivered`, `PumpsEndTogether`, `ShutdownEnds` | 1 client, 2 posters, 2 texts, buffers of 1 |

`MaxPubs` stops completions after that many publications of an upload, so that the
finished files stay finite; `MaxSkips` bounds the free names that are passed over
because looking them up fails; `MaxCrashes` bounds restarts. `MaxTombs`, `MaxActive`,
`MaxSlots` and `MaxChunks` are the code's own limits made small.

`BindingExact` and `ImplementsUploadView` are checked without crashes and
failing removals: with them a directory may survive its publication or its
cancellation by the nature of the two-step protocol, and the code does not
promise otherwise (see the hazard at `upload.go:947`). `BindingExact` is also without
failing reads of metadata, which leave a binding behind (`upload.go:549`). Other failing
file operations are left out of the run, which would take too long with them; the
theorems allow them, and the rollback of a first chunk is where they matter.
`EveryRequestAnswered` is about looks for a free name that fail finitely often: if they
fail for ever, the code answers no upload request any more (section 10). What a crash may not do,
`AckedChunkKept` and `PublishedWhole`, is the run `upload_crash`.

**Fairness.** `LockFairness` of `UploadLock`: weak fairness of the unlock steps, which follow one
another without blocking, strong fairness of acquiring, since Go's `sync.Mutex`
switches to FIFO hand-over once a waiter has starved for a millisecond. `Upload`:
strong fairness of each goroutine's own steps, for the same reason; none for
arrivals, failures, switches, ageing or crashes. `SweepSpec` adds strong fairness
of the sweeper's visits: its ticker never stops and a sweep visits every listed
directory. `AdvertFairness`: weak fairness of the owner, whose steps do not block
except on the responder, and of each responder, whose reads have a deadline of a
second; strong fairness of announcing again, since its minute passes again and again,
and of an announcement that arrives: a network that loses every packet would
refute `EventuallyHeard` whatever the code does. `HubFairSpec`: strong fairness of the cases of Run and of the sends
that block on a channel, because `select` chooses at random among its ready cases
and the runtime serves the goroutines blocked on a channel in FIFO order; weak
fairness of a waiting frame (it is written, or the 10 s deadline ends the pump),
of a read on a closed connection, and of the steps that do not block. Nobody has
to connect, post, break off or shut down. Texts run out, so `CHECK_DEADLOCK` is
off: an idle hub really stands still.

Each property has a mutant: a plausible slip in the code, written as an operator
beside the definition it would replace (`Snapshot_Current`, `LastUser_OffByOne`,
...), under which the same run violates the property.

## 9. Proofs

`UploadLock_proofs` (for any number of requests, `file_id`s and objects):

- `Typing`, `Agreement`, `Counting`, `Exclusion`: `LockTypeOK`, `UsersAgree`,
  `RefsExact`, `MutualExclusion`. None of these is inductive alone. The
  invariant adds that an object with users is the map's object of all of their
  file_ids, that two file_ids never share an object, and that an object's mutex
  is held by exactly the request that is inside with it. The count is the
  cardinality of a set of requests, so the lemmas `UserAdded` and `UserRemoved`
  carry it through `refs++` and `refs--`.
  Of these, `RefsExact` is the one the run checks by itself; a second request inside
  or two objects for one `file_id` break the refinement it checks as well.
- `Refinement`: each step is a step of `KeyedMutex` or a stutter; `Acquire` needs
  `MutualExclusion`'s strengthening to satisfy `Enter`'s guard.

`Upload_proofs` (for any number of goroutines, `file_id`s, directories, chunks and
any value of the limits):

- `Invariance`: `IInv` holds always. Its parts are `Holding` (whoever is between
  the lock and the unlock of a `file_id` holds its mutex), and for every goroutine
  `Local`, `Naming` and `Counted`. `Local` says what the goroutine may rely on at
  its place in the handler: the shape of its inputs, what is on disk in its
  upload's directory (`OnDisk`: the metadata agree, every chunk is there, the
  merge is the chunks in order as far as it got, an answered chunk is stored), and
  that a first chunk which is not yet committed has nothing acknowledged to lose
  (`Uncommitted`). `Naming`: between the tombstone check and the rename the
  goroutine owns `uploadMu`, and the name it has chosen is still free. `Counted`: after
  counting, it owns `uploadStateMu` until its directory is visible.
- The argument for a step of goroutine `r` has one shape: `Alone` gives that no
  other goroutine is inside with the same `file_id`, so `OthersKept` carries every
  other `Local` over, since the step is `Apart` (it changes no other `file_id`'s
  directory); `NamingKept` and `CountedKept` carry the facts under the two global
  mutexes; `CoreStep`, `InsideStep`, `QuietStep` and `DiskStep` put these together
  for classes of actions, and one lemma per action shows the rest.
- `Typing`, `AckedKept`, `Limited`: the invariants `TypeOK`, `AckedChunkKept`,
  `ActiveLimit` follow from `IInv`, crashes and failing file operations included.
- `NeverOverwritten`, `CancelOrdered`, `PublishedComplete`: the action properties
  `NoOverwrite`, `CancelOrdersPublish`, `PublishedWhole`. `OnlyPublish` reduces
  each to `PublishFile` (`CancelOrdersPublish`, that nothing is published under a
  tombstone, is in the runs a part of `ImplementsUploadView`), where `Naming` gives the
  free name and the absent tombstone and `OnDisk` the complete merge.
- `Unblocked`: `NoCircularWait`, the part of `EveryRequestAnswered` that needs no fairness:
  whoever waits for a mutex waits for a goroutine that need not wait, or for one that
  waits for such a goroutine, however many requests are under way. `Keepers` adds to
  `IInv` that a mutex is held only by a goroutine that is where it is held, so none is
  left locked on an early return; `Onward` is what every step inside has in common. That a
  goroutine which need not wait has a step is a statement on ENABLED and not proved:
  `NoCircularWait` says it by the guards (`WaitsFor`), and `WaitersWait` that nobody
  takes a step against them. On the instances of `upload_lifecycle` and `upload_crash` TLC
  finds `Serve(r)` enabled exactly when `r` serves a request and `WaitsFor(r) = None`.

`UploadView_proofs` (for the same, over `IInv`). Two of its results have a hypothesis on
the constants, which says under which circumstances the code promises them at all;
TLC's runs of these properties are instances of it.

- `BindingsExact` (`BindingExact`, if `NothingBreaks` and `~ReadFault`) and `BoundIsThere`
  (if `~ReadFault`; of it the half that holds with crashes and all other failures as
  well: a free upload that is bound is on disk). `NothingBreaks` says that no removal of a
  directory fails and the server does not crash: an interrupted removal leaves a directory
  that nobody knows of, and a crash forgets every binding. `~ReadFault` says that what
  looks at the disk does not fail: with metadata that cannot be read the code leaves a
  binding without a directory. Writes, mkdirs and renames may fail at any time.
  `BInv` says for each `file_id` either what the holder of its mutex knows (`Bind`:
  the binding and the directory agree, but between the binding and the creation of the
  directory and between its removal and the unbinding) or, if there is none, that they
  agree (`Vacant`).
- `TombstoneBars` and `QueuedStaysOut` (`QueuedChunkStaysOut`, if `Roomy`). A request that
  was queued when the cancellation of its upload returned gets past the tombstone
  only once that is gone; so never if tombstones do not expire and the registry has
  room for one of each `file_id`. `SInv` says that acknowledged cancellations have
  their tombstones, that no id has two, and what a queued request may be doing.
- `UploadRefines` (`ImplementsUploadView`, if `NothingBreaks`; reads may fail here, for a
  client does not see a binding that was left behind). `RInv` adds what the
  mapping of `MCUpload` needs: a published directory (`spent`) is still there only while
  its handler is about to remove it, an answered cancellation leaves nothing in any
  directory (`Closed`), and the declared number of chunks is what was checked. Each
  action is then one lemma: the chunk that creates an upload is `Open`, every further
  one `Add`, the rename `Publish`, a removal by the sweeper or a cancellation `Discard`,
  and the rest stutters. `UploadView`'s uploads are a set of records, so most of a
  lemma shows which of its members a step touches.

`Hub_proofs` (for any number of texts, directories, connections and senders and any
capacities):

- `FeedTyping`, `Durable`: `FeedTypeOK` and `FeedDurable`. The lemmas on `Newest` say
  that clipping after prepending equals taking the newest of the history, which
  makes `FeedDurable` inductive by itself.
- `Separate`: `FeedSeparate`, inductive with the types: what is stored for a directory,
  and what is in memory for it, is a part of the texts added to its feed in their
  order, which prepending and clipping keep.
- `HubTyping`, `Open`, `Contiguous`: `HubTypeOK`, `OpenWhileListed`,
  `ContiguousDelivery`. The invariant is `HubTypeOK` with `Stream(c)` for each
  client: what was written is a beginning of `Due(c)`, with what is buffered it is the
  whole of it while the client is listed and its write pump lives, a client that
  registered is listed exactly while it is open, and one that has not has nothing
  buffered. `ContiguousDelivery` alone is not inductive: it does not exclude that a
  closed client takes a frame.
- `Nothing`: `NothingMissed`: a text in the feed is pending, logged since the
  client's registration, or in the feed it was shown.

`Server_proofs` (for any number of addresses, tokens, files, goroutines, writers and
volumes, any durations and sizes):

- `Guesses`: `GuessesSpaced`. The invariant (`Guess`) ties the entry of an address to
  the history of its wrong PINs: the times are in order, the attempt before the
  present count caused the last lockout, and the one after it waited for its end.
  `OneMore` shows that a further wrong PIN keeps this.
- `Sessions`: `SessionExact`: an entry has its full time, or it is gone and over.
- `FreshIndex`: `ListingFresh`. The property is not inductive, because it does not say what
  a list request that has read the directory will store. `Agreeing` extends it to
  files that *could* be answered for (their handler has invalidated the index) and
  to what a lister holding the mutex has read; `Held` ties the mutex to the listers.
  `Invalidate` is where both meet: it waits for the mutex, so no older reading is
  left.
- `PagesWhole` and, with the type invariant, `Paged`: `PagesPartition`. The number of
  pages is a quotient rounded up, page `p` begins where the first `p - 1` end, so the
  pages are adjacent pieces of the list and their concatenation is the whole of it.
- `Affordable`: `NoOvercommit`. The invariant adds that nobody has more unwritten than
  reserved, and that the counter with the reserve is within `int64`; then the sum of
  three in `reserveStorage` wraps at most once, and to a number below zero, which its
  check refuses (`NoWrap`). What is unwritten on one volume is part of what is reserved
  on all, so the one counter errs only towards refusing.
- These two compute with recursions of the library (`FoldLeft`, `FlattenSeq`,
  `MapThenSumSet`). The induction theorems of the library cannot be used, so the proofs
  lead the induction themselves: of the cases in which a claim fails the least one
  (`Least`) has a predecessor in which it holds. A sum over a set is handled as the
  cardinality of a set of tokens (`Total`), which the theorems on finite sets can add
  and compare; `Recursion` shows that `MapThenSumSet` counts the tokens.
- `Successor` (for any number of advertisers): `SuccessorHeard`. It is not inductive,
  since it does not say who may send; `Owned` adds that only the advertiser held has an
  open socket, and none has between two of them, which is where a former one's late
  answer would come from.

`WebClient_proofs` (for any number of socket generations, chunks, workers, retries, runs,
files, requests and announcements):

- `Stranded`: `NeverStranded`. The invariant `WsInv` adds that the last event under way
  tells what `navigator.onLine` has become, and that a socket whose handlers would be
  heard is the page's own.
- `OneSender`, `NotStuck`: `OneRunSends` and `NeverStuck`, from `UInv`. `Sound` holds of
  each run, superseded ones included: its workers have different chunks in hand, none of
  them still to be taken, and are at most `PARALLEL_CHUNKS`. `Role` ties a run to the
  task: only the run whose token is the task's sends, and every chunk is acknowledged,
  in hand or to be taken, so that the last worker leaves none behind.
- `Settles`: `ListSettles`. `Asks`: the newest request asks for what the controls show
  and its answer is the page of what the server has and of what its index still held,
  unless an announcement is to come; `Shows`: without such a request its answer is on the
  screen; `Numbered` tells requests apart. Nothing is assumed of when the index is
  invalidated.

`Apps_proofs` (for any services, searches, adapters and directories):

- `OneAtATime`, `ShownCurrent`: `OneResolve` and `ShownAreCurrent`, from `NsdInv`: what is
  posted to the main looper carries a generation or a token that was given out, at
  most one resolve is awaited, and once the start of a search has failed, nothing of
  that search is shown or under way.
- `SearchesAtHome`: `SearchWhileHome`, with what a delayed start may still do. Its second
  half says exactly when the list is not what the search found: from the rebuilding of
  the home screen to the next change.
- `Agrees`: `DesktopAgrees`, inductive with its types: what holds after each call, also
  one whose save failed. It says nothing of mDNS after an adapter that could not be
  saved, which is finding 2.

`WSFrame_proofs` (for payloads of any length up to `NoLimit`, any limit of the server and a
wire of any length):

- `Framing`: `FramesWhole`. The peer's reading is recursive along the wire, and what was
  written before must not read differently once more is written. `SameFrame` says that a
  frame stays the frame it is when pieces are appended, `Continued` that the reading of a
  longer wire is the reading of the wire and then of the rest; both are inductions on the
  length of what is unread. `HeaderSays` is the arithmetic of the three forms of a header:
  what `writeWSFrame` splits into bytes, `readWSFrame` puts together again, at 125, 126,
  65535 and 65536 as between them. The invariant `FrameIInv` says who writes (`Writers`),
  that until a write has failed what the peer has not read is nothing, or, between the
  two writes of a frame, exactly the header of the frame of the pump that holds `writeMu`
  (`Whole`), and that the pongs it has read are the pings but for the one that the read
  pump is answering (`Answered`). `FramesWhole` alone is not inductive, because it does not
  say whose header is pending.

Assumptions, each named in its module and evaluated by TLC: `AdvertiserAssumption`
(advertisers are numbered from 1), `AuthAssumption`, `FileIndexAssumption` (finitely many
files, `Absent` fresh), `FeedAssumption` (`None` fresh, a positive feed length),
`HubAssumption` (connections and senders apart, positive capacities), `StorageAssumption`
(a request with the reserve is within `int64`: 20 GiB and 64 MiB against 2^63),
`UploadLockAssumption` (`Caller` finite, `Null` fresh), `UploadAssumption` (finitely many
goroutines, positive limits, bounds that are naturals, metadata whose number of chunks is within the limit, `None`
fresh), `UploadClientAssumption` (finitely many chunks, at least one; a positive number of
workers), `FileViewAssumption` (finitely many names, a positive page size),
`WsClientAssumption` and `NsdDiscoveryAssumption` (bounds are naturals),
`DesktopAssumption` (`NoIP` is no address), `WSFrameAssumption` (lengths are within what a
browser reads, bounds are naturals). `QRAssumption` belongs to a module without theorems.

Before it was proved, each inductive invariant was checked by TLC on the instance of
the run that checks its property.

Only model-checked: everything under fairness (`EveryRequestAnswered`,
`AbandonedSwept`, `EventuallyInside`, `PostReturns`, `Delivered`,
`PumpsEndTogether`, `ShutdownEnds`, `EventuallyHeard`, `ProgramEnds`), which is out of
the prover's reach, and `Readable`: that every block vanishes at the roots of the code is
a statement on polynomials over GF(256), whose tables and products are recursions over
data, and what the reader finds in the picture goes through `SelectSeq`, for which the
prover has no definition.

## 10. Findings

1. `upload.go:769` says that after a cancellation queued chunks cannot recreate
   the upload. The tombstone lives five minutes, the body of a chunk request may
   take thirty. Run `upload_queued_chunk`.
2. `config.go:99` says that `HostIP` is the address currently advertised, and
   `config.go:106` that setting it changes links and discovery. `setAdapter` returns
   between the two when the settings cannot be saved (`desktop/main.go:236`), so links
   carry the new address and mDNS the old one. Run `desktop_address`.
3. `README.md:72` says that the Android app, once open, lists the computers that were
   discovered. The back key on its home screen builds that screen anew with an empty
   list (`MainActivity.kt` 235, 263); the search goes on, so starting it does nothing and
   nothing is emitted: what was found before is listed again only when another computer
   is found or lost. Run `android_back_key`.

Not findings, for nothing in the repository says otherwise, but worth knowing. The box
that selects a page, used while the list is being reloaded because its page no longer
exists, leaves files selected that are not on the screen, and the delete button then
deletes them (`app.js:979`). A file dropped twice in quick succession gets two upload
tasks (`app.js:391`). A completion whose answer is lost leads to a second copy when the
task is resumed (`app.js:549`).

Also worth knowing: `README.md:52` says interrupted uploads are
swept by TTL. The sweeper visits the current directory and those bound in memory,
so leftovers of a directory used before a restart elsewhere stay until the
operator returns to it. `AbandonedSwept` is checked without restarts.

The command-line server announces itself before it listens, and ends by `log.Fatalf`
without a goodbye when it cannot (`main.go:158`). A frame of which a write failed
half-way may be followed by a whole one before the hub has closed the client
(`ws.go:312`).

When the metadata of an upload cannot be read, the chunk request is refused after it has
bound the upload to its directory, and the binding is not taken back: later requests go
there although the operator has switched directories (`upload.go:549`). When `Stat` fails
persistently for another reason than a missing file, the search for a free name never
ends and holds `uploadMu` and `finalizeMu` meanwhile, so that every upload request waits
for it (`upload.go:1275`). A list reloaded on `file_deleted` may still show the deleted
file, since the index is invalidated only at the end of the batch, and nothing reloads
the list then (`upload.go` 1237-1257).

## 11. Not modelled

- Planned: the codec of DNS names in `局域网发现.go`, a pure function of packets; and
  the status request with `createUploadTask`'s use of it, the list of texts in the web
  client.
- Routing, static files with their ETags, downloads: no state that two actors can
  disagree on.
- `core/network`: the ranking of interfaces is a pure function of what the operating
  system reports, which is an input of `Desktop`.
- The Windows tray, window and single instance, console set-up, disk probes, the
  Android file chooser, downloads, recent servers and address parsing, and the
  deprecated Python development server: calls into a platform, whose effects are
  that platform's promises.
