# opfs-webauthn in TLA+

A verification development for opfs-webauthn: a local-first note-taking web
application whose notes are encrypted with a key derived from a passkey, stored
in SQLite on the origin-private file system, shared by all tabs of a browser
profile, and passed on to other people through a small rendezvous server.

The modules follow the source, not its documentation. `PROJECT.json` maps every
definition to the lines it stands for.

## Inventory

| Component | State it keeps | Operations | Talks to |
|---|---|---|---|
| Leader-election transport, `packages/storage/src/leader.ts`, `rpc.ts` | per tab: `currentLeaderId`, `pairChannel`, `pendingPair`, `inFlight`, promises; at the leader: bridges with id maps, restart budget, worker; the Web Lock | open, post, handshake handlers, become and give up leadership, writer failure, terminate, unload | other tabs over BroadcastChannels, the database worker |
| Worker dispatcher, `worker-handlers.ts`, `connection.ts`, `db-worker.ts`, `db-shared-worker.ts` | the opened database, the set of connections | handle a request, lazy open, broadcast `tx-applied` | transport, note repository |
| Transport ladder and Repo, `index.ts`, `multi-tab.ts`, `repo.ts`, `use-notes-repo.ts` | the tier chosen, the repo of the vault | createRepo, bootRepo, close | all tiers of transport |
| Note repository and migrations, `note-repository.ts`, `migrations.ts`, `database.ts` | rows, schema version | upsert, archive, delete, keyset paging, apply migrations | SQLite |
| Notes store, `packages/state/src/notes-store.ts` | generation, state, `showArchived` | reload, commands, `tx-applied` | Repo |
| Idle vault lock, `idle-lock-coordinator.ts`, `use-idle-vault-lock.ts` | last activity, last heartbeat, locked | noteActivity, receive, tick | other tabs, AuthScreen |
| Authentication and vault, `packages/auth`, `auth-screen.tsx` | credential file, vault | enrol, unlock, lock, forget | OPFS, WebAuthn |
| Rendezvous backend, `apps/share-backend` | records, blobs, mint counters, each with an expiry | mint, fetch public key, upload, download, sweep, rate limit | clients over HTTP |
| Sharing client, `packages/share-client`, `apps/web/src/share` | the wasm handle, the poll loop, the dialogs | prepareReceive, pollAndDecrypt, sendShare, close | backend, Repo |
| Service worker, `apps/web/public/sw.js` | versioned caches | install, activate, fetch | network |
| Row ids and codecs, `crates/repo`, `id.ts`, `row-codec.ts` | none | encode, decode, AAD | vault |
| Cryptography, `crates/crypto`, `crates/core` | none | AEAD, HKDF, share envelope | |

What is hard here: tabs, workers, the lock manager and channels interleave
freely; leaders come, crash and leave while requests are in flight; timers race
late answers; the server does one job in two critical sections; clients close
or lose their connection at every point; a restart loses the store; clocks
differ. `PROJECT.json` lists these as hazards at their lines, with the property
that covers each or the reason why none does yet.

What makes each part correct:

* transport: one writer; a lock that is never held for nothing; every request
  answered or replayed; answers that reach their own request; an interface that
  hides leader changes;
* rendezvous: a note handed out once, to the recipient it was encrypted to; no
  blob without a rendezvous; a rate limit that limits; a dialog that ends and
  frees its key once;
* idle lock: no vault open long after the last use; every tab told of the use
  of any other;
* notes store: what is shown is, once things settle, what is stored; a load is
  one consistent list;
* repo lifecycle: each migration run once; a handler only against its own
  schema, in files its thread owns; a hook that ends and leaves nothing running;
* vault: a key in use never lost by a failure; a screen that matches the disk;
  a wasm handle freed once;
* service worker: an active worker with its whole shell; no page that loses what
  its own worker was to keep; updates that end.

## Modules

| Module | Stands for |
|---|---|
| `StorageService` | abstract: what callers of the storage transport may rely on |
| `LeaderTransport` | `leader.ts` with the page's `WorkerClient` (`rpc.ts`), Web Lock, channels and worker |
| `Rendezvous` | the share backend, the sharing client and the two dialogs, composed |
| `IdleLock` | the coordinators of all tabs, the hook, unlock and lock of AuthScreen |
| `NotesStore` | the notes list of every tab, Repo's reads and writes, the worker's handlers, the SQL repository, `tx-applied` |
| `RepoLifecycle` | the hook, the ladder of `createRepo`, the workers of all tiers with their lazy database, the migrations |
| `AuthVault` | AuthScreen in every tab, the WebAuthn ceremonies, the credential file |
| `ServiceWorker` | `sw.js` with its caches, the registration, the builds deployed under it |
| `LeaderTransportProofs`, `LeaderTransportTypeProofs` | theorems about `LeaderTransport` |
| `RendezvousProofs` | theorems about `Rendezvous` |
| `IdleLockProofs` | theorems about `IdleLock` |
| `NotesStoreProofs` | theorems about `NotesStore` |
| `RepoLifecycleProofs` | theorems about `RepoLifecycle` |
| `AuthVaultProofs` | theorems about `AuthVault` |
| `ServiceWorkerProofs` | theorems about `ServiceWorker` |
| `MC...` | instances for TLC, one `.cfg` per run |

### LeaderTransport

A tab is its own client id; leader ids are numbered in order of election, 0 for
null. `phase`, `ready`, `cur`, `pair` and `await` are the closure variables of
`createLeaderTransport`; `inFlight` and `outcome` are the map of unanswered
envelopes and the promises of `WorkerClient`; `lead`, `bridges`, `idMap`,
`nextLid` and `failures` are the leader's side. `inbox[t]` holds the message
tasks queued for the channel objects of tab `t` in posting order; closing a
channel object turns its queued tasks into `Dropped`, because a
closed BroadcastChannel delivers nothing. `workers`, `jobs` and `replies` are
the running database workers and what is posted to and from them; `holder`,
`granted`, `ticket` are the lock manager's queue.

Each message handler is an action on the head of the inbox (`PairWithLeader`,
`AcceptPair`, `PairAck`, `LeaderFailed`, `AnswerQuery`, `ForwardRequest`,
`InterceptClose`, `Receive`; `Ignored` collects their early returns), each
callback of another task source one of its own (`BecomeLeader`, `ForwardReply`,
`WriterFailure`, `WriterFailureTerminal`, `LockRejected`, `RetryPair`), and
`Open`, `Send`, `SendFailed`, `Terminate` and `Unload` are what a caller or the
user does. The worker answers its jobs in any order (`WriterRun`), with a
response or an error.

A lock grant and a channel message are tasks of different sources, so a grant
may overtake the `leader-elected` tasks queued for the tab, and the model lets it.
A leader that then handles an announcement of its predecessor pairs away from
itself; such a leader is `Estranged`. Run `overtake` shows how it comes about. Its
own requests are the only ones that `NotStranded` (in `KeptUntilRetry`) and
`EveryCallSettles` leave out: what it does for other tabs, before and after, is covered.

`failures` counts the failures inside the sliding window: at each one any number
of the older ones may have left the window, so no clock is needed.

### Rendezvous

A recipient is one opening of the receive dialog, a sender one submission of the
send dialog. A client's HTTP call passes through the sections which the store's mutex
makes atomic: `CountMint` then `PutMint`, `CheckUpload` then `PutBlob`; `Fetch`
and `Download` are one section each. The writes of the store (counting a mint,
storing a record, staging a blob) sweep first (`Retain`); reads do not. `ReceiveLost` and `SendLost` lose a connection at any stage; the
server may still serve the call that was left behind. `CodeOf` maps keys to
codes, so that collisions of codes happen; encryption is the key a blob was
sealed for, and decryption succeeds with that key only (`Opens`). `Ahead` lets
the recipients' clocks run ahead of the server's.

### IdleLock

Time is discrete. A message is delivered within `Delay` and a timer fires
within `Late` of its due time; the clock waits until then. `Unlock` mounts the shell with a fresh
coordinator, `UserEvent` is a DOM event, `Receive` and `Tick` are the
coordinator's, `Rendered` is the unmount after the coordinator's `doLock`, and
`LockButton` locks one tab only: nothing is published.

### NotesStore

`rows` is the table; ids are numbers in the order SQLite compares them, texts
the number of the command that wrote them. A page holds the rows strictly below
its cursor in the order (`updated_day` DESC, `id` DESC), so a load's list is
strictly descending and is modelled by its set of rows. `loads[t]` are the
running calls of `reload`, each with the generation it was started in, the
setting it was asked for, its cursor and what it has collected; `queue[t]` the
`tx-applied` messages waiting for the tab; `writes` the commands under way. The
transport below is `StorageService`: requests run in any order, a write may run
again after a leader change (`RunWrite` with `ran`), and a rejected one may have
run or still run (`CommandFailed`). A write carries the day it was issued on, so
one that runs late moves its note back in the order. `Unmount` is both the view
going away and the tab closing. A write and its broadcast are one step: the
handler has no `await` between them.

### RepoLifecycle

A session is one mount of `useNotesRepo`; its own worker has its name, and the
SharedWorker of a build the build's. `pc` is where its `createRepo` stands,
`tier` the rung, `call` its bootstrap, write and close requests and how far the
worker is with each. `withDb` is split where it awaits: `LazyOpen` starts to open
although another request may be doing so, `Install` takes the OPFS access handles
for the thread (`owner`), `Opened`, `Refused` and `BeginMigrations` are what
`pending` decides, and `UpSql`, `Stamp` and `Commit` the statements of one step.
The code has one migration; the model gives a newer build a second, so that a
crash between two steps, and an old build in front of a newer schema, exist.
`Init` chooses the browser: whether SharedWorker exists and may use OPFS, whether
there are Web Locks. A terminated worker may leave a `Zombie` that holds the
handles for a while. The leader tier is reduced to who holds the lock: that a
request reaches the leader's worker, and the next one's after a change, is what
`LeaderTransport` shows; the two meet in `Elect` and `Terminated`.

### AuthVault

Passkeys are numbered as they are made, and the number stands for the credential
blob with the only wrap of a data key. `file` is a credential, something
`deserialize` refuses, or absent. `state[t]` is the screen, `at[t]` what the
running async function awaits, `held[t]` the credential it has in hand, `heap[t]`
the `CryptoVault` objects alive in the tab. Reading takes three awaits, writing
three; `createWritable` works on a copy that `close` swaps in, and an entry with
an open stream cannot be removed. `Close` ends a tab at any await. `DoLock` may
happen twice before the render that follows the first; that the second does no
harm is a matter of wasm-bindgen (`Free`, external), whose `free()` of a handle
already freed throws, and nothing the code itself sees to. `unaware` marks the tabs
that cannot know what the file holds, because another tab has changed it since
they read it or because their read failed: there is no message between tabs
about the file, so this is as much as the code can promise.

### ServiceWorker

A build is its shell, whose URL does not change, and its chunks, which the origin
has only while the build is deployed. `installing`, `waiting` and `active` are the
slots of the registration. `addAll` is one request after another, then one step
that stores everything; the `activate` handler is split at its awaits, so that a
newer worker may be installing when the keys are read and the caches deleted.
`linked` says that the cache the installing worker has opened is still the one of
that name. `cacheFirst` is split likewise: the lookup (`ChunkHit`, `ChunkMiss`), the
answer of the network (`ChunkFetched`, `ChunkFails`), and the put nobody waits for
(`puts`, `ChunkPut`), which may fail and is lost when the cache it was opened for has
been deleted meanwhile. `raced` remembers the versions whose installation met a deployment or
another worker's activation.

## Runs

Two tabs, recipients or senders are enough for most races here, because the
code's conflicts are between two actors (the leader and a client, the one that
leaves and the one that takes over, two mints of one code). Deadlock is checked
in `offline` only: elsewhere all tabs may be closed, all dialogs ended, or a
bound reached.

| Run | Instance | Shows |
|---|---|---|
| `faults` | 2 tabs, 2 calls, a crash past the restart budget, a duplicate pair-request, a rejected lock request, overtaking grants | `TypeOK`, `NoCrossTalk`, `SingleWriter`, `LockNotOrphaned`, `AckMeansSubscribed`, the refinement `ImplementsService`, and `KeptUntilRetry`: until the duplicate or the rejection a pending request is queued, mapped, answered, or about to be replayed, unless its tab is an estranged leader |
| `live` | 2 tabs, bootstrap and close, a crash within the budget, no retry, overtaking grants; fair | `EveryCallSettles`: every request settles, unless its tab becomes an estranged leader |
| `share` | 2 recipients with one code, 2 senders, 1 mint per address and window, TTL 2, clock to 4 | `TypeOK`, `HandedOutOnce`, `AddresseeOnly`, `MintCap` |
| `poll` | 1 recipient, 2 senders, one with a note too large, clock ahead by 1, a restart; fair | `BlobWithRendezvous`, `HandleFreedOnce`, `ReceiveEnds` |
| `notes` | 1 tab, 3 notes of which 2 are stored, pages of 1 row, at most 2 pages, 1 command, a replay, a rejection, a switch, a midnight; fair | `TypeOK`, `ShownIsStored`, `Converges` |
| `idle` | 2 tabs, idle time 3, interval 2, delays 1, clock to 16 | `TypeOK`, `LockedInTime`, `AwareOfUse` |
| `vault` | 2 tabs opened 4 times, 3 passkeys, 2 OPFS failures, any browser; fair | `TypeOK`, `HandlesBalanced`, `KeyAccountedFor`, `UIMatchesDisk`, `NoCeremonyWithoutStore`, `NeverStuck` |
| `repo` | 2 sessions, of an old and a new build, 1 failure, any browser; fair | `TypeOK`, `MigratedOnce`, `ServedAtTarget`, `NothingLeftRunning`, `LoadingEnds`, `ReleasedAfterUnmount` |
| `offline` | 3 builds, 1 page, the network coming and going; fair | `TypeOK`, `OfflineReady`, `LostOnlyIfGone`, `UpdateEnds` |

Bounds. One crash per behaviour is enough to make a leader change with requests
in every state; `live` has restart budget left after it, `faults` has none. A
clock that runs to twice the TTL lets a rendezvous expire and its code be minted
again; one that runs over several idle times lets a tab be locked and unlocked.
`MaxQueue` only keeps the idle-lock queues finite. Stores meet only through the
table and the channel, which one tab's commands already drive against its own
loads; `notes` therefore has one tab, and the theorem covers any number of tabs
and writes. Two pages with three notes let a load be refused for its size. `MaxCalls` = 2
gives the bootstrap call and one ordinary call, 1 the bootstrap call only; `CloseId`
is the request after them. `NotStranded` and `AckMeansSubscribed` also hold with two
calls and a crash within the budget (1 523 491 states), which is not repeated.

In `vault` two failures let a retried operation fail again, three passkeys let a
credential be replaced, forgotten and enrolled anew. In `repo` two sessions make
every pair of tiers meet; the same invariants hold with three sessions (2 951 269
states), which takes too long to repeat. In `offline` three builds let a worker be
installed while the one before it still activates over a third. Pages meet only
through the registration and the cache, which one page already drives against
its own requests; the three invariants also hold with two pages (1 509 938 states),
and the theorems cover any number.

Three runs end in a violation. Each states what a comment says and shows a
behaviour of the code that differs; `findings` in `PROJECT.json` quotes the lines:

| Run | What is said | What the code does |
|---|---|---|
| `retry` | re-sending a pair-request is safe | a duplicate that arrives after the ack replaces a bridge whose requests are then never answered |
| `overtake` | the leader is its own client | a leader that handles its predecessor's announcement after the grant pairs away from itself, and its own requests are posted where nobody listens |
| `misread` | a read failure other than "not found" must not look like "no vault yet" | the bootstrap's retry shows the enrolment screen, and enrolling replaces the only wrap of the key in use |

### Fairness

`LeaderTransport`: weak fairness for every tab's event loop, its worker's runs and
replies and the lock manager's grants. Browsers run queued tasks and grant
a free lock; nothing is assumed of users, faults or timers. `Rendezvous`: the
server serves a call that reached it, clients handle answers, timers fire, time
passes, and a client notices a call the server has dropped; no fairness is
assumed of senders' submissions or of connections surviving. `NotesStore`: the worker
serves requests and writes, and tabs handle answers and notifications; nothing is
assumed of users, remounts, days or replays. `RepoLifecycle`: workers
serve what reaches them, pages go on when an await settles, a free lock is granted;
nothing is assumed of users, of faults, or of a terminated thread letting go soon.
`AuthVault`: every await settles, because OPFS calls answer and each ceremony
carries a timeout. `ServiceWorker`: a request is answered or fails, and the
browser runs the handlers; the network may come and go for ever. `IdleLock` has no
liveness property: its deadline is a safety property of discrete time.

### Divergences without a run

The models also meet these, each seen in a trace while they were built.

* `put_blob` looks only for a blob that is still staged: once it has been picked
  up, a second upload to the same rendezvous is accepted, although `store.rs:34`
  calls uploads single-shot, and its sender is told the note was sent.
* Every hit on the mint counter, a refused one too, moves its expiry and none
  lowers its count, so an address may be refused although fewer mints than the
  cap of `config.rs:15` passed in the last TTL.
* A request sent between attaching a new pair channel and its ack is posted and
  then replayed to the same leader, so ADR 0006's "retried once" does not hold:
  `StorageService` promises at least once.
* A request still on its way to the bridge when the writer fails is pending when
  `leader-failed` is handled, although the comment at `leader.ts:771` says it was
  rejected before.
* A poll after expiry gets 404, not the 410 that the comment at `share.ts:98`
  announces.
* Activity less than one heartbeat interval after the last heartbeat is not
  published, so a tab may lock, and all tabs with it, up to that interval before
  "5 minutes of inactivity across ALL tabs" (`notes-shell.tsx:39`) are over:
  `AwareOfUse` is the bound that holds.
* Without BroadcastChannel the list of the author is not refreshed after its own
  write, although `multi-tab.ts:61` says that per-tab use "mutates through its own
  RPC return values": with `HasBroadcast` = `FALSE`, `ShownIsStored` fails.
* A worker's activation deletes every cache but its own, that of a newer worker
  still installing or waiting included (`sw.js:126`), and a deployment in the
  middle of `addAll` mixes two builds: the next worker then activates without "the
  full new shell" that `sw.js:66` counts on. `OfflineReady` excuses exactly these two.
* A page of the old build under the new worker has lost its precached chunks, so a
  chunk it loads later fails once the origin serves the new build, although
  "taking over immediately is safe" (`sw.js:67`). `LostOnlyIfGone` is what holds.

## Proofs

All theorems hold for any constants that satisfy the named assumptions
(`TabsAssumption`, `BoundsAssumption`, `ClientsAssumption`, `LimitsAssumption`,
`TimesAssumption`, `NotesAssumption`, `SizesAssumption`, `FileAssumption`,
`BuildAssumption`, `NameAssumption`, `FaultAssumption`, `BuildsAssumption`): any
number of tabs, clients, codes, sessions, pages and builds, any durations. The
bounds on crashes, retries and time appear in guards only. Each inductive
invariant was model-checked on the instance of its module's runs before it was
proved. Every proof has the same shape: one lemma per action or per group of
actions, one step per part of the invariant that the action can disturb, and a
temporal step at the end.

### LeaderTransport

* `LeaderTransportTypeProofs!TypeCorrect`: `TypeOK` is inductive. Its parts are proved
  action by action; the lemmas on closing channels and on the order of replayed
  requests carry the sequence types. The other theorems are in
  `LeaderTransportProofs`.
* `OneWriter`, `LockNeverOrphaned`: both follow from
  `LockInv`. `SingleWriter` alone is not inductive: it does not exclude a leader
  while a grant waits for its callback, nor say that a leader's worker runs.
  `LockInv` ties holder, grant, leader ids and workers together.
* `AnswersReachTheirRequest` (`NoCrossTalk`): `DeliveryInv` follows a request from
  its promise through the client's queue, the bridge's map, the job, the reply
  and the answer. What carries it is `BridgeInv`: the ids of a leader's map are
  distinct and below the next one, and a job or reply whose id is still mapped is
  for the request of that entry. Jobs whose bridge is gone may remain; they
  match no entry, because ids are not used again.
* `TransportImplementsService`: the refinement of `StorageService`. `Init` maps to
  its `Init`; a step of the transport maps to one of its steps or to a stutter
  (`StepMaps`): `Send` to an issue, `WriterRun` to a run, `Receive` to a settled
  promise, `BecomeLeader` to the next worker, failures, unloading and closing to
  rejections with or without the end of the worker. `LockInv` gives that the
  worker that `CHOOSE` picks is the only one and that a new id is above the
  old; `DeliveryInv` gives that a positive answer is to a request that has run.
* `AcksMeanSubscribed` (`AckMeansSubscribed`): `HandshakeInv` says what each kind of
  discovery message means while it waits: a `leader-failed` names a leader id that
  is over, a `pair-ack` for a tab that is not closing names one that is over or
  has a bridge for the tab, a close request comes from a tab that is closing. It
  is kept because leader ids never return and a bridge goes only with its
  leader or by its client's own close request.
* `RequestsNotStranded` (`KeptUntilRetry`): `NotStranded` in every state before the
  first repeated pair-request and the first rejected lock request, whether or not
  grants overtake announcements. Both conditions are needed: run `retry` shows how a repeated
  pair-request loses requests, and a ready tab whose lock request is rejected is
  out of line. Only the requests of an estranged leader are left out, which run
  `overtake` shows to be lost. The parts below therefore speak of a tab and of
  another one that leads, or of a leader that is paired with itself. The
  theorem speaks of the counters `retries` and `rejects`, not of their bounds, so
  it also covers the start of behaviours that go on to retry. `StrandInv` has four
  parts:
  * `PairingInv`, on the handshake alone: a tab's link (`LinkInv`), which
    announcements may still be queued at a paired tab (`ElectedInv`), that a
    pair-request at the leader is still waited for and not yet acked
    (`RequestInv`), that the leader's ack finds its tab paired with it (`AckInv`), that
    announcements stand in the order of the elections and a pair-request at most
    once (`QueueInv`), and that a tab and the leader have met or are about to
    (`MeetInv`). `MeetInv` is the claim; the others are what keeps it: without the
    order an old announcement could take away a fresh pairing, without `RequestInv`
    the leader could replace a bridge in use and drop what is queued there.
    The proof first shows that every step looks to the handshake like one of
    eleven shapes (`HandshakeStep`, lemma `StepShape`), which say what becomes of the
    links and of the signals in each queue and nothing of requests and answers;
    each part is then proved against the shapes.
  * `ServedInv`: once paired, a tab that is not closing has a bridge at the leader,
    and each of its pending requests is queued there, in the map, or answered in
    the tab's own queue. `EnvelopeStays` and `EntrySteps` say by which steps a
    request, an answer or a map entry goes; `ServedAtElection` and `ServedAtAck` that a
    pairing starts with all of it, because the replay leaves nothing in flight
    out (`ReplayedAll`).
  * `FlightInv`: a pending request is in flight, so that a replay finds it.
  * `LineInv`: an open tab leads, waits for the lock or has it granted.

### Rendezvous (`RendezvousProofs`)

* `TypeCorrect`.
* `BlobsHaveRendezvous`: `BlobInv` adds `HeldInTime`, the
  state of an upload between its two sections: the expiry it carries is over,
  or is that of the record it was read from.
* `HandlesFreedOnce`: by its type invariant alone, action by action.
* `NotesReachAddressee`: `AddressInv` follows the seal of
  a note from the sender's encryption through the upload, the staged blob, the
  answer and the saving dialog.
* `BlobsHandedOutOnce`: `HandInv` adds that the upload of an accepted note is over
  for good, so its sender cannot stage it again, and that a blob in the store is
  accepted, not handed out yet, and under the code its sender typed, so that no
  two codes hold the same note.
* `MintsCapped`: `MintInv` states the cap for all windows, adds `Covered`, that a mint
  that passed is a TTL old or its counter still runs a TTL beyond it, and
  `CountBounds`, that while a counter runs its count bounds what any window not
  yet over has let pass. So a counter that has run out has no mint left in the
  windows it opens, and one that runs refuses at the limit.

### IdleLock and NotesStore

* `IdleLockProofs!TypeCorrect`, `NotesStoreProofs!TypeCorrect`.
* `IdleLockProofs!VaultLockedInTime`: `InTime` relates each tab's next tick, its idle
  clock and the messages that wait: a waiting heartbeat was sent no later than
  the last use, so hearing it cannot push the clock past the bound.
* `IdleLockProofs!ClocksFollowUse`: `AwareInv` adds `Told`: no idle clock is
  behind a heartbeat that was sent unless one waits in its queue.
* `NotesStoreProofs!ShownListsAreStored`, for browsers with BroadcastChannel:
  `StoreInv` says that generations number the loads (`Numbered`), that days are
  positive, so that a cursor taken from a row is never the absence of one, and
  that with no notification waiting the latest load is `Complete`: what it has
  collected and what lies below its cursor make up the view (`Current`). A page
  keeps this because the rows outside it are below its last row; a write needs
  no argument, because it leaves a message in the queue of every mounted tab.

### AuthVault (`AuthVaultProofs`)

* `TypeCorrect`, `VaultsFreedOnce` (`HandlesBalanced`): neither is inductive alone. A heap count
  stays a natural number only because the handle that is freed exists, and it
  exists only because of where the tab's async function stands; `LocalInv` adds
  `TabOK`, what screen, await and the credential in hand say of each other.
* `NoPasskeyWithoutStore`: `StoreInv` says how far a tab gets in such a browser.
* `ScreensMatchDisk`, `KeysAccountedFor`: proved together, as `KeyInv`. A stale tab may unlock
  with a credential that is no longer on disk; it adds no key that is not
  accounted for, because whatever a tab believes in, stale or not, was on disk
  once and was removed by its Forget or by a tab that could not know.

### RepoLifecycle (`RepoLifecycleProofs`)

* `TypeCorrect`, `MigrationsRunOnce`, `HandlersAtTarget`, `NoWorkerLeft`: one invariant,
  `RepoInv`, because none of its parts is inductive without the others. What an
  open transaction sees depends on which worker its request is in (`MigrationInv`), that
  the worker runs and its thread owns the files (`RequestInv`), that on the session's
  tier, and the tier on which requests can be under way at each rung (`LadderInv`).

### ServiceWorker (`ServiceWorkerProofs`)

* `TypeCorrect`, `ActiveIsReady`, `ChunksLostOnlyIfGone`: `ShellInv` orders the three
  slots by build, says of the installation in hand that it is raced or has
  fetched from the deployed build only, states readiness for the worker that
  waits too, which is the next to be active, that the keys an activation has
  chosen to delete do not include its own, and that a page is controlled by the
  active worker or none, so that what it misses while a request is on its way is
  excused from the moment it asked.

### Only model-checked

* The liveness properties (`EveryCallSettles`, `ReceiveEnds`,
  `Converges`, `LoadingEnds`, `ReleasedAfterUnmount`, `NeverStuck`, `UpdateEnds`):
  liveness under fairness is out of this prover's reach.

## Not modelled

* Cryptographic primitives and their bindings: a model would assume what it ought
  to show.
* Row ids, AAD, base64, the mint response and the blob framing: pure encodings of
  fixed-length byte strings, round-tripped by their unit tests.
* The editor's drafts, the search field and the selection: a draft lives in one
  component and is dropped with it. A save overwrites whatever another tab has
  done to the note meanwhile; rows carry no version, so there is nothing to state.
* React layout, Markdown rendering, translations, styling, deployment files and
  the server's start-up, CORS and routing keep no state of their own.
* A SharedWorker that is killed under its connections: no event tells the pages.

## Plan

All modules of the inventory's stateful parts exist, every run ends as expected,
and every invariant and refinement that a passing run checks is also a theorem. What no theorem
states are the liveness properties, which stay with TLC.
