# Rabby Mobile in TLA+

Models of the parts of Rabby Mobile where the order of events decides whether
a wallet keeps its accounts and its data and asks before it acts: the keyring
service with its vault and its lock, the scheduler that writes to the database
and the buffers above it, the persistent store under every service, the
approvals of what dapps request, and the watchers that follow a transaction
until it is mined. TLC checks them on small instances; TLAPS proves the results
listed below for every value of the constants.

Paths are relative to `src/`; `M` stands for `apps/mobile/src`.

## 1. The system

React Native runs the app's JavaScript on one thread. Nothing is preempted,
but nearly every operation is a chain of `await`s, and between two of them
anything else may run: another screen's call, a timer, an app state event, a
reaction to a native module. The process may be killed at any time. So the
hard questions are about what was read before an `await` and used after it,
what is on disk when the process ends, and who wakes whom.

| part | state it keeps | operations | talks to | what is hard |
|---|---|---|---|---|
| Keyring service (`packages/service-keyring`) | `store` (booted, vault, unencrypted data, public snapshot), mirrored to disk on every update; the decrypted keyrings, the password, the flags of the runtime in memory | boot, submitPassword, setLocked, addKeyring, removeAccount, updatePassword, reset, the deferred restore after an unlock | encryptor, keyring classes, key-value storage | interleaving of chains, a lock in the middle of one, a restore that is superseded, a keyring that does not deserialise, a kill between two writes |
| Lock and unlock API (`M/core/apis/lock.ts`, `autoLock.ts`, `utils/unlockRateLimit.ts`) | unlock time, expiry, rate limit, convergence timer | launch, unlock, lock, change of password, the auto-lock | keyring service, preferences, screens | the timer against operations under way, fallback timers, clocks |
| Database write scheduler (`M/databases/sync/scheduler.ts`, `_task.ts`) | queue, active task, pause and critical reasons, abort controllers, waiters | submit, replace, pause, resume, critical mode, abort one, abort all | SQLite, screens that refresh | replacement while the older task writes, an abort of a paused task, lost wake-ups, half-written tasks |
| Coalesced writes (`M/databases/sync/assets.ts`, `M/store/appchain.ts`) | buffers of pending rows and their timers | buffer, flush, abort | the scheduler | a flush that has left the buffer when everything is aborted |
| Persistent store (`packages/persist-store`) | state, revisions, scheduled flush, listeners | update, flushNow, subscribe | key-value storage, every service | callbacks that re-enter, exceptions, a kill before the microtask |
| Preferences and the other persisted services (`M/core/startupServices`, `M/core/services`) | records of settings | setters | persistent store | reconciliation with the keyring's password state at launch |
| Approvals (`M/core/services/notification.ts`) | queue of approvals, the current one, blocked dapps | request, resolve, reject, clear | RPC flow, modal window | an answer for an approval that is no longer the current one |
| RPC flow and provider controllers (`M/core/controllers`) | request context | the chain unlock, connect, approve, sign | approvals, keyring service | state checked at one step and used at a later one |
| Dapp bridge (`M/core/bridges`, `packages/providers`, `object-multiplex`, `post-message-stream`) | streams | open, close, forward | web view | mostly I/O |
| WalletConnect (`M/core/walletconnect`) | sessions, pending proposals and requests | pair, approve, reject, disconnect | relay, approvals | late answers, accounts removed while a session uses them |
| Transaction history and watchers (`M/core/services/transaction*.ts`) | pending groups, watched transactions | add, poll, broadcast, complete | RPC, history | retries, reload after a restart, two polls of one transaction |
| Deferred services (`M/core/services/deferred.ts`, `featureLoaders.ts`) | load promises | load, retry | services | a failed load shared by many callers |
| Start-up scheduler (`M/core/utils/startupScheduler.ts`) | tasks and gates | register, run | everything | order and timeouts |
| Keychain (`M/core/apis/keychain*.ts`) | the password in secure storage | set, get, clear, migrate | native module | two stores that must agree after a kill |
| Asset stores (`M/store`) | cached server data | fetch, apply | API, database | late answers |
| Keyrings, encryption, screens | | | | external here |

What makes each part correct, in a sentence:

- *Keyring service*: what was acknowledged comes back at the next unlock; the
  password that is accepted opens the vault; a locked wallet holds nothing
  secret; a runtime is called ready only when it is complete; nobody waits for
  ever.
- *Scheduler*: one writer at a time, rows in the order of their submission, no
  write after an abort, success only for what is written, and every promise
  settles.
- *Coalesced writes*: every buffered row is submitted once or reported lost,
  and none survives an abort of everything.
- *Persistent store*: a commit reaches the disk, the disk never goes back, and
  what was flushed is never lost.
- *Approvals*: each request is answered once, by the answer meant for it.
- *WalletConnect*: a request is answered by an account the session may use.
- *Watchers*: a pending transaction is watched until it is done, once.
- *Loader*: a service is built at most once, and a failure is not final.

`PROJECT.json` lists every part with its status, and every hazard with the
line where it bites and the properties that would catch it.

## 2. Modules

| module | what it is |
|---|---|
| `KeyringService` | the keyring service and the guards of the lock API |
| `AccountBook` | what that service promises: a durable set of accounts behind one password |
| `MCKeyringService` | who calls what, how often; six configurations |
| `KeyringService_proofs` | type correctness; the vault opens |
| `KeyringAccounts_proofs` | no account is lost |
| `KeyringBook_proofs` | no secret while locked; ready is complete; the service implements `AccountBook`; a change of password loses nothing |
| `SyncScheduler` | the database write scheduler and its runner |
| `WriteQueue` | what that scheduler promises to those who submit |
| `MCSyncScheduler` | two families after real callers |
| `SyncScheduler_proofs` | type correctness and four safety theorems; the scheduler implements the write queue |
| `CoalescedWrites`, `MCCoalescedWrites` | the buffers of balances, tokens and app chains above `WriteQueue` |
| `CoalescedWrites_proofs` | the invariants and the safety properties of the buffers; they use the scheduler as `WriteQueue` allows |
| `PersistStore` | the persistent store |
| `DurableCell` | what that store promises |
| `PersistStore_proofs` | its invariants and the refinement |
| `NotificationService` | the queue of approvals, its window and its lock |
| `RpcFlow` | what becomes of one request, on top of it |
| `Approvals`, `MCApprovals` | the sheets, the popup and the user around both; two configurations |
| `Approvals_proofs` | eight invariants of the three |
| `TransactionHistory` | the items and groups of the history, and its methods |
| `TransactionWatchers`, `MCTransactions` | the controller, the two watchers and the reloads around it |
| `TransactionWatchers_proofs` | the group's item with the most gas; types, final completion, following |

Three abstract specifications stand between components. `SyncScheduler`
implements `WriteQueue`, and `CoalescedWrites` is built on `WriteQueue` instead
of the scheduler: what is checked of the buffers holds over whatever the
scheduler does, and the composition stays small. `PersistStore` implements
`DurableCell`; `TransactionWatchers` relies on it where it keeps its records over
a kill, the write being a microtask and its steps being macrotasks.
`KeyringService` implements `AccountBook`.

Definitions keep the names of the functions they model. An operator whose name
is that of another with a suffix after an underscore (`Restart_KeepsPersisted`)
is a mutant: the same code with a plausible mistake, used to show that a
property can fail.

### 2.1 KeyringService

A caller `p` runs one operation at a time. `todo[p]` is what is left of its
chain, one *stage* per stretch of code between two `await`s, and `loc[p]` the
values the chain has captured. An operation (`SubmitPassword`, `AddKeyring`,
...) is the code up to its first `await`; each stage is an action of its own,
so whatever another caller does in between is a behaviour of the model. A
stage that throws empties the chain; `Advance` runs the `finally` block of
`submitPassword` when a chain ends either way.

- `store` is the observable store. `startupCoreLoader.ts:124` writes it to
  storage in the same turn as every update, so the disk and `store` are one
  variable and `Crash` keeps it.
- `mem` holds the private fields of the class: password, lock state, keyrings,
  the displayed list, the runtime flags and the deferred restore.
- `restore[i]` is the i-th deferred restore, a chain that belongs to no caller:
  `DeferredKeyring`, `DeferredSensitiveDone`, `DeferredPublicDone`,
  `DeferredShown`, `DeferredReady`, `DeferredThrows`.
- `Promise.all` over keyrings is `left[p]`, in any order; when one throws, the
  chain fails while the others go on as `orphans` and still push.
- A keyring is one element with one account. Lists are bags, so that a keyring
  pushed twice shows.
- `Screened` states the environment: the screens offer secrets only behind an
  unlock, submit only while locked, and the "trusted" password (from the
  keychain) is the right one. It also stands for the wait before an addition,
  `ensureKeyringRuntimeReadyForApi` (`M/core/serviceApi/keyring.ts:149`); without
  that, TLC finds the loss of section 5 in `keyring_faults`.
  The constant stands for guards around the service, not in it; `SingleUser`
  and every run but `keyring_converging` set it.

Abstracted: ciphers (a vault is the password it opens with and what is in it;
encrypting with no password throws), addresses, keyring types beyond sensitive
or public, events, performance marks.

### 2.2 SyncScheduler

`sched` is the state of `scheduler.ts` as one record, so that the functions one
turn calls in a row (`settle`, `completeTask`, `notifyPauseWaiters`, `pump`)
compose as operators; an action is one turn of the event loop. `sched.run[t]`
is where the runner of task `t` stands, from `started` over `waiting` (for a
pause to end), `clear`, `writing`, `sleeping` and `cleaning` to `finishing`,
the `finally` with the pump in it.

- The statuses queued and paused of a waiting task are one status here, and so
  are success, error, aborted and merged: no code but the screens' tells them
  apart. What the caller is told is `sched.promise`.
- `_task.ts` registers a controller in two maps and removes it when the promise
  settles. So the registered controllers are those of pending tasks.
- `abortAllSyncTasks` is one synchronous loop; the model cuts it into turns
  (`sweep`) during which nothing else is enabled.
- `MAX_CONCURRENT` is 1 in the code and in the model.

### 2.3 WriteQueue and CoalescedWrites

`WriteQueue` has what a submitter can see of the scheduler: the submissions, who
writes, what is in the database, who was aborted, and the promises. Pauses,
priorities, slots and the turns of a runner are not in it. `SyncScheduler` maps
to it by `Queue == INSTANCE WriteQueue WITH ...`; `broken` are the runners that
failed and have not told anybody yet.

`CoalescedWrites` has the three buffers that share a pattern and differ where it
matters: the balances and the tokens of `assets.ts`, the app chains of
`appchain.ts`.

- `Ask` is a request (`enqueueBalanceSync`, `enqueueTokenSync`,
  `persistAppChains`); `told[r]` is what became of the promise of request `r`.
- A flush is a record in `flushes` with its requests, the abort version at
  which it took them, and where it stands: `preparing` (it awaits the data
  source), `handed` (its task is with the scheduler), `clearing` (app chains
  only: nothing to write, old rows are deleted directly).
- `inFlight` are the families whose flush is guarded by a promise; balances
  have no such guard, so their flushes may overlap.
- `source` is whether the data source is there (`SourceAppears`). A flush that
  finds none starts its loader and awaits all of it; a later one that finds the
  source awaits only that, and may go on first (`databases/imports.ts:64-86`,
  `registry.ts:47-72`). `loads` tells the two apart for balances, whose flushes
  overlap; `Answerable` lets those that await the same go on in the order of
  their calls, and says nothing between the two kinds.
- `AbortAll` is `abortAllSyncTasks`: the version goes up, the handlers empty the
  buffers and answer, every registered task is aborted.
- `rows[f, a]` is the newest request whose rows are in the database; an owner's
  rows of a task land together.
- `Calm`: microtasks run before timers and before answers of the database.

Abstracted: the rows, and in the keys of tokens and app chains the owner, which
there counts addresses; no two tasks of such a family are pending at once, so
the difference cannot be seen. The wait of the app chains for the home screen
and the delay after it are one timer, both being cancelled by one handler.

### 2.4 PersistStore

Everything the store does is synchronous, but it calls out: a listener may
update or flush the store that calls it, `beforePersist` may update it, either
may throw. So the model keeps the call stack: `stack` holds the calls that have
called out (`update` in its loop, `persistPendingState` in the hook), and a
step is the code from one call out to the next. `Throw` unwinds any number of
them, since any listener or hook may catch. Between an update and its microtask
other microtasks and the rest of the turn may run, hence `microtasks` as a
queue of callback ids. A state is counted by the commits that led to it. The
number of subscribers is chosen at each update, which covers subscribing and
unsubscribing at any time.

### 2.5 NotificationService, RpcFlow and Approvals

One action is one macrotask. What a step settles is told in microtasks before
anything else happens: `settled[r]` holds what the flow of request `r` has to be
told, `Continue(r)` tells it, and every action of the user, of a timer or of
another request waits for `Calm`.

- `svc` is the notification service: the queue, the current approval, the open
  window, the lock, and the deferred function that a retry would run. Its
  methods (`requestApproval`, `resolveApproval`, `rejectApproval`,
  `rejectAllApprovals`, `deleteApproval`, `unLock`) are operators on it.
- An approval is a request and a step: `connect`, `approve`, and `waiting`, the
  popup in which the user waits for a signature. `Queueable` is the whitelist of
  components that may queue; a request that may not is refused by an exception
  in the executor of a promise, which nobody hears. That is modelled as it is:
  the flow waits for ever, and is `lost`.
- `rejectApproval` of the last approval empties the queue, has the sheet
  removed, waits 300 ms and then empties the queue again: `closing`, `Closed`.
- `stage[r]` is the await at which the flow of a request stands
  (`rpcFlow.ts`), `run[r]` its controller with the deferred function around it,
  `connecting` the set `connectOrigins`.
- `sheets` are the mounted sheets; each shows what was current when it last
  looked, while its buttons settle what is current now. `task` is the event or
  the `setTimeout(0)` behind an answer of the user. `popup` is the state of
  `PrivatekeyWaiting`, with its retry. It is "deaf" where the explanation of the
  transaction is unknown (`PrivatekeyWaiting.tsx:170-189`): it shows an error,
  listens to nothing, and can only be closed.
- `throwing` is the `catch` of the step "check connect" (`rpcFlow.ts:212-215`),
  which `autoConnect`, `getRecommendChains` and `connect` may reach. `MaxFails`
  caps those failures and the failing controllers together.
- `consent` and `lost` are ghosts: what the user confirmed on a sheet that
  showed it, and who asked in vain in one of the known ways.

The user does not act within the 300 ms of a closing sheet nor before a pending
`setTimeout(0)` has run, and only swipes away a sheet that the service has
forgotten. Not modelled: the blocking of a dapp that asks too often, automatic
`personal_sign`, the branches for Safe and hardware wallets, double taps, the
unlock step. Identifiers of sheets are used again when nothing refers to them;
`MaxSheets` = 6 is never reached.

### 2.6 TransactionHistory and TransactionWatchers

One address on one chain. `history[t]` is the status of an item, read off its
flags; a group is what has one nonce, and is what its item with the most gas is
(`findMaxGasTx`). The methods are operators on the history.

- `stage[t]` is the controller: a transaction is pushed, recorded, watched, with
  a step between any two in which a poll may answer or the process may be
  killed.
- A record or a watch that fails is logged and swallowed, and the controller
  goes on (`provider.ts:1193-1198`, `:1206-1208`, `:1218-1223`): a branch of `Record`
  and of `Watch`.
- `watched` (nonce to hash) and `requests` are the persisted `pendingTx` of the
  two watchers; `poll` is the running `checkStatus` with the hash it asks for,
  `asked[p]` the overlapping polls of the relay.
- `reloads` are the calls of `reloadTx` and the timers of their retries. They
  live in memory: `Restart` ends them, with `poll` and `asked`.
- The chain and the relay are the environment: `mined`, `relay`. A query is
  answered with what is true when it is answered, or fails; an answer of the
  relay tells of some of the requests asked for. The controller of this commit
  gives nothing to the relay, its `reqId` being always undefined
  (`provider.ts:1319`, `:1497`); the requests in `Init` are what an older version
  left on disk.
- `lost` is a ghost: pairs of a nonce and why nobody follows it any more. Each
  cause has its one place: "killed" is what only a reload or the controller had
  in hand when the process died; "gave up" that the reload and its retry failed;
  "not watched" that the watcher refused the transaction; "no group" that the
  receipt of a later nonce found no group to reload, and `_removeTx` dropped the
  smaller ids all the same (`transactionWatcher.ts:219-221`).

`HistoryLimit` = 500 completed groups is an assumption on the instance, so that
`clearAllExpiredTxs` keeps everything. Not modelled: events for the screens, the
records of swaps, bridges and sends beside the items, `updateBridgeGasAccountTx`
(section 5), `reloadTxRequest` (no caller), errors of queries other than for
receipts of mined transactions.

## 3. What the runs check

All bounds are constants, so none is hidden in an action.

| run | states | instance | shows |
|---|---|---|---|
| `keyring_sequential` | 76,883 | one caller, 7 operations, 2 secret and 1 public keyring, 2 passwords, 1 kill | a lock forgets everything secret, ready means complete, no account is lost, the book of accounts is implemented |
| `keyring_faults` | 1,471,739 | user (launch, unlock, addition, removal; 5 operations) beside one refresh, 1 secret and 2 public keyrings, 1 failing deserialisation, 1 kill | neither a failed restore nor one that other writes fall into lets a write cover the vault |
| `keyring_autolock` | 369,000 | user (4 operations, the change of password and the reset with a new one among them) against the lock timer, 1 kill | the vault opens with the accepted password |
| `keyring_converging` | 117,207 | user (3 operations, the erasing reset among them), timer and refresh, without the guards of the screens, 1 failure, fairness | chains end, the submission lock is released, the restoring flag comes down |
| `sync_scheduler` | 238,299 | 3 tasks over 2 keys, 1 hold, 1 abort of all, failing writes, fairness | section 1, *Scheduler*; the write queue is implemented |
| `coalesced_writes` | 1,465,188 | 3 requests over the three buffers, 3 tasks, clean-up after tokens and app chains, 1 abort of all, failing writes, fairness | section 1, *Coalesced writes* |
| `persist_store` | 71,185 | 4 commits, 2 listeners, calls nested 3 deep, 1 exception, 1 restart, fairness | section 1, *Persistent store* |
| `approvals` | 148,286 | a transaction, a text, a change of chain and a read, 2 dapps of which one is not connected, 1 failing controller or connection, fairness | section 1, *Approvals* |
| `transactions` | 156,168 | a request left with the relay, its replacement, one of the next nonce, 2 overlapping polls, 2 mishaps (a failing query, record or watch, a kill or a clearing), fairness | section 1, *Watchers* |

Three further runs find a violation, each of one sentence that the repository
says about itself; see section 6.

Why the bounds are enough. The hazards of the keyring service involve two
sessions (an unlock, a lock, an unlock) with one restore left over from the
first, one change of password and one kill: seven operations of one caller, or
four beside a lock, reach all of them, and the violations found need fewer. In
`keyring_faults` it is the kill that ends the first session; with a lock instead,
one caller and a failing restore are covered by `NothingIsLost` (section 4). Two
secret keyrings are needed so that a list can be half restored, one public one
for the part that is not encrypted, and a second where restoring that part may
fail halfway. `MaxRestores` is never reached. In the
scheduler every hazard is about a task, its successor and a third that waits;
two batches give an abort a place between them. A buffer needs a request that is
in flight, one that comes meanwhile, and one of another family that competes for
the writer: three requests, and one abort, after which nothing of the past is
left. In the store, a hook that updates under a listener that flushes is three
deep, and one exception and one restart are enough to lose what can be lost. In
the approvals the four requests are one of each kind that the code treats
differently; two signatures queue behind each other, the third request may not
queue, and two requests of a dapp that is not connected race for the connection.
The transactions are the smallest set in which a nonce has two items, one of
them through the relay, and a later nonce can complete first; two mishaps are a
failed reload and a failed retry, a failure and a kill, or a group that the user
removed and whatever else happens.

Deadlock is checked for the keyring service, where the only states that may
stand still are the quiescent ones (`Stand`). The others stop when their bounded
inputs are used up, so their configurations switch it off; that nothing hangs
there is what their liveness properties say.

**Fairness.** The event loop runs every reaction that is due, native modules and
queries answer (with a result or an error), synchronous calls return. So:

- keyring: weak fairness on continuations;
- scheduler: on turns, and that a pause or a critical mode ends: `Unlock.tsx`
  ends it in a `finally`, the home screen when it is ready or its fallback timer
  fires;
- buffers: weak fairness on timers, flushes and writes together, and strong
  fairness on the settling of tasks. The second is what `EverySubmissionSettles`
  says of the scheduler: it settles what is submitted, however often other
  things come between;
- approvals: weak fairness on everything that runs without the user, and a user
  who in the end closes what is open (without that, asking is waiting);
- transactions: on the watcher's polling and on reloads with their timers.
  Neither the chain mines nor the relay answers by assumption.

No fairness makes a user or a timer start an operation, a process die or
anything fail.

**Reading the less obvious properties.**

- `ReadyMeansComplete`: the flag is what persisting trusts, so a ready but
  incomplete runtime means that the next write drops keyrings from the disk.
- `ImplementsBook`: on disk the set of accounts changes by the account an
  operation names and by nothing else; that covers every unlock, lock, restore,
  refresh and change of password at once.
- `OlderNeverOverwrites` is not implied by `OneWriter`: it says which of two
  tasks of a family comes first.
- `ImplementsQueue`: an abort cannot stop the batch under way, and nothing starts
  after it; a promise never says more than was written.
- `AbortReachesBuffers`: what was asked for before an abort starts no write after
  it, although the request may be in a buffer, in a flush that awaits the data
  source, or in a task; the three are stopped by three different means.
- `NewestStays` exempts the balances of a flush that awaited the loader,
  `SavedIsWritten` those of an aborted task: see section 5. Nothing else may go
  back, and nobody else be told what is not so.
- `NoLostWakeup` (store): a revision not on disk has a live callback.
- `ImplementsCell`: the disk moves forward through committed states only and
  keeps what `flushNow` promised, kills included.
- `NoGhostApproval`: whoever can be asked still waits for the answer, so no press
  of a button goes to nobody; `OnlyKnownLosses` is the other direction: a flow
  waits for something that can still be answered, unless it is `lost` in one of
  the ways listed in section 5.
- `ConsentRequired`: the buttons of a sheet settle what is current, not what is
  shown; the property says that the two never differ when it matters.
- `ConnectHeld`: a mark without a flow that connects is never left behind,
  whichever await refuses or throws, or the dapp would hear "already processing"
  until the app is restarted; and a flow that connects has its dapp marked, alone,
  unless another of the same dapp has failed (section 5).
- `SigningTracked`: the nonces of the next transactions are counted from the
  signing list, so a transaction on it too long or not long enough shifts them.
- `Followed`: the watcher forgets a nonce before the reload that it starts has
  completed anything; something must always be left that will. The exceptions are
  the four causes of `lost`, each recorded by the one step that has it, so that
  a loss elsewhere violates the property. `Completes` adds that each of them takes
  a mishap.
- `CompletedIsFinal`: answers of the relay may come late and twice.

## 4. What is proved

Assumptions: the `ASSUME`s of the modules (types of the constants), and the
hypotheses in a theorem's own statement. No bound is used anywhere: the bounds of
the runs are constants of which the proofs know only that they are numbers.

| theorem | says |
|---|---|
| `TypeCorrect` | `Spec => []TypeOK` for the keyring service |
| `VaultAlwaysOpens` | with one user, the auto-lock and refreshes: `Spec => []VaultOpens` |
| `NothingIsLost` | with one caller: `NothingLost` |
| `NoSecretsWhileLocked`, `ReadyIsComplete` | with one caller whose deserialisations succeed: `LockedHoldsNoSecrets` and `ReadyMeansComplete` |
| `ChangingLosesNothing` | for the same caller, who may change the password: `NothingLost` |
| `ServiceImplementsBook` | for the same caller: `Spec => ImplementsBook`, the service implements `AccountBook` |
| `SchedulerTypeCorrect`, `WritesAreSerial`, `WritesKeepOrder`, `SuccessIsWritten` | the scheduler's invariants `TypeOK`, `OneWriter`, `OlderNeverOverwrites`, `ResolvedMeansWritten` |
| `ReplaceableQueuedOnce` | a replaceable family has one task in the queue at most |
| `SchedulerImplementsQueue` | `Spec => ImplementsQueue`: the scheduler implements `WriteQueue` |
| `StoreTypeCorrect`, `DiskIsPersistedRevision`, `NoRevisionForgotten` | the store's `TypeOK`, `DiskMatches`, `NoLostWakeup` |
| `FlushSurvives`, `StoreImplementsCell` | with a hook that does not flush: `FlushIsDurable`, and the refinement of `DurableCell` |
| `ApprovalsTypeCorrect`, `QueueStaysConsistent`, `ApprovalsAreAwaited`, `LockHasOwner`, `ConnectingIsHeld`, `HangsAreKnown` | the approvals' `TypeOK`, `QueueConsistent`, `NoGhostApproval`, `LockOwned`, `ConnectHeld`, `OnlyKnownLosses` |
| `ConsentIsRequired`, `SigningIsTracked` | the approvals' `ConsentRequired`, `SigningTracked` |
| `UsesTheScheduler` | every behaviour of the buffers is one of `WriteQueue` |
| `NoneForgotten`, `AbortIsHeard`, `RowsNeverGoBack`, `SavedIsThere` | the buffers' `BuffersOK`, `AbortReachesBuffers`, `NewestStays`, `SavedIsWritten` |
| `WatchersTypeCorrect`, `SentIsFollowed`, `CompletedStaysCompleted` | the watchers' `TypeOK`, `Followed`, `CompletedIsFinal` |
| `MaxGasInGroup` | a group that is not empty has an item with the most gas |

*The vault* (`VaultInv`). `vault` and `booted` are written by different stages
with passwords captured at different times, so `VaultOpens` alone is not
inductive. The strengthening: the password in memory is the booted one or none
(`PasswordHeld`); a chain that stands at its write, its verification or its
boot holds the booted one (`Captured`); such stages never stand further back in
a chain, and other callers' chains have none (`Chains`). The hypothesis
`SingleUser` says that operations of the user do not overlap, that only the
lock and the refresh run beside them, and that the reset without a new password
is not used (no screen calls it, and with it the theorem is false: see the
hazards).

*The accounts* (`VaultInv /\ AccountsInv`). An account is due when its addition
was acknowledged, or is under way and past its push; every write serialises what
memory holds, so an account is lost when a write knows less than the disk. The
invariant therefore follows the due accounts, stage by stage: they are on disk
(`StoreFits`), in memory once the runtime is ready (`MemFits`), in memory and the
deferred payload while a restore owes the rest, which a failure puts back
(`RestoreFits`), in memory and the captured lists during an unlock (`Opens`), in
the serialised list of a write (`Saves`), and of the public ones in the memory of
a locked session as long as nothing failed (`PublicFits`). `Chain` says which
stage may follow which, so that these parts need to look at the first stage only.
The hypothesis `OneCaller` is
that one caller launches, unlocks, locks, adds, removes and refreshes, one after
the other, with the deferred restores running beside it. It leaves out the
change of password, after which the claim is false if a restore has failed
(section 5; `ChangingLosesNothing` has it where none does), and a lock in
the midst of an addition, which the auto-lock can make: there a list serialised
in one session is written in the next, which the invariant does not follow
and no run checks.

*The book* (`VaultInv /\ BookInv /\ OpenBooked`). That nothing is lost bounds
memory from below. Here it has to be exact: one keyring more in memory than on
disk is an account that the next persist writes although nobody added it, and
one keyring twice is an account that a removal leaves behind. So copies are
counted. What stands in memory, in the list that is still to be deserialised and
in the list behind it adds up to each recoverable account once (`One`, `Two`,
`Three`), at every stage of an unlock and of a deferred restore; from a push or a
removal to the write, the accounts are those the operation is about to make of
them (`Goal`, `Aim`). `Place` has the assertion of the stage that is next,
`Script` which stages may follow one another, `Sticky` what holds all along an
operation, and `Waits` what holds of the deferred restore that a chain waits
for. An operation that is at rest leaves an opened or a closed session
(`Opened`, `Closed`), which is all that the two invariants need.

The same invariant gives the refinement. Of the stages only five write the
accounts or the password (the boot, the two encryptions with their password, the
two plain lists); for each of them the invariant says which set it writes, hence
which action of the book it is. All other steps are an opening, a closing or
nothing, since an open session has a password on disk (`OpenBooked`).

The hypothesis `Alone` is that one caller launches, unlocks, locks, adds, removes,
refreshes and changes the password, one after the other, with the deferred
restores beside it and a kill anywhere, and that no deserialisation fails. A
failed one leaves the rest of its list in memory or in the payload, so that what
is shown and what is on disk differ until the next unlock: there the counts above
are false, and only the lower bound of `NothingIsLost` remains. That bound is
proved again here (`Recorded`), since `OneCaller` has no change of password: what
is acknowledged is on disk, an addition from its write on, and nobody counts on
an account between its removal and the write. TLC has checked
`BookInv` on two instances of the hypothesis before it was proved.

*The scheduler* (`Good`). What is queued, active, or finished is a matter of
three variables and a status (`Lists`); at most one task is active
(`OneActive`); a runner past its task's end never writes again (`Slots`, where
the aborted but not yet stopped runner sits); the queue and the active task
respect the order of submission within a key (`Order`); what a runner has left
to write is counted (`Counted`). Each function of `scheduler.ts` has a lemma
that it keeps `Good`; a turn keeps it because it composes such functions.

*The write queue.* For each function of `scheduler.ts` a second lemma says what
the queue sees of it: nothing, of the pump and of the waking of waiters
(`Alike`); one aborted task and at most one rejected promise, of an abort
(`Aborts`); a set of each, of a submission that replaces (`Withdraws`). Two
facts join `Good`: a task has ended exactly when its promise has settled
(`Told`), and `Owing`: a failed runner that nobody aborted still owns the slot,
and a runner that waits or sleeps has something left to write. The first makes
`Reject` possible when the failure is told, and the last makes `Begin` possible
when the runner goes on.

*The store* (`Inv`, `Forward`). Each call that is about to write carries a
state and its revision that were read together, so writing them keeps disk and
persisted revision in step. The flag and the id always name a callback that is
still queued, so no revision is forgotten. If the hook does not flush, at most
one call is about to write and its state is no older than the disk.

*The approvals* (`Inv == TypeOK /\ Core /\ Marked /\ LockOwned /\ FailedEnded /\ ConnectHeld`).
`Core` is that the queue is consistent and every approval in it awaited, with two
facts the runs do not name: a promise is settled only while its flow waits for
it, and the approval whose sheet is closing is in nobody's hands but awaited.
Every step does one of three things to the promises: the flow of one request
moves on (`Moves`), the promises of some approvals settle (`Settles`), or
nothing (`Stands`). Each of the three keeps `Core`, once; the rest is to say of
every action which of the three it is. `FailedEnded`, that who was answered with
an error has ended, is what makes a flow leave its connection and its mark in the
same step where it throws.

*Consent and the signing list* (`ScreenInv`, `FlowInv`). The buttons of a sheet
settle what is current, so it has to be shown that a mounted sheet shows nothing
else while its buttons can be pressed (`ShownFits`, `PopupFits`), unless a task
or an answer that makes it look again is pending (`WindowFits`, `FollowedUp`); and
that only requests whose sheets cannot be confused are queued together
(`QueueMixes`). `FlowInv` then relates the controller of each request to the
consent given (`ConsentFits`) and to the signing list (`SigningFits`). Neither
part is inductive without the other or without `Inv`.

*The buffers* (`Inv == BuffersOK /\ QueueOK /\ FlushesOK /\ BufferFits`). They
are `WriteQueue` with more variables, and `UsesTheScheduler` shows that they do
with it only what it allows. Beyond that, a flush that is not aborted has the
current abort version (`Fresh`); what it has not written is newer than the rows
there are, unless it awaited the loader (`RowsOld`); what it has is there
(`RowsThere`); two flushes that awaited the same hand over in the order in which
they took their requests, and those that awaited the loader hold the older ones
(`Ordered`), although flushes of balances overlap; and of a key only its eldest
pending task has written anything (`QueueOK`), so that what a flush of the loader
writes is the only thing that can go back. What is still in a buffer is newer than
all of them (`BufferFits`).

*The transactions* (`Inv == TypeOK /\ Sound /\ Asking /\ Followed`). `Sound`: what
is completed has a receipt. `Asking`: a reload asks for items of its own nonce, so
that what it completes is what it was started for. `Followed` is then kept step by
step: whatever ends a watch or a reload starts another, completes or clears the
nonce, or is one of the four losses. That a group has an item with the most gas
is an induction over its size; it is made by way of the least number of items
without a bound for their gas, which does not exist.

*Only model-checked*: all liveness properties (the provers installed do not
handle fairness or `ENABLED`), and with `Completes` its part without fairness. Every
safety property that a passing run checks is stated by a theorem, and but for
`keyring_faults` the run's instance satisfies its hypotheses: there the refresh runs
beside the user, whom `OneCaller` has alone. For the keyring service the hypotheses
cannot simply be dropped: `keyring_stale_restore` and
`keyring_lock_during_change` violate `ReadyMeansComplete` and
`LockedHoldsNoSecrets` beside the auto-lock (section 6). What is neither proved
nor part of a run is `NothingLost` beside the auto-lock (section 5), and the book
where deserialisations fail.

## 5. What does not hold, or is not claimed

- `NothingLost` is not claimed for a change of password after a failed
  restore, nor where the reset can be started. Of public keyrings it is claimed
  only while every deserialisation succeeded: `persistUnencryptedKeyrings` of a
  locked session writes what is in memory (`keyringService.ts:2202`), so an
  addition or a removal after a restore that failed at launch drops the others
  from the disk.
- Nor is it claimed for a change of password beside the auto-lock. A lock that
  falls after `shouldRestoreVaultForPasswordUpdate` has found the keyrings in
  memory (`keyringService.ts:2132`), or among the deserialisations of the reload,
  and before `persistPasswordAndAllKeyrings` serialises the list (`:2180`) makes
  it write a vault without what the lock cleared; TLC shows both when
  `NothingLost` is put in place of the invariant of `KeyringLockDuringChange.cfg`
  (the second with two sensitive keyrings installed). The first needs a lock
  between two promises that resolve at once; the second needs a change begun while
  a deferred restore is still owed. `updateWalletPassword` is marked as not used
  (`lock.ts:229`), but `SwitchBiometricsAuthentication.tsx:97` and
  `Backup.tsx:101` call it. Without a change of password, the same trial beside the
  auto-lock (launch, unlock, addition, removal, one lock) finds no loss.
- Nor beside a lock that falls into a refresh: the superseded restore declares
  the runtime of the next session ready (finding 1), and a persist that trusts
  the flag writes an incomplete list.
- Nor for an addition that does not wait for the runtime. While a deferred restore
  holds its list, an addition of a public type of which nothing is on disk does
  not wait in the service either (`keyringService.ts:514-525`), is pushed to the
  current list and acknowledged; `this.keyrings = nextKeyrings` (`:1435`) then drops
  it, and the persist that joins the restore writes the vault without it. The
  screens wait before they add (`M/core/serviceApi/keyring.ts:149`), which
  `Screened` models; the path of `M/core/apis/safe.ts:95-108`, after a `getKeyring`
  that failed, does not.
- `LockedHoldsNoSecrets` is claimed while every deserialisation succeeds.
  `openVault` holds the password (`keyringService.ts:712`) before `unlockKeyrings`
  may throw, and nothing takes it back: after an unlock that failed, the password
  and the keyrings already pushed stay in the locked service until the next lock,
  where `assertCanPersistKeyringMutation` (`:2083`) takes it for an open session.
- That a runtime is ready only while unlocked is not claimed. A change of password
  of a locked wallet marks it ready through `unlockKeyrings` (`:1338`), and
  `restoreLockedRuntimeAfterPasswordUpdate` (`:2166-2171`) leaves the flag up until
  the next unlock resets it (`keyringService.watch.test.ts:224` runs that path); so
  does a restore that a lock superseded (finding 1).
- Two additions of the same account at once may both pass `checkForDuplicate`
  (`keyringService.ts:836`), which compares one `await` late.
- The reset without a new password leaves the session unlocked
  (`keyringService.ts:457`), and the one with a new password empties the list of
  keyrings first, so that the change of password reloads them from the vault and
  writes them again (`:448`). Both are in the developer menu only.
- A low task that a critical mode pauses keeps the only slot, so the high tasks
  the mode lets through wait until it ends.
- `flushNow` called under `beforePersist` would let the outer write cover the
  newer state; the only hook of the app (`preference.ts:332`) only logs.
- A listener that updates the store it listens to makes those behind it hear
  the newer revision first; no subscriber of the app does.
- `abortAllSyncTasks` returns while a batch may be under way; its callers drop
  the database without waiting for it.
- Balances may go back to older ones: a flush that found no data source awaits
  the whole loader, a later one that finds the source awaits only that and may
  be handed over first (`databases/imports.ts:64-84`, `registry.ts:47-72`).
- `flushPendingBalanceSyncs` does not look at `queueCompleted`: balances whose
  task was aborted are reported as saved (`assets.ts:158-182`).
- The app chains build their rows before their `try`: if building threw, those
  who asked would never be answered. The model assumes that it does not throw.
- `syncRemoteTokensAmount` uses one key for the tokens of all addresses
  (`assets.ts:545`): an update of one address aborts that of another.
- Some requests are never answered (`lost`): one that may not queue is refused
  where nobody hears it, one that arrives within the 300 ms of a closing sheet
  is emptied from the queue with it, one whose controller throws hangs, because
  the `reject` in `requestDeferFn`'s `catch` is lodash's function, and one that
  asks while another flow holds the lock and no window is open gets no sheet.
- `SIGN_FINISHED` names no request: a controller that outlives its popup
  resolves the next one with its own result.
- A connection releases its mark (`rpcFlow.ts:199`) before it writes the
  permission (`:200`). When that throws, the `catch` (`:212-215`) frees the mark
  again, which may by now be that of another flow of the same dapp; then two
  connections of one dapp may run at once.
- Two comments speak of a "maximum retry 15 times" (`transactionHistory.ts:1054`
  and `:1088`); the code retries once, since its timer calls `reloadTx` without a
  duration. When that fails too, the transaction stays pending.
- A transaction may stay pending for ever without any failure: its nonce and a
  later one are mined, the user removes the later one from the history (the
  watcher keeps it), its receipt finds no group to reload
  (`transactionHistory.ts:1018`), and `_removeTx` drops the earlier id with it
  (`transactionWatcher.ts:219-221`). The same happens when the later one was never
  recorded. A transaction that the watcher refused (`provider.ts:1206-1208`,
  `:1218-1223`) is not followed either.
- `updateBridgeGasAccountTx` (`M/core/apis/transactionHistory.ts:147-174`) spreads an
  item it read before an `await` and may take back what was completed meanwhile;
  it is not modelled, and `CompletedIsFinal` does not speak of it.
- `removeLocalPendingTx` of one nonce leaves the watcher as it is: it compares
  the nonce with the chain of its ids.

## 6. Findings

Runs that end in a violation, each of a sentence of the repository:

1. `keyring_stale_restore`: a deferred restore looks at its id before it shows
   its list and not after; a lock and a new unlock in between get their runtime
   marked ready although their own keyrings are not restored.
2. `keyring_lock_during_change`: the auto-lock fires while a change of password
   encrypts; the chain then puts the new password into the locked service.
3. `approvals_retry`: the retry of a failed signature waits for a signal that the
   popup sends only after the retry, so that neither goes on and the popup stays
   as it is; the toast "Resent" never comes.

## 7. Plan

In this order; each step extends a module above or composes with it.

1. The lock API: convergence timer and fallback, unlock time and session,
   auto-lock with a clock, rate limit; then the keychain against the keyring's
   password state, with kills between the two.
2. `WalletConnect`: sessions against removed accounts, late requests, over
   `Approvals`.
3. `DeferredServices`: one load, many callers, failures.
4. The nonces that the controller counts from the signing list and the history
   together.

Proofs, of the keyring service: `NothingLost` with the auto-lock beside the
user, where the list that one session serialised is written in the next; then
the book where deserialisations fail, with a set of keyrings that are on disk
and not in memory in place of the exact counts.

Not planned: rendering, cryptography, device protocols, the contents of
records that are only stored and shown, and streams of the dapp bridge. They
are most of the repository by lines: screens, hooks, configuration tables and
translations keep next to no state whose order matters.
