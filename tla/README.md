# Verification of the satsails-lwk RPC server

This directory holds TLA+ models of the JSON-RPC application server in
`src/app/src/lib.rs`, the TLC runs that check them, and TLAPS proofs.

## The system

`src/app/src/lib.rs` has these parts:

- **`App`** (lines 47-113). `run` builds a fresh `State` behind an
  `Arc<Mutex<State>>` and starts a `tiny_jrpc::JsonRpcServer`. `stop`
  asks that server to stop. `join_threads` takes the server out of
  `App.rpc` and blocks until its worker threads end. `run` on a started
  App fails with `AlreadyStarted`; `stop` and `join_threads` on an
  unstarted one fail with `NotStarted`.
- **The dispatcher**: `method_handler` and `inner_method_handler`
  (lines 115-569). The transport's worker threads call it once per
  request. It:
  - parses the method name (an unknown name gets `Response::unimplemented`);
  - deserialises the params (`unwrap_or_default()` in some handlers,
    `unwrap()` in twelve);
  - for 18 of the 24 methods, takes `state.lock().unwrap()` and runs the
    handler body while holding the guard.

  `Stop` returns `Err(Error::Stop)`, and the transport stops serving on it.
- **The session state**: the wallet registry `State.wollets` and the signer
  registry `State.signers`. Both map names to entries. The registry code
  (`state.rs`) is not under `src/`, so it is modelled from spec sections 4.1
  and 4.5.
- **`signer_response_from`** (lines 579-598). For an available signer it
  calls into the signer, which for a Jade device may fail. For an external
  signer it only reports the fingerprint.
- **The WalletDetails and WalletPsetDetails reports** (lines 416-518): a
  descriptor classifier, a duplicate-fingerprint check, and the resolution of
  fingerprints to signer names with warnings.

### How the parts interact

Concurrent requests interact only through the Mutex. Each handler body runs
entirely under the guard. A panic while the guard is held (`jade.unlock().unwrap()`
at line 221, `singlesig_desc(..).unwrap()` at line 324) poisons the Mutex. After
that, every later `state.lock().unwrap()` panics. The App's owner thread
interacts with the workers through the server's running state (`stop`, a Stop
request, `join_threads`). `run` after `join_threads` starts from a new, empty
State.

### What is outside the model

Wallet sync, signing, devices, descriptors, contracts and the transport are
external crates. A call into one of them is modelled by its outcome: success, an
upstream error, or a panic where the code unwraps the result.

## Modules

| Module | Models |
|---|---|
| `Registry` | The named registries: `Insert`, `Remove`, `IsLoaded`, `IsAvailable` (`get_available`), `Snapshot` (`iter`), and `NameFromFingerprint` / `LookupWarnings` (`name_from_fingerprint` with its warnings). Spec-modelled. |
| `RpcModel` | The shared vocabulary: the method sets; which methods unwrap their params; requests, abstracted to the fields the handlers branch on; replies (`Ok`, `Err`, `Panic`, `StopReply`, `Unimpl`); `SignerInfo` (`signer_response_from`); and `ResultType`, the response struct of each method. |
| `AppServer` | The whole server (described below). |
| `AtomicRegistry` | The abstract contract of the dispatcher (described below). |
| `StateMutex` | The abstract contract of the State Mutex (described below). |
| `AppLifecycle` | The abstract contract of `App` towards its owner (described below). |
| `MCAppServer` | Model values and request sets for TLC. |
| `AppServerProofs` | TLAPS proofs of the type invariant and the Mutex discipline. |
| `AppServerRefinement` | TLAPS proofs that a synced wallet stays loaded, that `AppServer` implements `AtomicRegistry`, and that failed requests keep the registries. |
| `AppServerContracts` | TLAPS proofs that `AppServer` implements `StateMutex` and `AppLifecycle`. |

### AppServer

Its state:

- `rpc`, `server`, `joining`, `appErr`: the App and the server.
- `wollets`, `signers`: the State.
- `lock`, `poisoned`: the Mutex.
- `pc`, `req`, `reply`, `served`: one entry per worker thread.

`pc` takes four values:
- `idle`: no request.
- `received`: the request was taken and its method and params are being
  parsed.
- `locked`: inside a handler body.
- `syncing`: inside `wollet.sync_txs()`, a network call made while the
  guard is held (Address, Balance, SendMany, Issue).

The step granularity follows the code. These are separate steps:

- **Before the lock:**
  - `Receive`: taking a request. A worker is taken to survive a panic of its
    own handler (that is up to `tiny_jrpc`, outside this repository).
  - `Unimplemented`: an unknown method.
  - `ParamsRejected`: a params failure, which is a panic for a missing
    params object in an `unwrap()` handler.
  - The methods that never lock: `Schema`, `GenerateSigner`, `Version`,
    `MultisigDescriptor`, `Contract` and `StopRpc`.
- **Acquiring the Mutex:** `AcquireLock`. It waits for a free lock, then
  either takes it or, on a poisoned Mutex, panics.
- **Each handler body** is one step that ends by dropping the guard:
  `LoadWallet`, `UnloadWallet`, `ListWallets`, `LoadSigner` (through
  `RegisterSigner`), `UnloadSigner`, `ListSigners`, `WalletOp` (Broadcast,
  WalletCombine), `SignerOp`
  (SinglesigDescriptor, Xpub, Sign), `WalletDetails`, `WalletPsetDetails`
  and `AssetDetails`.
- **The handlers that sync first** (Address, Balance, SendMany, Issue) take
  two steps under the guard. `SyncWalletOp` is `get_mut` and the start of
  `sync_txs`. `SyncDone` is the sync's return and the wallet call after it,
  each of which may fail. The guard is held across both, so the network
  call is a step that other workers wait on.

Every `?` in a body is an `Err` branch, in the code's order. For example,
`LoadWallet` may fail in `Wollet::new` before the name check, and
`UnloadSigner` removes the signer before `signer_response_from` may fail. An
`unwrap()` under the guard is a `PanicLocked` branch, which poisons the Mutex.

`AppRun`, `AppStop`, `AppJoin` and `JoinDone` model `App::run`, `stop` and
`join_threads`. `join_threads` is split into its start (`AppJoin`, which takes
`rpc`) and its return (`JoinDone`, once the server has stopped and every worker
is idle).

### AtomicRegistry

It says what spec sections 4-7 promise:

- Each request takes effect in one atomic step.
- A successful reply is computed from the registries of that step.
- A failed request leaves the registries untouched.
- `NotFound`, `NameAlreadyExists` and `ExternalSigner` errors are only reported
  when true.

The one failure that changes the registries is allowed explicitly as
`RemovedThenFailed`: an `UnloadSigner` of a Jade signer whose identity read
fails. `AppServer` implements `AtomicRegistry` under the refinement mapping
`pending <- [w |-> pc[w] # "idle"]`, checked as the property `AtomicSpec`.

### StateMutex

It states the `std::sync::Mutex` contract as the server relies on it, over
the variables `holder`, `poisoned` and `data` (the guarded State):

- `Acquire(w)`: `lock()` hands the guard to `w` only if the Mutex is free and
  not poisoned.
- `Release(w)`: only the holder drops the guard. The State may change only in
  this step. A drop while panicking may set the poison flag; nothing clears it.
- `Renew`: `App::run` builds a new Mutex over a fresh State. This is allowed
  only while nobody holds the old one.

A failed `lock()` on a poisoned Mutex changes none of the three, so it is a
stutter. The mapping is `holder <- lock`, `data <- <<wollets, signers>>` and
`FreshData <- <<EmptyRegistry, EmptyRegistry>>`, checked as `MutexSpec`.
`Renew` is where the mapping is not trivial: in the code the old Mutex and the
new one are different objects. They can be merged into one abstract Mutex
only because no handler still holds the old one.

### AppLifecycle

It states what `App` promises its owner: `run`, `stop` and `join_threads`,
each with its `AlreadyStarted` / `NotStarted` / bind error. The workers appear
only as the set `busy` of requests in flight:

- `Begin(w)`: a request is taken only while the server is running.
- `End(w)`: a request is answered; a Stop request may stop the server.
- `JoinReturns`: `join_threads` returns only once the server has stopped and
  `busy` is empty.
- `Run`: a new server run starts only with `busy` empty.

The mapping is `started <- rpc`, `serving <- server`, `err <- appErr` and
`busy <- {w : pc[w] # "idle"}`, checked as `LifecycleSpec`.

## Runs

All runs use `MCAppServer` with:
- names `{n1, n2}`;
- fingerprints `{f1, f2}`;
- three descriptors: a 2-of-2 `wsh(multi)`, a `wpkh`, and a 1-of-2
  `wsh(multi)` whose keys share one fingerprint.

`MaxReq` bounds the requests (other than Stop) that a worker takes per server
run. Stop is exempt, so a client can always still stop the server.

| Run | Workers / MaxReq | Checks | Result |
|---|---|---|---|
| `all_methods` | 1 / 3 | `TypeOK`, `AtomicSpec` | pass (24 255 states) |
| `concurrent_registry` | 2 / 2 | `QuiescentWhenOff`, `AtomicSpec`, `MutexSpec`, `LifecycleSpec` | pass (346 581 states) |
| `sync_under_lock` | 2 / 2 | `SyncingWalletLoaded` | pass (91 977 states) |
| `liveness` | 2 / 2, `FairSpec` | `RequestsAnswered`, `JoinReturns` | pass (91 977 states) |
| `poison_cascade` | 2 / 1 | `NoPoisonCascade` | violated |
| `missing_params` | 1 / 1 | `NoPanicOnMissingParams` | violated |
| `unload_signer_error` | 1 / 2 | `ErrorLeavesRegistries` | violated |

What each run covers:

- **`all_methods`:** every method, and every error, panic and success branch,
  for one worker. Across restarts every request is typed and refines the
  atomic contract (whose `Failure` outcome already says that an error or a
  panic leaves the registries unchanged).
- **`concurrent_registry`:**
  - two workers interleave loads, unloads, lists and name resolution, with
    Stop, join and restart;
  - the lock is held exactly by the worker inside a handler;
  - after join no request is in flight;
  - every interleaving refines the atomic contract.
- **`sync_under_lock`:** one client syncs a wallet while the other unloads
  or reloads it, or loads a Jade signer. The wallet being synced stays loaded
  for the whole network call, because the other handlers wait on the guard.
- **`liveness`:** the same requests under the fairness below, and under
  `NetworkReturns`, the explicit assumption that every sync returns.
  `RequestsAnswered`: every request a worker takes is finished. "Finished"
  includes a panic: a worker waiting behind a poisoning panics at its
  `lock().unwrap()` instead of blocking, so poison never hangs a worker, but
  it does not answer either; that failure is `NoPoisonCascade`'s.
  `JoinReturns`: once the server is stopped, `join_threads` returns, because
  every worker finishes the request it holds and takes no new one.

Why these bounds are enough:

- Two workers are enough for every pairwise interleaving of handlers and for a
  poisoning seen by a second worker.
- Two names and two fingerprints give the cases that matter: a name taken or
  free, a fingerprint matched by zero, one or two signers, and a wallet with
  repeated fingerprints.
- `MaxReq` 2-3 allows load, use and unload in one run, and a restart after it.

Each passing property has a mutant, a plausible bug that TLC catches:

| Property | Mutant |
|---|---|
| `TypeOK` | UnloadWallet reading the entry after removing it |
| `AtomicSpec` (all_methods) | LoadWallet inserting before `Wollet::new` |
| `AtomicSpec` (concurrent_registry) | `signer_response_from` and `insert` swapped |
| `QuiescentWhenOff` | `join_threads` returning without waiting for the workers |
| `MutexSpec` | the same early `join_threads`: the next `App::run` renews the Mutex under a running handler |
| `LifecycleSpec` | `App::run` without the `rpc.is_some()` check (`AppRunNoCheck`) |
| `SyncingWalletLoaded` | the sync made after releasing the guard |
| `RequestsAnswered`, `JoinReturns` | a lock that spins on a poisoned Mutex |

### Fairness

`Fairness` is weak fairness of `Compute(w)` for each worker and of
`JoinDone`. `Compute(w)` is every step of `Serve(w)` except `SyncDone`, the
return of the Electrum call. A worker thread that can compute eventually
does, because the OS schedules it. The owner blocked in `join_threads`
returns once every worker has finished, for the same reason. Clients, the
owner's other calls and the network get no fairness: nothing obliges them
to act.

The return of a sync is therefore not assumed. Spec section 5 states that
this core enforces no timeout, so a wedged network call wedges every locked
request and `join_threads`. Both liveness properties are implications from
`NetworkReturns == \A w : pc[w] = "syncing" ~> pc[w] # "syncing"`. What they
show is that nothing else in the code hangs a request or the join: every
path of every handler, the error paths included, drops the guard.

Two further assumptions are built into the model's steps:
- `broadcast()` and the Jade calls are inside single handler steps, so they
  too are taken to return;
- `MaxReq` bounds the requests of a server run, so starvation at the unfair
  `std::sync::Mutex` cannot occur in a run (see Not modelled).

## Findings

- **Poison cascade.** A Jade unlock failure (line 221) or a `singlesig_desc`
  failure (line 324) panics under the lock. After that, every later locked
  request panics at its `state.lock().unwrap()`. Spec section 7 calls upstream
  errors recoverable.
- **Missing params.** Twelve handlers call `request.params.unwrap()` (lines
  290-554). A request without params panics the worker, which contradicts
  "handlers never panic on caller input".
- **UnloadSigner is not atomic.** It removes the signer (line 247) before
  reading its identity from the device (line 248). An error reply can
  therefore follow a removal that is kept.

## Proofs

`AppServerProofs.tla` proves, for every value of the constants, under
`AppServerAssumption`:

- **`StateTypeCorrect`:** `Spec => []StateTypeOK`, the state part of the type
  invariant.
- **`QuiescentWhenOffHolds`:** `Spec => []QuiescentWhenOff`.

`AppServerAssumption` requires:
- `MaxReq \in Nat`;
- `NoHolder`, `Absent` and `NoName` are fresh values;
- descriptors and requests are well-formed;
- `Requests` is non-empty.

`QuiescentWhenOff` is not inductive by itself. `App::run` replaces the lock and
the State, which is safe only if no handler is running. The strengthening
`QuiescentInv` adds `StateTypeOK` and two facts:

- `joining => ~rpc`;
- `~rpc /\ ~joining => server = "off"`: an App with no server run in progress
  has its server off. Together with `QuiescentWhenOff`, this means no worker is
  inside a handler.

TLC checked `QuiescentInv` on `all_methods` and `concurrent_registry` before
the proof.

The proof has one lemma per shape of step:
- `LockedEndInv`: a handler body (or the sync it started) ends by dropping
  the guard.
- `SyncStartInv`: a handler starts its sync and keeps the guard.
- `EarlyEndInv`: a worker answers before the lock.
- `TakeLockInv`: a worker takes the lock.

Further lemmas reduce each action to one of these shapes. `NextInv` then
combines them, one step per action.

The registry operators have their own lemmas, `InsertTyped` and
`RemoveTyped`: `insert` and `remove` keep a registry a total map from names to
entries or `Absent`. The handler lemmas cite them instead of expanding
`Insert` and `Remove`.

`AppServerRefinement.tla` proves two more theorems under the same
assumption:

- **`SyncingWalletLoadedHolds`:** `Spec => []SyncingWalletLoaded`. The
  invariant is inductive together with `QuiescentInv`. A worker that is
  syncing holds the lock (`QuiescentWhenOff`), so any other handler that
  ends would also have to hold it, which is impossible. `App::run` replaces
  the State only when the server is off, and then no worker is syncing.
- **`Refinement`:** `Spec => AtomicSpec`, where `AtomicSpec` is
  `AtomicRegistry!Spec` under the mapping `pending <- [w |-> pc[w] # "idle"]`.
  The proof follows the usual pattern: initial states map to initial states,
  and under `QuiescentInv /\ SyncingWalletLoaded` every step maps to an
  abstract step or a stutter.
  - `Receive` is `Submit`.
  - Every step that answers a request is `Serve`. There is one lemma per
    handler (`LoadWalletFinishes`, `UnloadSignerFinishes`, ...) showing its
    reply is an `Outcome` the contract allows.
  - `AcquireLock`, starting a sync, `AppStop`, `AppJoin` and `JoinDone` are
    stutters.
  - The fresh State of `App::run` is `Reset`. `QuiescentInv` is what makes
    this valid: nothing is pending when the App has no server run.
  - The end of a sync needs `SyncingWalletLoaded`. A `Balance` reply is a
    success only if the wallet is loaded at the step that answers it.

`AppServerContracts.tla` proves that the same server implements the two
other contracts. Both proofs rest on `QuiescentInv` alone.

- **`MutexRefinement`:** `Spec => MutexSpec`.
  - A handler body that ends (`LockedEnd`) is `Release(w)`. The worker holds
    the lock by `QuiescentWhenOff`. `LockedEnd` now says the poison flag is
    only ever set (`poisoned' \in {poisoned, TRUE}`), which
    `AppServerProofs` proves for every handler.
  - `AcquireLock` on an unpoisoned Mutex is `Acquire(w)`.
  - The fresh State of `App::run` is `Renew`. The lock is free because
    `~rpc /\ ~joining` forces the server off.
  - Every other step leaves the lock, the flag and the registries alone.
    `ServeShapes` now also states this for the start of a sync.
- **`LifecycleRefinement`:** `Spec => LifecycleSpec`.
  - `Receive` is `Begin`.
  - A worker's last step is `End`. This is lemma `AnswerEnds`: the busy set
    loses exactly that worker.
  - A worker's other steps keep the busy set (`BusyStutter`).
  - `App::run` is `Run`; its guard `busy = {}` again comes from
    `QuiescentInv`.
  - `AppStop` is `Stop`, `AppJoin` is `Join` and `JoinDone` is
    `JoinReturns`.

### What is only model-checked

- **`ReplyTypeOK`**, the per-method response struct. It depends on
  `LookupWarnings` and `SelectSeq`, which are recursive functions. Proving what
  they compute needs induction over data, which the installed provers cannot do.
- **`RequestsAnswered`** and **`JoinReturns`**, which are liveness under
  fairness.

## Not modelled

- The external crates (`Wollet`, signers, `MutexJade`, descriptor and contract
  code), beyond the outcome of each call.
- `client.rs` and `config.rs`, which hold no shared state.
- The duration of a network call. The sync at line 268 runs under the guard,
  so one slow Electrum call delays every locked request. The model makes the
  sync a step that the others wait on, and assumes (`NetworkReturns`) that
  it ends. It cannot measure how long the others wait.
- Starvation at `state.lock()`. `std::sync::Mutex` is not fair, so a waiting
  worker can be overtaken by the others for as long as their clients keep
  sending requests. `MaxReq` makes every run finite in requests, so this
  overtaking always ends in the model, and no run can show starvation.
