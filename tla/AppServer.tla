------------------------------ MODULE AppServer -----------------------------
(***************************************************************************)
(* The RPC server of app/src/lib.rs: the App lifecycle (run, stop,         *)
(* join_threads), the worker threads of the transport running              *)
(* inner_method_handler, and the session State behind one Mutex.           *)
(*                                                                         *)
(* A handler that takes the lock keeps it for its whole body, so the body  *)
(* after state.lock() is one step; what happens before the lock (method    *)
(* parsing, params deserialisation) is a step of its own. A panic while    *)
(* the guard is held poisons the Mutex: every later state.lock().unwrap()  *)
(* panics too.                                                             *)
(***************************************************************************)
EXTENDS RpcModel

CONSTANTS
  MaxReq,     \* bound: requests (other than stop) a worker takes per server run
  NoHolder    \* the value of lock when no thread holds it

ASSUME AppServerAssumption ==
  /\ MaxReq \in Nat
  /\ NoHolder \notin Workers
  /\ Absent \notin Descs \cup SignerEntries
  /\ NoName \notin Names
  /\ Descs \subseteq [shape : Shapes, k : Nat, keys : Seq(Fps)]
  /\ Requests \subseteq RequestFields /\ Requests # {}

VARIABLES
  rpc,        \* App.rpc is Some
  server,     \* the JsonRpcServer: "off", "running" or "stopped"
  joining,    \* the App's owner is blocked in join_threads
  appErr,     \* the Error returned by the last App call
  wollets,    \* State.wollets
  signers,    \* State.signers
  lock,       \* the thread holding the State Mutex
  poisoned,   \* the Mutex is poisoned
  pc,         \* where each worker is: "idle", "received", "locked", "syncing"
  req,        \* the request a worker handles (or handled last)
  reply,      \* the reply to that request
  served      \* requests a worker has taken in this server run

appVars    == <<rpc, server, joining, appErr>>
workerVars == <<pc, req, reply, served>>
vars == <<appVars, wollets, signers, lock, poisoned, workerVars>>

-----------------------------------------------------------------------------
(* The descriptor classifier and the report builders of WalletDetails and  *)
(* WalletPsetDetails.                                                      *)

\* lib.rs 421-436: desc_type() first, then the wsh(multi(k, ...)) match.
WalletType(d) ==
  CASE d.shape = "wpkh"     -> [t |-> "Wpkh", k |-> 0, n |-> 0]
    [] d.shape = "shwpkh"   -> [t |-> "ShWpkh", k |-> 0, n |-> 0]
    [] d.shape = "wshmulti" -> [t |-> "WshMulti", k |-> d.k, n |-> Len(d.keys)]
    [] OTHER                -> [t |-> "Unknown", k |-> 0, n |-> 0]

\* lib.rs 440-443: every fingerprint of wollet.signers() inserts into a set.
HasUniqueFingerprints(fs) ==
  \A i, j \in 1..Len(fs) : i # j => fs[i] # fs[j]

\* lib.rs 438-466.
WalletDetailsOf(d, reg) ==
  [type     |-> WalletType(d),
   signers  |-> Resolve(reg, d.keys),
   warnings |-> (IF HasUniqueFingerprints(d.keys) THEN <<>>
                 ELSE <<[kind |-> "dup", fp |-> {}]>>)
                \o LookupWarnings(reg, d.keys)]

\* lib.rs 492-517: get_details splits the wallet's fingerprints into those
\* that have signed the PSET and those that have not.
PsetDetailsOf(d, reg, signed) ==
  LET has     == SelectSeq(d.keys, LAMBDA f : f \in signed)
      missing == SelectSeq(d.keys, LAMBDA f : f \notin signed)
  IN  [has      |-> Resolve(reg, has),
       missing  |-> Resolve(reg, missing),
       warnings |-> LookupWarnings(reg, has) \o LookupWarnings(reg, missing)]

-----------------------------------------------------------------------------
(* Steps of a worker.                                                      *)

\* The worker ends its request with reply rep, keeping the lock as it is.
Answer(w, rep) ==
  /\ reply' = [reply EXCEPT ![w] = rep]
  /\ pc' = [pc EXCEPT ![w] = "idle"]

\* The handler returns and its MutexGuard is dropped.
Done(w, rep) == Answer(w, rep) /\ lock' = NoHolder

\* A handler that returns an error with the state untouched.
Reject(w, e) == Done(w, Err(e)) /\ UNCHANGED <<wollets, signers, poisoned>>

\* A handler that returns a result with the state untouched.
Reply(w, v) == Done(w, Ok(v)) /\ UNCHANGED <<wollets, signers, poisoned>>

\* A panic under the guard: the guard is dropped while unwinding and the
\* Mutex is poisoned.
PanicLocked(w) ==
  Done(w, Panic("unwrap")) /\ poisoned' = TRUE /\ UNCHANGED <<wollets, signers>>

Handling(w, m) == pc[w] = "locked" /\ req[w].m = m

ParamsOk(r) == r.m \in NoParams \/ r.params = "ok"

\* The transport hands a request to an idle worker of a running server. A
\* worker is taken to survive a panic of its own handler (the transport,
\* tiny_jrpc, is outside this repository): it goes back to idle and keeps
\* serving.
Receive(w, r) ==
  /\ server = "running"
  /\ pc[w] = "idle"
  /\ served[w] < MaxReq \/ r.m = "Stop"
  /\ pc' = [pc EXCEPT ![w] = "received"]
  /\ req' = [req EXCEPT ![w] = r]
  /\ reply' = [reply EXCEPT ![w] = NoReply]
  /\ served' = [served EXCEPT ![w] = IF r.m = "Stop" THEN @ ELSE @ + 1]
  /\ UNCHANGED <<appVars, wollets, signers, lock, poisoned>>

\* lib.rs 128-131: an unknown method name.
Unimplemented(w) ==
  /\ pc[w] = "received"
  /\ req[w].m \notin Methods
  /\ Answer(w, Unimpl)
  /\ UNCHANGED <<appVars, wollets, signers, lock, poisoned, req, served>>

\* serde_json::from_value(request.params.unwrap()) panics on a request
\* without params; with unwrap_or_default() serde rejects Null; ill-shaped
\* params are rejected by serde. All before the lock.
ParamsRejected(w) ==
  LET r == req[w] IN
  /\ pc[w] = "received"
  /\ r.m \in Methods
  /\ ~ParamsOk(r)
  /\ Answer(w, IF r.params = "none" /\ r.m \in UnwrapParams
               THEN Panic("params") ELSE Err("params"))
  /\ UNCHANGED <<appVars, wollets, signers, lock, poisoned, req, served>>

\* A method answered without the lock: it may fail on its own argument when
\* it has one (parses) or in the external code it calls (canFail).
FreeMethod(w, m, parses, canFail) ==
  /\ pc[w] = "received"
  /\ req[w].m = m
  /\ ParamsOk(req[w])
  /\ \/ parses /\ req[w].arg = "bad" /\ Answer(w, Err("invalid"))
     \/ (~parses \/ req[w].arg # "bad") /\ Answer(w, Ok("none"))
     \/ (~parses \/ req[w].arg # "bad") /\ canFail /\ Answer(w, Err("upstream"))
  /\ UNCHANGED <<appVars, wollets, signers, lock, poisoned, req, served>>

\* lib.rs 133-137: method.parse()? then method.schema(direction)?.
Schema(w) == FreeMethod(w, "Schema", TRUE, FALSE)
\* lib.rs 138-146: SwSigner::random()?.
GenerateSigner(w) == FreeMethod(w, "GenerateSigner", FALSE, TRUE)
\* lib.rs 147-152.
Version(w) == FreeMethod(w, "Version", FALSE, FALSE)
\* lib.rs 330-361: variant parsing, keyorigin_xpub_from_str, multisig_desc?.
MultisigDescriptor(w) == FreeMethod(w, "MultisigDescriptor", TRUE, TRUE)
\* lib.rs 539-552: Vec::from_hex(issuer_pubkey)? then c.validate()?.
Contract(w) == FreeMethod(w, "Contract", TRUE, TRUE)

\* lib.rs 564-566: Err(Error::Stop), on which the transport stops serving.
StopRpc(w) ==
  /\ pc[w] = "received"
  /\ req[w].m = "Stop"
  /\ Answer(w, StopReply)
  /\ server' = IF server = "running" THEN "stopped" ELSE server
  /\ UNCHANGED <<rpc, joining, appErr, wollets, signers, lock, poisoned, req, served>>

\* A lock that retries for ever on a poisoned Mutex instead of unwrapping.
AcquireLockSpin(w) ==
  /\ pc[w] = "received"
  /\ req[w].m \in LockMethods
  /\ ParamsOk(req[w])
  /\ lock = NoHolder
  /\ \/ ~poisoned /\ lock' = w /\ pc' = [pc EXCEPT ![w] = "locked"]
                  /\ UNCHANGED reply
     \/ poisoned  /\ UNCHANGED <<pc, reply, lock>>
  /\ UNCHANGED <<appVars, wollets, signers, poisoned, req, served>>

\* state.lock().unwrap(): wait for the Mutex; on a poisoned one unwrap panics
\* and the guard is dropped at once.
AcquireLock(w) ==
  /\ pc[w] = "received"
  /\ req[w].m \in LockMethods
  /\ ParamsOk(req[w])
  /\ lock = NoHolder
  /\ \/ ~poisoned /\ lock' = w /\ pc' = [pc EXCEPT ![w] = "locked"]
                  /\ UNCHANGED reply
     \/ poisoned  /\ Answer(w, Panic("poisoned")) /\ UNCHANGED lock
  /\ UNCHANGED <<appVars, wollets, signers, poisoned, req, served>>

-----------------------------------------------------------------------------
(* The handlers that hold the lock: each is the whole body after           *)
(* state.lock(), ending when the guard is dropped.                         *)

\* LoadWallet inserting before the wallet is built: a failure of
\* Wollet::new then leaves the name registered.
LoadWalletInsertFirst(w) ==
  LET r == req[w] IN
  /\ Handling(w, "LoadWallet")
  /\ \/ ~CanInsert(wollets, r.name) /\ Reject(w, "exists")
     \/ /\ CanInsert(wollets, r.name)
        /\ wollets' = Insert(wollets, r.name, r.desc)
        /\ \/ Done(w, Err("upstream"))
           \/ Done(w, Ok(<<r.name, r.desc>>))
        /\ UNCHANGED <<signers, poisoned>>
  /\ UNCHANGED <<appVars, req, served>>

\* lib.rs 153-174: Wollet::new(...)? then wollets.insert(name)?.
LoadWallet(w) ==
  LET r == req[w] IN
  /\ Handling(w, "LoadWallet")
  /\ \/ Reject(w, "upstream")
     \/ ~CanInsert(wollets, r.name) /\ Reject(w, "exists")
     \/ /\ CanInsert(wollets, r.name)
        /\ wollets' = Insert(wollets, r.name, r.desc)
        /\ Done(w, Ok(<<r.name, r.desc>>))
        /\ UNCHANGED <<signers, poisoned>>
  /\ UNCHANGED <<appVars, req, served>>

\* UnloadWallet reading the entry after removing it.
UnloadWalletReadAfterRemove(w) ==
  LET n == req[w].name IN
  /\ Handling(w, "UnloadWallet")
  /\ \/ ~IsLoaded(wollets, n) /\ Reject(w, "notfound")
     \/ /\ IsLoaded(wollets, n)
        /\ wollets' = Remove(wollets, n)
        /\ Done(w, Ok(<<n, wollets'[n]>>))
        /\ UNCHANGED <<signers, poisoned>>
  /\ UNCHANGED <<appVars, req, served>>

\* lib.rs 175-189: wollets.remove(name)? returns the removed descriptor.
UnloadWallet(w) ==
  LET n == req[w].name IN
  /\ Handling(w, "UnloadWallet")
  /\ \/ ~IsLoaded(wollets, n) /\ Reject(w, "notfound")
     \/ /\ IsLoaded(wollets, n)
        /\ wollets' = Remove(wollets, n)
        /\ Done(w, Ok(<<n, wollets[n]>>))
        /\ UNCHANGED <<signers, poisoned>>
  /\ UNCHANGED <<appVars, req, served>>

\* lib.rs 190-202.
ListWallets(w) ==
  /\ Handling(w, "ListWallets")
  /\ Reply(w, Snapshot(wollets))
  /\ UNCHANGED <<appVars, req, served>>

\* The two calls of lib.rs 239-240 swapped: insert, then the identity read.
RegisterSignerInsertFirst(w, e) ==
  LET n == req[w].name IN
  \/ ~CanInsert(signers, n) /\ Reject(w, "exists")
  \/ /\ CanInsert(signers, n)
     /\ signers' = Insert(signers, n, e)
     /\ \/ e.jade /\ Done(w, Err("upstream"))
        \/ Done(w, Ok(SignerInfo(n, e)))
     /\ UNCHANGED <<wollets, poisoned>>

\* signer_response_from(name, signer)? then signers.insert(name, signer)?
\* (lib.rs 239-241); the Jade calls of signer_response_from may fail.
RegisterSigner(w, e) ==
  LET n == req[w].name IN
  \/ e.jade /\ Reject(w, "upstream")
  \/ ~CanInsert(signers, n) /\ Reject(w, "exists")
  \/ /\ CanInsert(signers, n)
     /\ signers' = Insert(signers, n, e)
     /\ Done(w, Ok(SignerInfo(n, e)))
     /\ UNCHANGED <<wollets, poisoned>>

\* lib.rs 203-242: the signer is built by kind, under the lock.
LoadSigner(w) ==
  LET r == req[w] IN
  /\ Handling(w, "LoadSigner")
  /\ \/ r.kind = "software" /\ r.arg = "none" /\ Reject(w, "invalid")
     \/ r.kind = "software" /\ r.arg = "bad" /\ Reject(w, "upstream")
     \/ r.kind = "software" /\ r.arg = "good"
        /\ RegisterSigner(w, [avail |-> TRUE, fp |-> r.fp, jade |-> FALSE])
     \* MutexJade::from_serial(network)? fails, or jade.unlock().unwrap() panics
     \/ r.kind = "serial" /\ Reject(w, "upstream")
     \/ r.kind = "serial" /\ PanicLocked(w)
     \/ r.kind = "serial"
        /\ RegisterSigner(w, [avail |-> TRUE, fp |-> r.fp, jade |-> TRUE])
     \/ r.kind = "external" /\ r.arg # "good" /\ Reject(w, "invalid")
     \/ r.kind = "external" /\ r.arg = "good"
        /\ RegisterSigner(w, [avail |-> FALSE, fp |-> r.fp, jade |-> FALSE])
     \/ r.kind \notin {"software", "serial", "external"} /\ Reject(w, "invalid")
  /\ UNCHANGED <<appVars, req, served>>

\* lib.rs 243-253: signers.remove(name)? and only then
\* signer_response_from(name, &removed)?.
UnloadSigner(w) ==
  LET n == req[w].name IN
  /\ Handling(w, "UnloadSigner")
  /\ \/ ~IsLoaded(signers, n) /\ Reject(w, "notfound")
     \/ /\ IsLoaded(signers, n)
        /\ signers' = Remove(signers, n)
        /\ \/ signers[n].jade /\ Done(w, Err("upstream"))
           \/ Done(w, Ok(SignerInfo(n, signers[n])))
        /\ UNCHANGED <<wollets, poisoned>>
  /\ UNCHANGED <<appVars, req, served>>

\* lib.rs 254-263: one failing signer_response_from fails the whole list.
ListSigners(w) ==
  /\ Handling(w, "ListSigners")
  /\ \/ (\E n \in Loaded(signers) : signers[n].jade) /\ Reject(w, "upstream")
     \/ Reply(w, {SignerInfo(n, signers[n]) : n \in Loaded(signers)})
  /\ UNCHANGED <<appVars, req, served>>

\* wollets.get_mut(name)?, then the argument parsed if the method has one
\* (parses), then calls into the wallet engine that may fail.
WalletOp(w, m, parses) ==
  LET r == req[w] IN
  /\ Handling(w, m)
  /\ \/ ~IsLoaded(wollets, r.name) /\ Reject(w, "notfound")
     \/ IsLoaded(wollets, r.name) /\ parses /\ r.arg = "bad" /\ Reject(w, "invalid")
     \/ /\ IsLoaded(wollets, r.name)
        /\ ~parses \/ r.arg # "bad"
        /\ Reject(w, "upstream") \/ Reply(w, "none")
  /\ UNCHANGED <<appVars, req, served>>

\* The sync made outside the guard, as a reimplementation that releases the
\* lock around network I/O would do.
SyncWalletOpUnlocked(w, m) ==
  LET n == req[w].name IN
  /\ Handling(w, m)
  /\ \/ ~IsLoaded(wollets, n) /\ Reject(w, "notfound")
     \/ /\ IsLoaded(wollets, n)
        /\ pc' = [pc EXCEPT ![w] = "syncing"]
        /\ lock' = NoHolder
        /\ UNCHANGED <<wollets, signers, poisoned, reply>>
  /\ UNCHANGED <<appVars, req, served>>

\* wollets.get_mut(name)?, then wollet.sync_txs() starts: a network call to
\* the Electrum endpoint made while the guard is held.
SyncWalletOp(w, m) ==
  LET n == req[w].name IN
  /\ Handling(w, m)
  /\ \/ ~IsLoaded(wollets, n) /\ Reject(w, "notfound")
     \/ /\ IsLoaded(wollets, n)
        /\ pc' = [pc EXCEPT ![w] = "syncing"]
        /\ UNCHANGED <<wollets, signers, lock, poisoned, reply>>
  /\ UNCHANGED <<appVars, req, served>>

\* sync_txs()? returns, an error dropping the guard; then the wallet call
\* (address, balance, send_many, issue_asset) that may fail.
SyncDone(w) ==
  /\ pc[w] = "syncing"
  /\ Reject(w, "upstream") \/ Reply(w, "none")
  /\ UNCHANGED <<appVars, req, served>>

\* lib.rs 264-277: get_mut, sync_txs()?, address(index)?.
Address(w) == SyncWalletOp(w, "Address")
\* lib.rs 278-288: get_mut, sync_txs()?, balance()?.
Balance(w) == SyncWalletOp(w, "Balance")
\* lib.rs 289-307: get_mut, sync_txs()?, send_many(...)?.
SendMany(w) == SyncWalletOp(w, "SendMany")
\* lib.rs 399-415: get_mut, PSET parse, finalize()?, broadcast()? unless dry_run.
Broadcast(w) == WalletOp(w, "Broadcast", TRUE)
\* lib.rs 469-485: get_mut, parse of every PSET, combine()?.
WalletCombine(w) == WalletOp(w, "WalletCombine", TRUE)
\* lib.rs 519-538: get_mut, sync_txs()?, issue_asset(...)?.
Issue(w) == SyncWalletOp(w, "Issue")

\* signers.get_available(name)?, then the argument parsed, then the signer
\* called: it may fail, or (panics) its failure is unwrapped under the lock.
SignerOp(w, m, panics) ==
  LET n == req[w].name IN
  /\ Handling(w, m)
  /\ \/ ~IsLoaded(signers, n) /\ Reject(w, "notfound")
     \/ IsLoaded(signers, n) /\ ~signers[n].avail /\ Reject(w, "external")
     \/ IsAvailable(signers, n) /\ req[w].arg = "bad" /\ Reject(w, "invalid")
     \/ /\ IsAvailable(signers, n)
        /\ req[w].arg # "bad"
        /\ \/ Reply(w, "none")
           \/ ~panics /\ Reject(w, "upstream")
           \/ panics /\ signers[n].jade /\ PanicLocked(w)
  /\ UNCHANGED <<appVars, req, served>>

\* lib.rs 308-329: singlesig_desc(signer, ...).unwrap().
SinglesigDescriptor(w) == SignerOp(w, "SinglesigDescriptor", TRUE)
\* lib.rs 362-378: signer.keyorigin_xpub(bip)?.
Xpub(w) == SignerOp(w, "Xpub", FALSE)
\* lib.rs 379-398: PSET parse, signer.sign(&mut pset)?.
Sign(w) == SignerOp(w, "Sign", FALSE)

\* lib.rs 416-468.
WalletDetails(w) ==
  LET n == req[w].name IN
  /\ Handling(w, "WalletDetails")
  /\ \/ ~IsLoaded(wollets, n) /\ Reject(w, "notfound")
     \/ IsLoaded(wollets, n) /\ Reply(w, WalletDetailsOf(wollets[n], signers))
  /\ UNCHANGED <<appVars, req, served>>

\* lib.rs 486-518: get_mut, PSET parse, get_details(&pset)?.
WalletPsetDetails(w) ==
  LET r == req[w] IN
  /\ Handling(w, "WalletPsetDetails")
  /\ \/ ~IsLoaded(wollets, r.name) /\ Reject(w, "notfound")
     \/ IsLoaded(wollets, r.name) /\ r.arg = "bad" /\ Reject(w, "invalid")
     \/ IsLoaded(wollets, r.name) /\ r.arg # "bad" /\ Reject(w, "upstream")
     \/ /\ IsLoaded(wollets, r.name)
        /\ r.arg # "bad"
        /\ Reply(w, PsetDetailsOf(wollets[r.name], signers, r.signed))
  /\ UNCHANGED <<appVars, req, served>>

\* lib.rs 553-563: AssetId parse, then get_asset: only the policy asset is
\* cached (insert_policy_asset in App::run); arg "none" is an uncached id.
AssetDetails(w) ==
  /\ Handling(w, "AssetDetails")
  /\ \/ req[w].arg = "bad" /\ Reject(w, "invalid")
     \/ req[w].arg = "none" /\ Reject(w, "notfound")
     \/ req[w].arg = "good" /\ Reply(w, "none")
  /\ UNCHANGED <<appVars, req, served>>

-----------------------------------------------------------------------------
(* The App, driven by its owner thread.                                    *)

\* App::run without the rpc.is_some() check: a second run replaces the
\* server and the State of a running one.
AppRunNoCheck ==
  /\ ~joining
  /\ \/ rpc /\ appErr' = "AlreadyStarted"
            /\ UNCHANGED <<rpc, server, wollets, signers, lock, poisoned, served>>
     \/ ~rpc /\ appErr' = "Io"
             /\ UNCHANGED <<rpc, server, wollets, signers, lock, poisoned, served>>
     \/ /\ rpc' = TRUE
        /\ server' = "running"
        /\ wollets' = EmptyRegistry
        /\ signers' = EmptyRegistry
        /\ lock' = NoHolder
        /\ poisoned' = FALSE
        /\ served' = [w \in Workers |-> 0]
        /\ appErr' = "none"
  /\ UNCHANGED <<joining, pc, req, reply>>

\* lib.rs 59-79: a fresh State (empty registries, new Mutex) served by a new
\* JsonRpcServer; Server::http(addr)? may fail to bind.
AppRun ==
  /\ ~joining
  /\ \/ rpc /\ appErr' = "AlreadyStarted"
            /\ UNCHANGED <<rpc, server, wollets, signers, lock, poisoned, served>>
     \/ ~rpc /\ appErr' = "Io"
             /\ UNCHANGED <<rpc, server, wollets, signers, lock, poisoned, served>>
     \/ /\ ~rpc
        /\ rpc' = TRUE
        /\ server' = "running"
        /\ wollets' = EmptyRegistry
        /\ signers' = EmptyRegistry
        /\ lock' = NoHolder
        /\ poisoned' = FALSE
        /\ served' = [w \in Workers |-> 0]
        /\ appErr' = "none"
  /\ UNCHANGED <<joining, pc, req, reply>>

\* lib.rs 81-89: rpc.stop() while rpc is Some.
AppStop ==
  /\ ~joining
  /\ \/ rpc /\ appErr' = "none"
            /\ server' = IF server = "running" THEN "stopped" ELSE server
     \/ ~rpc /\ appErr' = "NotStarted" /\ UNCHANGED server
  /\ UNCHANGED <<rpc, joining, wollets, signers, lock, poisoned, workerVars>>

\* lib.rs 102-108: rpc.take() then join_threads(), which blocks ...
AppJoin ==
  /\ ~joining
  /\ \/ rpc /\ rpc' = FALSE /\ joining' = TRUE /\ appErr' = "none"
     \/ ~rpc /\ appErr' = "NotStarted" /\ UNCHANGED <<rpc, joining>>
  /\ UNCHANGED <<server, wollets, signers, lock, poisoned, workerVars>>

\* join_threads returning without waiting for the workers.
JoinDoneEarly ==
  /\ joining
  /\ server = "stopped"
  /\ joining' = FALSE
  /\ server' = "off"
  /\ UNCHANGED <<rpc, appErr, wollets, signers, lock, poisoned, workerVars>>

\* ... until the server is stopped and every worker has finished its request.
JoinDone ==
  /\ joining
  /\ server = "stopped"
  /\ \A w \in Workers : pc[w] = "idle"
  /\ joining' = FALSE
  /\ server' = "off"
  /\ UNCHANGED <<rpc, appErr, wollets, signers, lock, poisoned, workerVars>>

-----------------------------------------------------------------------------

Init ==
  /\ rpc = FALSE
  /\ server = "off"
  /\ joining = FALSE
  /\ appErr = "none"
  /\ wollets = EmptyRegistry
  /\ signers = EmptyRegistry
  /\ lock = NoHolder
  /\ poisoned = FALSE
  /\ pc = [w \in Workers |-> "idle"]
  /\ req = [w \in Workers |-> CHOOSE r \in Requests : TRUE]
  /\ reply = [w \in Workers |-> NoReply]
  /\ served = [w \in Workers |-> 0]

\* Every step of worker w after it has taken a request.
Serve(w) ==
  \/ Unimplemented(w) \/ ParamsRejected(w) \/ StopRpc(w) \/ AcquireLock(w)
  \/ Schema(w) \/ GenerateSigner(w) \/ Version(w)
  \/ MultisigDescriptor(w) \/ Contract(w)
  \/ LoadWallet(w) \/ UnloadWallet(w) \/ ListWallets(w)
  \/ LoadSigner(w) \/ UnloadSigner(w) \/ ListSigners(w)
  \/ Address(w) \/ Balance(w) \/ SendMany(w) \/ Broadcast(w)
  \/ WalletCombine(w) \/ Issue(w) \/ SyncDone(w)
  \/ SinglesigDescriptor(w) \/ Xpub(w) \/ Sign(w)
  \/ WalletDetails(w) \/ WalletPsetDetails(w) \/ AssetDetails(w)

Next ==
  \/ \E w \in Workers, r \in Requests : Receive(w, r)
  \/ \E w \in Workers : Serve(w)
  \/ AppRun \/ AppStop \/ AppJoin \/ JoinDone

\* The steps a worker thread takes on its own: every step of Serve but the
\* return of a network sync (sync_txs waits on the Electrum endpoint).
Compute(w) == Serve(w) /\ pc[w] # "syncing"

\* Worker threads are scheduled by the OS: a thread that can compute keeps
\* being able to until it does (weak fairness); so is the owner's thread
\* blocked in join_threads once every worker thread has finished. Clients,
\* the owner's other calls and the network are not obliged to act.
Fairness == (\A w \in Workers : WF_vars(Compute(w))) /\ WF_vars(JoinDone)

Spec == Init /\ [][Next]_vars
FairSpec == Spec /\ Fairness

-----------------------------------------------------------------------------
(* Properties.                                                             *)

\* The variables of the App, the Mutex and the workers, with the kind of
\* every reply.
StateTypeOK ==
  /\ rpc \in BOOLEAN
  /\ server \in {"off", "running", "stopped"}
  /\ joining \in BOOLEAN
  /\ appErr \in {"none", "AlreadyStarted", "NotStarted", "Io"}
  /\ wollets \in [Names -> Descs \cup {Absent}]
  /\ signers \in [Names -> SignerEntries \cup {Absent}]
  /\ lock \in Workers \cup {NoHolder}
  /\ poisoned \in BOOLEAN
  /\ pc \in [Workers -> {"idle", "received", "locked", "syncing"}]
  /\ req \in [Workers -> Requests]
  /\ DOMAIN reply = Workers
  /\ \A w \in Workers : IsReply(reply[w])
  /\ served \in [Workers -> 0..MaxReq]

\* Each successful reply carries the response struct of its method.
ReplyTypeOK ==
  \A w \in Workers : reply[w].kind = "ok" => ResultType(req[w].m, reply[w].val)

\* The type invariant: the state and the response structs.
TypeOK == StateTypeOK /\ ReplyTypeOK

\* Mutex discipline and the end of a server run: the lock is held by the
\* one worker running a handler body, and once join_threads has returned
\* no worker is inside inner_method_handler and nobody holds the lock, so
\* the fresh State of the next App::run never meets a request of the
\* previous server.
QuiescentWhenOff ==
  /\ \A w \in Workers : pc[w] \in {"locked", "syncing"} <=> lock = w
  /\ server = "off" => lock = NoHolder /\ \A w \in Workers : pc[w] = "idle"

\* The inductive strengthening of QuiescentWhenOff: the App has no server
\* run in progress (rpc is None and nobody is joining) only when the server
\* is off, so App::run never replaces the State under a running handler.
QuiescentInv ==
  /\ StateTypeOK
  /\ QuiescentWhenOff
  /\ joining => ~rpc
  /\ ~rpc /\ ~joining => server = "off"

\* Spec 5: the lock is held across the network sync of Address, Balance,
\* SendMany and Issue, so the wallet a worker is syncing stays loaded until
\* its handler ends, whatever the other clients request meanwhile.
SyncingWalletLoaded ==
  \A w \in Workers :
     pc[w] = "syncing" =>
        /\ req[w].m \in {"Address", "Balance", "SendMany", "Issue"}
        /\ IsLoaded(wollets, req[w].name)

\* The environment assumption of the liveness properties: every network sync
\* a worker has started eventually returns (the code sets no timeout).
NetworkReturns == \A w \in Workers : pc[w] = "syncing" ~> pc[w] # "syncing"

\* If every sync returns, every request a worker has taken is eventually
\* finished (a reply, or a panic that ends the handler): the guard is
\* dropped on every path of every handler, and a waiter on a poisoned Mutex
\* panics rather than blocks. A request waits on the guard only as long as
\* the handler holding it, which a wedged sync makes for ever.
RequestsAnswered ==
  NetworkReturns => \A w \in Workers : pc[w] # "idle" ~> pc[w] = "idle"

\* If every sync returns, join_threads (lib.rs 102-108) returns once the
\* server is stopped, by a Stop request or by stop(): every worker finishes
\* the request it holds and takes no new one.
JoinReturns == NetworkReturns => (joining /\ server = "stopped" ~> ~joining)

\* The dispatcher implements the atomic registry: each request takes effect
\* at one point, with a reply computed from the registries at that point.
AR == INSTANCE AtomicRegistry WITH pending <- [w \in Workers |-> pc[w] # "idle"]
AtomicSpec == AR!Spec

\* The State Mutex keeps the std::sync::Mutex contract across server runs:
\* the registries change only when the worker holding the guard drops it,
\* poison is never cleared but by the new Mutex of App::run, and App::run
\* makes that Mutex only while no handler holds the old one.
SM == INSTANCE StateMutex WITH holder <- lock, data <- <<wollets, signers>>,
                               FreshData <- <<EmptyRegistry, EmptyRegistry>>
MutexSpec == SM!Spec

\* App keeps its lifecycle contract with its owner: AlreadyStarted and
\* NotStarted are reported exactly when rpc is Some or None, requests are
\* taken only while the server runs, join_threads returns only after every
\* request taken is answered, and a new run starts with none in flight.
LC == INSTANCE AppLifecycle WITH started <- rpc, serving <- server, err <- appErr,
                                 busy <- {w \in Workers : pc[w] # "idle"}
LifecycleSpec == LC!Spec

\* Spec 7: an UpstreamError (a signer or device failure) is recoverable; it
\* never makes the requests of other clients fail. The code panics on
\* jade.unlock().unwrap() (and singlesig_desc(..).unwrap()) while holding
\* the State lock, and every later state.lock().unwrap() panics.
NoPoisonCascade == \A w \in Workers : ~Is(reply[w], "panic", "poisoned")

\* Spec 7: malformed or missing request fields are a ParameterError reported
\* to the caller; handlers never panic on caller input. The code calls
\* request.params.unwrap() in twelve handlers.
NoPanicOnMissingParams == \A w \in Workers : ~Is(reply[w], "panic", "params")

\* A request that ends in an error has not changed the registries: a client
\* that sees an error may retry it. UnloadSigner removes the signer before
\* reading its identity from the device.
ErrorLeavesRegistries ==
  [][\A w \in Workers :
       (pc[w] # "idle" /\ pc'[w] = "idle" /\ reply'[w].kind = "err")
         => UNCHANGED <<wollets, signers>>
    ]_vars

=============================================================================
