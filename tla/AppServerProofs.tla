--------------------------- MODULE AppServerProofs ---------------------------
(***************************************************************************)
(* Proofs about AppServer, for every set of workers, names, fingerprints,  *)
(* descriptors and requests and every MaxReq: the state keeps its types,   *)
(* and the Mutex discipline of QuiescentWhenOff holds in every reachable   *)
(* state. The argument is by the inductive invariant QuiescentInv.         *)
(***************************************************************************)
EXTENDS AppServer, TLAPS

\* The end of a handler body under the lock (or of the sync it started):
\* worker w answers rep, drops the MutexGuard (poisoning the Mutex if it
\* panicked, never clearing the poison), and leaves the registries well-typed.
LockedEnd(w) ==
  /\ pc[w] \in {"locked", "syncing"}
  /\ \E rep : /\ IsReply(rep)
              /\ reply' = [reply EXCEPT ![w] = rep]
  /\ pc' = [pc EXCEPT ![w] = "idle"]
  /\ lock' = NoHolder
  /\ wollets' \in [Names -> Descs \cup {Absent}]
  /\ signers' \in [Names -> SignerEntries \cup {Absent}]
  /\ poisoned' \in {poisoned, TRUE}
  /\ UNCHANGED <<appVars, req, served>>

\* A worker answering before it takes the lock: the lock, the Mutex and the
\* registries are left alone; only a Stop request moves the server.
EarlyEnd(w) ==
  /\ pc[w] = "received"
  /\ \E rep : /\ IsReply(rep)
              /\ reply' = [reply EXCEPT ![w] = rep]
  /\ pc' = [pc EXCEPT ![w] = "idle"]
  /\ \/ server' = server
     \/ server = "running" /\ server' = "stopped"
  /\ UNCHANGED <<rpc, joining, appErr, wollets, signers, lock, poisoned, req, served>>

-----------------------------------------------------------------------------
(* Lemmas on the registry operators of state.rs.                           *)

\* insert and remove of the Named Registry keep a registry a total map from
\* names to entries or Absent, whatever entry set S it holds.
LEMMA InsertTyped ==
  ASSUME NEW S, NEW reg \in [Names -> S \cup {Absent}], NEW n \in Names, NEW e \in S
  PROVE  Insert(reg, n, e) \in [Names -> S \cup {Absent}]
BY DEF Insert

LEMMA RemoveTyped ==
  ASSUME NEW S, NEW reg \in [Names -> S \cup {Absent}], NEW n \in Names
  PROVE  Remove(reg, n) \in [Names -> S \cup {Absent}]
BY DEF Remove

-----------------------------------------------------------------------------
(* Lemmas on the two shapes of a worker's last step.                       *)

LEMMA LockedEndInv ==
  ASSUME QuiescentInv, NEW w \in Workers, LockedEnd(w)
  PROVE  QuiescentInv'
<1>1. StateTypeOK'
  BY DEF QuiescentInv, StateTypeOK, LockedEnd, appVars
<1>2. QuiescentWhenOff'
  <2>1. lock = w
    BY DEF QuiescentInv, QuiescentWhenOff, LockedEnd
  <2>2. \A v \in Workers : pc'[v] \in {"locked", "syncing"} <=> lock' = v
    BY <2>1, AppServerAssumption DEF QuiescentInv, QuiescentWhenOff, StateTypeOK, LockedEnd
  <2>3. server # "off"
    BY DEF QuiescentInv, QuiescentWhenOff, LockedEnd
  <2>. QED
    BY <2>2, <2>3 DEF QuiescentWhenOff, LockedEnd, appVars
<1>3. (joining => ~rpc)' /\ (~rpc /\ ~joining => server = "off")'
  BY DEF QuiescentInv, LockedEnd, appVars
<1>. QED
  BY <1>1, <1>2, <1>3 DEF QuiescentInv

LEMMA EarlyEndInv ==
  ASSUME QuiescentInv, NEW w \in Workers, EarlyEnd(w)
  PROVE  QuiescentInv'
<1>1. StateTypeOK'
  BY DEF QuiescentInv, StateTypeOK, EarlyEnd
<1>2. server # "off"
  BY DEF QuiescentInv, QuiescentWhenOff, EarlyEnd
<1>3. QuiescentWhenOff'
  BY <1>2 DEF QuiescentInv, QuiescentWhenOff, StateTypeOK, EarlyEnd
<1>. QED
  BY <1>1, <1>3 DEF QuiescentInv, EarlyEnd

-----------------------------------------------------------------------------
(* Every step of a worker has one of the two shapes.                       *)

\* The fields of a request that the handlers store.
LEMMA RequestFieldsTyped ==
  ASSUME StateTypeOK, NEW w \in Workers
  PROVE  /\ req[w].name \in Names /\ req[w].desc \in Descs /\ req[w].fp \in Fps
         /\ req[w].m \in STRING /\ req[w].kind \in STRING
BY AppServerAssumption DEF StateTypeOK, RequestFields

\* The handlers that never touch the registries end in LockedEnd.
LEMMA ReadOnlyHandlers ==
  ASSUME QuiescentInv, NEW w \in Workers,
         \/ ListWallets(w) \/ ListSigners(w) \/ AssetDetails(w)
         \/ \E m, parses : WalletOp(w, m, parses)
         \/ \E m, panics : SignerOp(w, m, panics)
         \/ WalletDetails(w) \/ WalletPsetDetails(w)
  PROVE  LockedEnd(w)
BY DEF QuiescentInv, StateTypeOK, LockedEnd, ListWallets, ListSigners, AssetDetails,
       WalletOp, SignerOp, WalletDetails, WalletPsetDetails, Handling, Reply, Reject,
       Done, Answer, PanicLocked, IsReply, Ok, Err, Panic, ErrReasons, PanicCauses

LEMMA WalletHandlers ==
  ASSUME QuiescentInv, NEW w \in Workers, LoadWallet(w) \/ UnloadWallet(w)
  PROVE  LockedEnd(w)
<1>1. req[w].name \in Names /\ req[w].desc \in Descs
  BY RequestFieldsTyped DEF QuiescentInv
<1>2. /\ Insert(wollets, req[w].name, req[w].desc) \in [Names -> Descs \cup {Absent}]
      /\ Remove(wollets, req[w].name) \in [Names -> Descs \cup {Absent}]
  BY <1>1, InsertTyped, RemoveTyped DEF QuiescentInv, StateTypeOK
<1>. QED
  BY <1>1, <1>2 DEF QuiescentInv, StateTypeOK, LockedEnd, LoadWallet,
       UnloadWallet, Handling, Reject, Done, Answer, IsReply, Ok, Err, ErrReasons

LEMMA RegisterSignerEnd ==
  ASSUME QuiescentInv, NEW w \in Workers, pc[w] = "locked",
         NEW e \in SignerEntries, RegisterSigner(w, e),
         UNCHANGED <<appVars, req, served>>
  PROVE  LockedEnd(w)
<1>1. req[w].name \in Names
  BY RequestFieldsTyped DEF QuiescentInv
<1>2. Insert(signers, req[w].name, e) \in [Names -> SignerEntries \cup {Absent}]
  BY <1>1, InsertTyped DEF QuiescentInv, StateTypeOK
<1>. QED
  BY <1>1, <1>2 DEF QuiescentInv, StateTypeOK, LockedEnd, RegisterSigner,
       Reject, Done, Answer, IsReply, Ok, Err, ErrReasons

LEMMA SignerHandlers ==
  ASSUME QuiescentInv, NEW w \in Workers, LoadSigner(w) \/ UnloadSigner(w)
  PROVE  LockedEnd(w)
<1>1. req[w].name \in Names /\ req[w].fp \in Fps
  BY RequestFieldsTyped DEF QuiescentInv
<1>2. CASE LoadSigner(w)
  <2>1. /\ [avail |-> TRUE, fp |-> req[w].fp, jade |-> FALSE] \in SignerEntries
        /\ [avail |-> TRUE, fp |-> req[w].fp, jade |-> TRUE] \in SignerEntries
        /\ [avail |-> FALSE, fp |-> req[w].fp, jade |-> FALSE] \in SignerEntries
    BY <1>1 DEF SignerEntries
  <2>2. pc[w] = "locked" /\ UNCHANGED <<appVars, req, served>>
    BY <1>2 DEF LoadSigner, Handling
  <2>. QED
    BY <1>2, <2>1, <2>2, RegisterSignerEnd
    DEF QuiescentInv, StateTypeOK, LockedEnd, LoadSigner, Reject, Done, Answer,
        PanicLocked, IsReply, Err, Panic, ErrReasons, PanicCauses
<1>3. CASE UnloadSigner(w)
  <2>1. Remove(signers, req[w].name) \in [Names -> SignerEntries \cup {Absent}]
    BY <1>1, RemoveTyped DEF QuiescentInv, StateTypeOK
  <2>. QED
    BY <1>1, <1>3, <2>1 DEF QuiescentInv, StateTypeOK, LockedEnd,
         UnloadSigner, Handling, Reject, Done, Answer, IsReply, Ok, Err, ErrReasons
<1>. QED
  BY <1>2, <1>3

\* The steps of a worker before the lock, and the free methods.
LEMMA EarlyHandlers ==
  ASSUME QuiescentInv, NEW w \in Workers,
         \/ Unimplemented(w) \/ ParamsRejected(w) \/ StopRpc(w)
         \/ AcquireLock(w) /\ poisoned
  PROVE  EarlyEnd(w)
BY DEF EarlyEnd, Unimplemented, ParamsRejected, StopRpc, FreeMethod, AcquireLock,
       Answer, IsReply, Ok, Err, Panic, Unimpl, StopReply, ErrReasons, PanicCauses, appVars

LEMMA FreeMethodEnd ==
  ASSUME NEW w \in Workers, NEW m, NEW parses, NEW canFail,
         FreeMethod(w, m, parses, canFail)
  PROVE  EarlyEnd(w)
BY DEF EarlyEnd, FreeMethod, Answer, IsReply, Ok, Err, ErrReasons, appVars

\* Taking the free lock of an unpoisoned Mutex.
LEMMA TakeLockInv ==
  ASSUME QuiescentInv, NEW w \in Workers, AcquireLock(w), ~poisoned
  PROVE  QuiescentInv'
<1>1. lock' = w /\ pc' = [pc EXCEPT ![w] = "locked"] /\ lock = NoHolder
      /\ pc[w] = "received" /\ UNCHANGED <<appVars, wollets, signers, poisoned, req, served, reply>>
  BY DEF AcquireLock, appVars
<1>2. server # "off"
  BY <1>1 DEF QuiescentInv, QuiescentWhenOff
<1>. QED
  BY <1>1, <1>2, AppServerAssumption
  DEF QuiescentInv, StateTypeOK, QuiescentWhenOff, appVars

\* The handlers that sync first: a missing wallet ends the body at once,
\* otherwise the worker starts the network sync still holding the guard.
LEMMA SyncHandlers ==
  ASSUME QuiescentInv, NEW w \in Workers, NEW m, SyncWalletOp(w, m)
  PROVE  \/ LockedEnd(w)
         \/ /\ pc[w] = "locked" /\ pc' = [pc EXCEPT ![w] = "syncing"]
            /\ UNCHANGED <<appVars, wollets, signers, lock, poisoned, req, reply, served>>
BY DEF QuiescentInv, StateTypeOK, LockedEnd, SyncWalletOp, Handling, Reject, Done,
       Answer, IsReply, Err, ErrReasons

LEMMA SyncDoneEnd ==
  ASSUME QuiescentInv, NEW w \in Workers, SyncDone(w)
  PROVE  LockedEnd(w)
BY DEF QuiescentInv, StateTypeOK, LockedEnd, SyncDone, Reply, Reject, Done, Answer,
       IsReply, Ok, Err, ErrReasons

\* Starting the sync keeps the lock.
LEMMA SyncStartInv ==
  ASSUME QuiescentInv, NEW w \in Workers, pc[w] = "locked",
         pc' = [pc EXCEPT ![w] = "syncing"],
         UNCHANGED <<appVars, wollets, signers, lock, poisoned, req, reply, served>>
  PROVE  QuiescentInv'
<1>1. lock = w /\ server # "off"
  BY DEF QuiescentInv, QuiescentWhenOff
<1>. QED
  BY <1>1 DEF QuiescentInv, StateTypeOK, QuiescentWhenOff, appVars

\* Every step of a worker preserves the invariant.
LEMMA ServeInv ==
  ASSUME QuiescentInv, NEW w \in Workers, Serve(w)
  PROVE  QuiescentInv'
<1>1. CASE \/ Unimplemented(w) \/ ParamsRejected(w) \/ StopRpc(w)
           \/ Schema(w) \/ GenerateSigner(w) \/ Version(w)
           \/ MultisigDescriptor(w) \/ Contract(w)
           \/ AcquireLock(w) /\ poisoned
  <2>1. CASE \/ Unimplemented(w) \/ ParamsRejected(w) \/ StopRpc(w)
             \/ AcquireLock(w) /\ poisoned
    BY <2>1, EarlyHandlers, EarlyEndInv
  <2>2. CASE \/ Schema(w) \/ GenerateSigner(w) \/ Version(w)
             \/ MultisigDescriptor(w) \/ Contract(w)
    <3>1. EarlyEnd(w)
      BY <2>2, FreeMethodEnd DEF Schema, GenerateSigner, Version, MultisigDescriptor, Contract
    <3>. QED
      BY <3>1, EarlyEndInv
  <2>. QED
    BY <1>1, <2>1, <2>2
<1>2. CASE AcquireLock(w) /\ ~poisoned
  BY <1>2, TakeLockInv
<1>3. CASE \/ ListWallets(w) \/ ListSigners(w) \/ AssetDetails(w)
           \/ Broadcast(w) \/ WalletCombine(w)
           \/ SinglesigDescriptor(w) \/ Xpub(w) \/ Sign(w)
           \/ WalletDetails(w) \/ WalletPsetDetails(w)
  <2>1. \/ ListWallets(w) \/ ListSigners(w) \/ AssetDetails(w)
        \/ \E m, parses : WalletOp(w, m, parses)
        \/ \E m, panics : SignerOp(w, m, panics)
        \/ WalletDetails(w) \/ WalletPsetDetails(w)
    BY <1>3 DEF Broadcast, WalletCombine, SinglesigDescriptor, Xpub, Sign
  <2>2. LockedEnd(w)
    BY <2>1, ReadOnlyHandlers
  <2>. QED
    BY <2>2, LockedEndInv
<1>4. CASE LoadWallet(w) \/ UnloadWallet(w)
  BY <1>4, WalletHandlers, LockedEndInv
<1>5. CASE LoadSigner(w) \/ UnloadSigner(w)
  BY <1>5, SignerHandlers, LockedEndInv
<1>6. CASE Address(w) \/ Balance(w) \/ SendMany(w) \/ Issue(w)
  <2>1. PICK m : SyncWalletOp(w, m)
    BY <1>6 DEF Address, Balance, SendMany, Issue
  <2>. QED
    BY <2>1, SyncHandlers, LockedEndInv, SyncStartInv
<1>7. CASE SyncDone(w)
  BY <1>7, SyncDoneEnd, LockedEndInv
<1>. QED
  BY <1>1, <1>2, <1>3, <1>4, <1>5, <1>6, <1>7 DEF Serve

-----------------------------------------------------------------------------
(* The invariant.                                                          *)

LEMMA InitInv == Init => QuiescentInv
<1> SUFFICES ASSUME Init PROVE QuiescentInv
  OBVIOUS
<1>1. (CHOOSE r \in Requests : TRUE) \in Requests
  BY AppServerAssumption
<1>2. StateTypeOK
  <2>1. req \in [Workers -> Requests]
    BY <1>1 DEF Init
  <2>2. DOMAIN reply = Workers /\ \A w \in Workers : IsReply(reply[w])
    BY DEF Init, IsReply, NoReply
  <2>3. wollets \in [Names -> Descs \cup {Absent}] /\ signers \in [Names -> SignerEntries \cup {Absent}]
    BY DEF Init, EmptyRegistry
  <2>4. served \in [Workers -> 0..MaxReq]
    BY AppServerAssumption DEF Init
  <2>5. /\ rpc \in BOOLEAN /\ server \in {"off", "running", "stopped"} /\ joining \in BOOLEAN
        /\ appErr \in {"none", "AlreadyStarted", "NotStarted", "Io"}
        /\ lock \in Workers \cup {NoHolder} /\ poisoned \in BOOLEAN
        /\ pc \in [Workers -> {"idle", "received", "locked"}]
    BY DEF Init
  <2>. QED
    BY <2>1, <2>2, <2>3, <2>4, <2>5 DEF StateTypeOK
<1>3. QuiescentWhenOff
  BY AppServerAssumption DEF Init, QuiescentWhenOff
<1>. QED
  BY <1>2, <1>3 DEF Init, QuiescentInv

LEMMA NextInv == QuiescentInv /\ [Next]_vars => QuiescentInv'
<1> SUFFICES ASSUME QuiescentInv, [Next]_vars PROVE QuiescentInv'
  OBVIOUS
<1>1. CASE \E w \in Workers, r \in Requests : Receive(w, r)
  <2>1. PICK w \in Workers, r \in Requests : Receive(w, r)
    BY <1>1
  <2>2. StateTypeOK'
    <3>1. served' \in [Workers -> 0..MaxReq]
      BY <2>1, AppServerAssumption DEF QuiescentInv, StateTypeOK, Receive
    <3>2. req' \in [Workers -> Requests] /\ DOMAIN reply' = Workers
          /\ \A v \in Workers : IsReply(reply'[v])
      BY <2>1 DEF QuiescentInv, StateTypeOK, Receive, IsReply, NoReply
    <3>3. pc' \in [Workers -> {"idle", "received", "locked", "syncing"}]
      BY <2>1 DEF QuiescentInv, StateTypeOK, Receive
    <3>. QED
      BY <2>1, <3>1, <3>2, <3>3 DEF QuiescentInv, StateTypeOK, Receive, appVars
  <2>3. pc[w] = "idle" /\ server = "running" /\ UNCHANGED <<server, lock>>
        /\ pc' = [pc EXCEPT ![w] = "received"]
    BY <2>1 DEF Receive, appVars
  <2>4. QuiescentWhenOff'
    BY <2>3 DEF QuiescentInv, StateTypeOK, QuiescentWhenOff
  <2>. QED
    BY <2>1, <2>2, <2>4 DEF QuiescentInv, Receive, appVars
<1>2. CASE \E w \in Workers : Serve(w)
  BY <1>2, ServeInv
<1>3. CASE AppRun
  <2>1. ~joining /\ UNCHANGED <<joining, pc, req, reply>>
    BY <1>3 DEF AppRun
  <2>2. CASE rpc
    <3>1. UNCHANGED <<rpc, server, wollets, signers, lock, poisoned, served>>
          /\ appErr' \in {"none", "AlreadyStarted", "NotStarted", "Io"}
      BY <1>3, <2>2 DEF AppRun
    <3>. QED
      BY <2>1, <2>2, <3>1 DEF QuiescentInv, StateTypeOK, QuiescentWhenOff
  <2>3. CASE ~rpc
    <3>1. server = "off" /\ lock = NoHolder /\ \A v \in Workers : pc[v] = "idle"
      BY <2>1, <2>3 DEF QuiescentInv, QuiescentWhenOff
    <3>2. \/ UNCHANGED <<rpc, server, wollets, signers, lock, poisoned, served>>
             /\ appErr' = "Io"
          \/ /\ rpc' = TRUE /\ server' = "running" /\ lock' = NoHolder
             /\ wollets' = EmptyRegistry /\ signers' = EmptyRegistry
             /\ poisoned' = FALSE /\ served' = [v \in Workers |-> 0]
             /\ appErr' = "none"
      BY <1>3, <2>3 DEF AppRun
    <3>3. StateTypeOK'
      <4>1. EmptyRegistry \in [Names -> Descs \cup {Absent}]
            /\ EmptyRegistry \in [Names -> SignerEntries \cup {Absent}]
        BY DEF EmptyRegistry
      <4>2. [v \in Workers |-> 0] \in [Workers -> 0..MaxReq]
        BY AppServerAssumption
      <4>. QED
        BY <2>1, <3>2, <4>1, <4>2 DEF QuiescentInv, StateTypeOK
    <3>4. QuiescentWhenOff'
      BY <2>1, <3>1, <3>2, AppServerAssumption DEF QuiescentWhenOff
    <3>5. (joining => ~rpc)' /\ (~rpc /\ ~joining => server = "off")'
      BY <2>1, <2>3, <3>1, <3>2
    <3>. QED
      BY <3>3, <3>4, <3>5 DEF QuiescentInv
  <2>. QED
    BY <2>2, <2>3
<1>4. CASE AppStop
  <2>1. UNCHANGED <<rpc, joining, wollets, signers, lock, poisoned, pc, req, reply, served>>
    BY <1>4 DEF AppStop, workerVars
  <2>2. server' \in {server, "stopped"} /\ appErr' \in {"none", "NotStarted"}
    BY <1>4 DEF AppStop
  <2>3. ~rpc => server' = server
    BY <1>4 DEF AppStop
  <2>. QED
    BY <2>1, <2>2, <2>3 DEF QuiescentInv, StateTypeOK, QuiescentWhenOff
<1>5. CASE AppJoin
  <2>1. UNCHANGED <<server, wollets, signers, lock, poisoned, pc, req, reply, served>>
    BY <1>5 DEF AppJoin, workerVars
  <2>2. /\ appErr' \in {"none", "NotStarted"}
        /\ rpc' \in BOOLEAN /\ joining' \in BOOLEAN
        /\ joining' => ~rpc'
        /\ ~rpc' /\ ~joining' => ~rpc /\ ~joining
    <3>1. ~joining /\ rpc \in BOOLEAN /\ joining \in BOOLEAN
      BY <1>5 DEF AppJoin, QuiescentInv, StateTypeOK
    <3>2. CASE rpc
      <4>1. rpc' = FALSE /\ joining' = TRUE /\ appErr' = "none"
        BY <1>5, <3>2 DEF AppJoin
      <4>. QED
        BY <4>1
    <3>3. CASE ~rpc
      <4>1. appErr' = "NotStarted" /\ rpc' = rpc /\ joining' = joining
        BY <1>5, <3>3 DEF AppJoin
      <4>. QED
        BY <3>1, <3>3, <4>1
    <3>. QED
      BY <3>1, <3>2, <3>3
  <2>3. StateTypeOK'
    BY <2>1, <2>2 DEF QuiescentInv, StateTypeOK
  <2>4. QuiescentWhenOff'
    BY <2>1 DEF QuiescentInv, QuiescentWhenOff
  <2>5. (joining => ~rpc)' /\ (~rpc /\ ~joining => server = "off")'
    BY <2>1, <2>2 DEF QuiescentInv
  <2>. QED
    BY <2>3, <2>4, <2>5 DEF QuiescentInv
<1>6. CASE JoinDone
  <2>1. lock = NoHolder
    BY <1>6 DEF JoinDone, QuiescentInv, StateTypeOK, QuiescentWhenOff
  <2>. QED
    BY <1>6, <2>1 DEF JoinDone, QuiescentInv, StateTypeOK, QuiescentWhenOff, workerVars
<1>7. CASE UNCHANGED vars
  BY <1>7 DEF vars, appVars, workerVars, QuiescentInv, StateTypeOK, QuiescentWhenOff
<1>. QED
  BY <1>1, <1>2, <1>3, <1>4, <1>5, <1>6, <1>7 DEF Next

\* The state of the App, the Mutex and the workers stays well-typed, and
\* every reply is a result, an error, a panic, the stop sentinel or the
\* unimplemented response.
THEOREM StateTypeCorrect == Spec => []StateTypeOK
<1>1. Init => QuiescentInv
  BY InitInv
<1>2. QuiescentInv /\ [Next]_vars => QuiescentInv'
  BY NextInv
<1>3. QuiescentInv => StateTypeOK
  BY DEF QuiescentInv
<1>. QED
  BY <1>1, <1>2, <1>3, PTL DEF Spec

\* The Mutex is held exactly by the worker running a handler body, and once
\* join_threads has returned (server off) no worker is inside
\* inner_method_handler and the lock is free.
THEOREM QuiescentWhenOffHolds == Spec => []QuiescentWhenOff
<1>1. Init => QuiescentInv
  BY InitInv
<1>2. QuiescentInv /\ [Next]_vars => QuiescentInv'
  BY NextInv
<1>3. QuiescentInv => QuiescentWhenOff
  BY DEF QuiescentInv
<1>. QED
  BY <1>1, <1>2, <1>3, PTL DEF Spec

=============================================================================
