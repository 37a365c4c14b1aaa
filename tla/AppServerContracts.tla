-------------------------- MODULE AppServerContracts --------------------------
(***************************************************************************)
(* Proofs that AppServer implements the contracts of two more components: *)
(* the State Mutex (StateMutex) and the App lifecycle (AppLifecycle).     *)
(*                                                                         *)
(* The dispatcher keeps the State Mutex contract of StateMutex             *)
(* under the mapping holder <- lock, data <- <<wollets, signers>>: every   *)
(* step is an Acquire, a Release by the holder, the Renew of App::run, or  *)
(* leaves the lock, the poison flag and the registries alone. It rests on  *)
(* QuiescentInv: the holder is the worker inside a handler body, and       *)
(* App::run only builds a new State once the server is off.                *)
(***************************************************************************)
EXTENDS AppServerRefinement, TLAPS

LEMMA MutexInit == Init => SM!Init
BY DEF Init, SM!Init, EmptyRegistry

\* The end of a handler body is the holder dropping its guard.
LEMMA LockedEndReleases ==
  ASSUME QuiescentInv, NEW w \in Workers, LockedEnd(w)
  PROVE  SM!Release(w)
<1>1. lock = w
  BY DEF QuiescentInv, QuiescentWhenOff, LockedEnd
<1>. QED
  BY <1>1 DEF LockedEnd, SM!Release

\* Every step of a worker is an Acquire, a Release or leaves the Mutex and
\* the State as they are.
LEMMA ServeMutexStep ==
  ASSUME QuiescentInv, NEW w \in Workers, Serve(w)
  PROVE  [SM!Next]_SM!vars
<1>1. CASE LockedEnd(w)
  BY <1>1, LockedEndReleases DEF SM!Next
<1>2. CASE EarlyEnd(w)
  BY <1>2 DEF EarlyEnd, SM!vars
<1>3. CASE AcquireLock(w) /\ ~poisoned
  <2>1. SM!Acquire(w)
    BY <1>3 DEF AcquireLock, SM!Acquire
  <2>. QED
    BY <2>1 DEF SM!Next
<1>4. CASE UNCHANGED <<appVars, signers, lock, poisoned, reply, served>>
           /\ UNCHANGED <<wollets, req>>
  BY <1>4 DEF SM!vars
<1>. QED
  BY <1>1, <1>2, <1>3, <1>4, ServeShapes

\* App::run builds its new Mutex and State only when no handler holds the
\* old guard: rpc is None and nobody joins, so the server is off.
LEMMA AppRunMutexStep ==
  ASSUME QuiescentInv, AppRun
  PROVE  [SM!Next]_SM!vars
<1>1. CASE UNCHANGED <<lock, poisoned, wollets, signers>>
  BY <1>1 DEF SM!vars
<1>2. CASE /\ ~rpc /\ ~joining
           /\ wollets' = EmptyRegistry /\ signers' = EmptyRegistry
           /\ lock' = NoHolder /\ poisoned' = FALSE
  <2>1. lock = NoHolder
    BY <1>2 DEF QuiescentInv, QuiescentWhenOff
  <2>2. SM!Renew
    BY <1>2, <2>1 DEF SM!Renew
  <2>. QED
    BY <2>2 DEF SM!Next
<1>. QED
  BY <1>1, <1>2 DEF AppRun

LEMMA MutexNext == QuiescentInv /\ [Next]_vars => [SM!Next]_SM!vars
<1> SUFFICES ASSUME QuiescentInv, [Next]_vars
             PROVE  [SM!Next]_SM!vars
  OBVIOUS
<1>1. CASE \E w \in Workers, r \in Requests : Receive(w, r)
  BY <1>1 DEF Receive, SM!vars
<1>2. CASE \E w \in Workers : Serve(w)
  BY <1>2, ServeMutexStep
<1>3. CASE AppRun
  BY <1>3, AppRunMutexStep
<1>4. CASE AppStop \/ AppJoin \/ JoinDone \/ UNCHANGED vars
  BY <1>4 DEF AppStop, AppJoin, JoinDone, vars, SM!vars
<1>. QED
  BY <1>1, <1>2, <1>3, <1>4 DEF Next

\* The dispatcher uses its State Mutex as std::sync::Mutex promises, across
\* every server run: a handler takes the guard only when the Mutex is free
\* and unpoisoned, the registries change only when the holder drops its
\* guard, poison is never cleared but by the new Mutex of App::run, and
\* App::run builds that Mutex only when no handler holds the old one.
THEOREM MutexRefinement == Spec => MutexSpec
<1>1. Init => QuiescentInv
  BY InitInv
<1>2. QuiescentInv /\ [Next]_vars => QuiescentInv'
  BY NextInv
<1>3. Init => SM!Init
  BY MutexInit
<1>4. QuiescentInv /\ [Next]_vars => [SM!Next]_SM!vars
  BY MutexNext
<1>. QED
  BY <1>1, <1>2, <1>3, <1>4, PTL DEF Spec, MutexSpec, SM!Spec

-----------------------------------------------------------------------------
(* The App lifecycle, under busy <- {w \in Workers : pc[w] # "idle"}.      *)

LEMMA LifecycleInit == Init => LC!Init
BY DEF Init, LC!Init

\* The workers with a request in flight.
Busy == {v \in Workers : pc[v] # "idle"}

\* A worker answering its request is End: the busy set loses it.
LEMMA AnswerEnds ==
  ASSUME StateTypeOK, NEW w \in Workers, pc[w] # "idle",
         pc' = [pc EXCEPT ![w] = "idle"], UNCHANGED <<rpc, joining, appErr>>,
         server' \in {server, IF server = "running" THEN "stopped" ELSE server}
  PROVE  LC!End(w)
<1>1. Busy' = Busy \ {w}
  BY DEF Busy, StateTypeOK
<1>. QED
  BY <1>1 DEF Busy, LC!End

\* A worker moving between two busy places leaves the lifecycle alone.
LEMMA BusyStutter ==
  ASSUME StateTypeOK, NEW w \in Workers, pc[w] # "idle", NEW p, p # "idle",
         pc' = [pc EXCEPT ![w] = p], UNCHANGED appVars
  PROVE  UNCHANGED LC!vars
<1>1. Busy' = Busy
  BY DEF Busy, StateTypeOK
<1>. QED
  BY <1>1 DEF Busy, LC!vars, appVars

LEMMA ServeLifecycleStep ==
  ASSUME QuiescentInv, NEW w \in Workers, Serve(w)
  PROVE  [LC!Next]_LC!vars
<1>1. StateTypeOK
  BY DEF QuiescentInv
<1>2. CASE LockedEnd(w)
  BY <1>1, <1>2, AnswerEnds DEF LockedEnd, appVars, LC!Next
<1>3. CASE EarlyEnd(w)
  BY <1>1, <1>3, AnswerEnds DEF EarlyEnd, LC!Next
<1>4. CASE AcquireLock(w) /\ ~poisoned
  BY <1>1, <1>4, BusyStutter DEF AcquireLock
<1>5. CASE /\ pc' = [pc EXCEPT ![w] = "syncing"]
           /\ UNCHANGED <<appVars, signers, lock, poisoned, reply, served>>
  <2>1. pc[w] # "idle"
    <3>1. Serve(w) => pc[w] # "idle"
      BY DEF Serve, Unimplemented, ParamsRejected, StopRpc, AcquireLock, FreeMethod,
             Schema, GenerateSigner, Version, MultisigDescriptor, Contract,
             LoadWallet, UnloadWallet, ListWallets, LoadSigner, UnloadSigner, ListSigners,
             Address, Balance, SendMany, Broadcast, WalletCombine, Issue, SyncDone,
             SinglesigDescriptor, Xpub, Sign, WalletDetails, WalletPsetDetails,
             AssetDetails, SyncWalletOp, WalletOp, SignerOp, Handling
    <3>. QED
      BY <3>1
  <2>. QED
    BY <1>1, <1>5, <2>1, BusyStutter
<1>. QED
  BY <1>2, <1>3, <1>4, <1>5, ServeShapes

LEMMA LifecycleNext == QuiescentInv /\ [Next]_vars => [LC!Next]_LC!vars
<1> SUFFICES ASSUME QuiescentInv, [Next]_vars
             PROVE  [LC!Next]_LC!vars
  OBVIOUS
<1>1. StateTypeOK
  BY DEF QuiescentInv
<1>2. CASE \E w \in Workers, r \in Requests : Receive(w, r)
  <2>1. PICK w \in Workers, r \in Requests : Receive(w, r)
    BY <1>2
  <2>2. Busy' = Busy \cup {w} /\ w \notin Busy
    BY <1>1, <2>1 DEF Receive, Busy, StateTypeOK
  <2>3. LC!Begin(w)
    BY <2>1, <2>2 DEF Receive, Busy, LC!Begin, appVars
  <2>. QED
    BY <2>3 DEF LC!Next
<1>3. CASE \E w \in Workers : Serve(w)
  BY <1>3, ServeLifecycleStep
<1>4. CASE AppRun
  <2>1. ~rpc /\ ~joining => Busy = {}
    BY DEF QuiescentInv, QuiescentWhenOff, Busy
  <2>. QED
    BY <1>4, <2>1 DEF AppRun, Busy, LC!Run, LC!Next
<1>5. CASE AppStop
  BY <1>5 DEF AppStop, workerVars, Busy, LC!Stop, LC!Next
<1>6. CASE AppJoin
  BY <1>6 DEF AppJoin, workerVars, Busy, LC!Join, LC!Next
<1>7. CASE JoinDone
  <2>1. Busy = {}
    BY <1>7 DEF JoinDone, Busy
  <2>. QED
    BY <1>7, <2>1 DEF JoinDone, workerVars, Busy, LC!JoinReturns, LC!Next
<1>8. CASE UNCHANGED vars
  BY <1>8 DEF vars, appVars, workerVars, Busy, LC!vars
<1>. QED
  BY <1>2, <1>3, <1>4, <1>5, <1>6, <1>7, <1>8 DEF Next

\* App keeps its lifecycle contract with its owner for every instance:
\* run, stop and join_threads report AlreadyStarted and NotStarted exactly
\* when rpc is Some or None, a worker takes a request only while the server
\* runs, join_threads returns only once the server is stopped and every
\* handler has answered, and App::run starts a server with no request of an
\* earlier run in flight.
THEOREM LifecycleRefinement == Spec => LifecycleSpec
<1>1. Init => QuiescentInv
  BY InitInv
<1>2. QuiescentInv /\ [Next]_vars => QuiescentInv'
  BY NextInv
<1>3. Init => LC!Init
  BY LifecycleInit
<1>4. QuiescentInv /\ [Next]_vars => [LC!Next]_LC!vars
  BY LifecycleNext
<1>. QED
  BY <1>1, <1>2, <1>3, <1>4, PTL DEF Spec, LifecycleSpec, LC!Spec

=============================================================================
