------------------------- MODULE AppServerRefinement -------------------------
(***************************************************************************)
(* Proof that the server implements its atomic contract: every behaviour   *)
(* of AppServer, seen through the refinement mapping                       *)
(* pending <- [w |-> pc[w] # "idle"], is a behaviour of AtomicRegistry.    *)
(*                                                                         *)
(* Taking a request is a Submit; the step that answers it (before the      *)
(* lock, or the handler body that drops the guard) is the abstract Serve;  *)
(* taking the lock, stopping and joining are stutters; the fresh State of  *)
(* App::run is a Reset, allowed because QuiescentInv says no request is in *)
(* flight when run can start a server.                                     *)
(***************************************************************************)
EXTENDS AppServerProofs

\* Worker w ends its request with a reply that the abstract Serve allows.
Finishes(w) ==
  \E rep : /\ IsReply(rep)
           /\ reply' = [reply EXCEPT ![w] = rep]
           /\ AR!Outcome(req[w], rep)

-----------------------------------------------------------------------------
(* The answering step of a worker is the abstract Serve.                   *)

LEMMA FinishIsServe ==
  ASSUME StateTypeOK, NEW w \in Workers, pc[w] # "idle",
         pc' = [pc EXCEPT ![w] = "idle"], UNCHANGED req, Finishes(w)
  PROVE  AR!Serve(w)
<1>1. PICK rep : /\ IsReply(rep)
                 /\ reply' = [reply EXCEPT ![w] = rep]
                 /\ AR!Outcome(req[w], rep)
  BY DEF Finishes
<1>2. reply'[w] = rep
  BY <1>1 DEF StateTypeOK
<1>3. [v \in Workers |-> pc'[v] # "idle"]
        = [[v \in Workers |-> pc[v] # "idle"] EXCEPT ![w] = FALSE]
  BY DEF StateTypeOK
<1>4. AR!IsReply(reply'[w])
  BY <1>1, <1>2 DEF IsReply, AR!IsReply, ErrReasons, PanicCauses, AR!ErrReasons, AR!PanicCauses
<1>5. [v \in Workers |-> pc[v] # "idle"][w]
  BY DEF StateTypeOK
<1>. QED
  BY <1>1, <1>2, <1>3, <1>4, <1>5 DEF AR!Serve

-----------------------------------------------------------------------------
(* The reply of each step is an outcome the contract allows.               *)

\* Finishes(w) from a reply given explicitly.
LEMMA FinishWith ==
  ASSUME NEW w \in Workers, NEW rep, IsReply(rep),
         reply' = [reply EXCEPT ![w] = rep], AR!Outcome(req[w], rep)
  PROVE  Finishes(w)
BY DEF Finishes

LEMMA UnimplementedFinishes ==
  ASSUME NEW w \in Workers, Unimplemented(w)
  PROVE  Finishes(w)
<1>1. reply' = [reply EXCEPT ![w] = Unimpl] /\ req[w].m \notin Methods
      /\ UNCHANGED <<wollets, signers>>
  BY DEF Unimplemented, Answer
<1>2. IsReply(Unimpl) /\ AR!Outcome(req[w], Unimpl)
  BY <1>1 DEF IsReply, Unimpl, AR!Outcome, AR!Is, AR!Keep, Methods, AR!Methods,
              LockMethods, AR!LockMethods, FreeMethods, AR!FreeMethods
<1>. QED
  BY <1>1, <1>2, FinishWith

LEMMA StopFinishes ==
  ASSUME NEW w \in Workers, StopRpc(w)
  PROVE  Finishes(w)
<1>1. reply' = [reply EXCEPT ![w] = StopReply] /\ req[w].m = "Stop"
      /\ UNCHANGED <<wollets, signers>>
  BY DEF StopRpc, Answer
<1>2. IsReply(StopReply) /\ AR!Outcome(req[w], StopReply)
  BY <1>1 DEF IsReply, StopReply, AR!Outcome, AR!Is, AR!Keep
<1>. QED
  BY <1>1, <1>2, FinishWith

LEMMA ParamsRejectedFinishes ==
  ASSUME NEW w \in Workers, ParamsRejected(w)
  PROVE  Finishes(w)
<1>. DEFINE rep == IF req[w].params = "none" /\ req[w].m \in UnwrapParams
                   THEN Panic("params") ELSE Err("params")
<1>1. reply' = [reply EXCEPT ![w] = rep] /\ UNCHANGED <<wollets, signers>>
      /\ req[w].m \in Methods /\ req[w].m # "Stop"
  BY DEF ParamsRejected, Answer, ParamsOk, NoParams
<1>2. rep.kind \in {"err", "panic"} /\ IsReply(rep)
      /\ rep.val \notin {"notfound", "exists", "external"}
  BY DEF IsReply, Panic, Err, ErrReasons, PanicCauses
<1>3. AR!Outcome(req[w], rep)
  BY <1>1, <1>2 DEF AR!Outcome, AR!Failure, AR!Is, AR!Keep, Methods, AR!Methods,
         LockMethods, AR!LockMethods, FreeMethods, AR!FreeMethods
<1>. QED
  BY <1>1, <1>2, <1>3, FinishWith

LEMMA PoisonedFinishes ==
  ASSUME NEW w \in Workers, AcquireLock(w), poisoned
  PROVE  Finishes(w)
<1>1. reply' = [reply EXCEPT ![w] = Panic("poisoned")] /\ UNCHANGED <<wollets, signers>>
      /\ req[w].m \in Methods /\ req[w].m # "Stop"
  BY DEF AcquireLock, Answer, Methods, LockMethods
<1>2. /\ IsReply(Panic("poisoned")) /\ Panic("poisoned").kind \in {"err", "panic"}
      /\ Panic("poisoned").val \notin {"notfound", "exists", "external"}
  BY DEF IsReply, Panic, PanicCauses
<1>3. AR!Outcome(req[w], Panic("poisoned"))
  BY <1>1, <1>2 DEF AR!Outcome, AR!Failure, AR!Is, AR!Keep, Methods, AR!Methods,
         LockMethods, AR!LockMethods, FreeMethods, AR!FreeMethods
<1>. QED
  BY <1>1, <1>2, <1>3, FinishWith

\* The methods that never take the lock.
LEMMA FreeMethodFinishes ==
  ASSUME NEW w \in Workers,
         NEW m \in {"Schema", "GenerateSigner", "Version", "MultisigDescriptor", "Contract"},
         NEW parses, NEW canFail, FreeMethod(w, m, parses, canFail)
  PROVE  Finishes(w)
<1>1. req[w].m = m /\ UNCHANGED <<wollets, signers>>
      /\ req[w].m \in Methods /\ req[w].m # "Stop"
  BY DEF FreeMethod, Methods, LockMethods, FreeMethods
<1>2. PICK rep \in {Err("invalid"), Err("upstream"), Ok("none")} :
        reply' = [reply EXCEPT ![w] = rep]
  BY DEF FreeMethod, Answer
<1>3. CASE rep = Ok("none")
  <2>1. IsReply(rep) /\ AR!Outcome(req[w], rep)
    BY <1>1, <1>3 DEF IsReply, Ok, AR!Outcome, AR!Success, AR!Is, AR!Keep,
                      Methods, AR!Methods, LockMethods, AR!LockMethods,
                      FreeMethods, AR!FreeMethods
  <2>. QED
    BY <1>2, <2>1, FinishWith
<1>4. CASE rep # Ok("none")
  <2>1. rep.kind \in {"err", "panic"} /\ IsReply(rep)
        /\ rep.val \notin {"notfound", "exists", "external"}
    BY <1>2, <1>4 DEF IsReply, Err, ErrReasons
  <2>2. AR!Outcome(req[w], rep)
    BY <1>1, <2>1 DEF AR!Outcome, AR!Failure, AR!Is, AR!Keep, Methods, AR!Methods,
         LockMethods, AR!LockMethods, FreeMethods, AR!FreeMethods
  <2>. QED
    BY <1>2, <2>1, <2>2, FinishWith
<1>. QED
  BY <1>3, <1>4

-----------------------------------------------------------------------------
(* The handlers under the lock.                                            *)

\* The methods that take the lock are methods other than Stop.
LEMMA LockedMethod ==
  ASSUME NEW w \in Workers, NEW m \in LockMethods, Handling(w, m)
  PROVE  req[w].m = m /\ req[w].m \in Methods /\ req[w].m # "Stop"
         /\ req[w].m \in AR!Methods
BY DEF Handling, Methods, LockMethods, FreeMethods, AR!Methods, AR!LockMethods, AR!FreeMethods

\* An error that says nothing of the registries, with the state untouched.
LEMMA RejectFinishes ==
  ASSUME NEW w \in Workers, NEW e \in {"invalid", "upstream"}, Reject(w, e),
         req[w].m \in Methods, req[w].m # "Stop"
  PROVE  Finishes(w)
<1>1. reply' = [reply EXCEPT ![w] = Err(e)] /\ UNCHANGED <<wollets, signers>>
  BY DEF Reject, Done, Answer
<1>2. IsReply(Err(e)) /\ AR!Outcome(req[w], Err(e))
  BY <1>1 DEF IsReply, Err, ErrReasons, AR!Outcome, AR!Methods, Methods, LockMethods, AR!LockMethods, FreeMethods, AR!FreeMethods,
      AR!Failure, AR!Is, AR!Keep
<1>. QED
  BY <1>1, <1>2, FinishWith

\* A panic under the guard: the registries are untouched.
LEMMA PanicLockedFinishes ==
  ASSUME NEW w \in Workers, PanicLocked(w), req[w].m \in Methods, req[w].m # "Stop"
  PROVE  Finishes(w)
<1>1. reply' = [reply EXCEPT ![w] = Panic("unwrap")] /\ UNCHANGED <<wollets, signers>>
  BY DEF PanicLocked, Done, Answer
<1>2. IsReply(Panic("unwrap")) /\ AR!Outcome(req[w], Panic("unwrap"))
  BY <1>1 DEF IsReply, Panic, PanicCauses, AR!Outcome, AR!Methods, Methods, LockMethods, AR!LockMethods, FreeMethods, AR!FreeMethods,
      AR!Failure, AR!Is, AR!Keep
<1>. QED
  BY <1>1, <1>2, FinishWith

LEMMA LoadWalletFinishes ==
  ASSUME NEW w \in Workers, LoadWallet(w)
  PROVE  Finishes(w)
<1>. DEFINE n == req[w].name
            d == req[w].desc
<1>1. req[w].m = "LoadWallet" /\ req[w].m \in Methods /\ req[w].m # "Stop"
  BY LockedMethod DEF LoadWallet, LockMethods
<1>2. CASE Reject(w, "upstream")
  BY <1>1, <1>2, RejectFinishes
<1>3. CASE ~CanInsert(wollets, n) /\ Reject(w, "exists")
  <2>1. reply' = [reply EXCEPT ![w] = Err("exists")] /\ UNCHANGED <<wollets, signers>>
    BY <1>3 DEF Reject, Done, Answer
  <2>2. IsReply(Err("exists")) /\ AR!Outcome(req[w], Err("exists"))
    BY <1>1, <1>3, <2>1 DEF IsReply, Err, ErrReasons, AR!Outcome, AR!Methods, Methods, LockMethods, AR!LockMethods, FreeMethods, AR!FreeMethods,
      AR!Failure, AR!Is,
                           AR!Keep, CanInsert, AR!IsLoaded
  <2>. QED
    BY <2>1, <2>2, FinishWith
<1>4. CASE /\ CanInsert(wollets, n)
           /\ wollets' = Insert(wollets, n, d)
           /\ Done(w, Ok(<<n, d>>))
           /\ UNCHANGED <<signers, poisoned>>
  <2>1. reply' = [reply EXCEPT ![w] = Ok(<<n, d>>)]
    BY <1>4 DEF Done, Answer
  <2>2. IsReply(Ok(<<n, d>>)) /\ AR!Outcome(req[w], Ok(<<n, d>>))
    BY <1>1, <1>4 DEF IsReply, Ok, AR!Outcome, AR!Methods, Methods, LockMethods, AR!LockMethods, FreeMethods, AR!FreeMethods,
      AR!Success, AR!CanInsert, CanInsert,
                      AR!Insert, Insert
  <2>. QED
    BY <2>1, <2>2, FinishWith
<1>. QED
  BY <1>2, <1>3, <1>4 DEF LoadWallet

LEMMA UnloadWalletFinishes ==
  ASSUME NEW w \in Workers, UnloadWallet(w)
  PROVE  Finishes(w)
<1>. DEFINE n == req[w].name
<1>1. req[w].m = "UnloadWallet" /\ req[w].m \in Methods /\ req[w].m # "Stop"
  BY LockedMethod DEF UnloadWallet, LockMethods
<1>2. CASE ~IsLoaded(wollets, n) /\ Reject(w, "notfound")
  <2>1. reply' = [reply EXCEPT ![w] = Err("notfound")] /\ UNCHANGED <<wollets, signers>>
    BY <1>2 DEF Reject, Done, Answer
  <2>2. IsReply(Err("notfound")) /\ AR!Outcome(req[w], Err("notfound"))
    BY <1>1, <1>2, <2>1 DEF IsReply, Err, ErrReasons, AR!Outcome, AR!Methods, Methods, LockMethods, AR!LockMethods, FreeMethods, AR!FreeMethods,
      AR!Failure, AR!Is,
                           AR!Keep, IsLoaded, AR!IsLoaded, AR!WalletMethods, AR!SignerMethods
  <2>. QED
    BY <2>1, <2>2, FinishWith
<1>3. CASE /\ IsLoaded(wollets, n)
           /\ wollets' = Remove(wollets, n)
           /\ Done(w, Ok(<<n, wollets[n]>>))
           /\ UNCHANGED <<signers, poisoned>>
  <2>1. reply' = [reply EXCEPT ![w] = Ok(<<n, wollets[n]>>)]
    BY <1>3 DEF Done, Answer
  <2>2. IsReply(Ok(<<n, wollets[n]>>)) /\ AR!Outcome(req[w], Ok(<<n, wollets[n]>>))
    BY <1>1, <1>3 DEF IsReply, Ok, AR!Outcome, AR!Methods, Methods, LockMethods, AR!LockMethods, FreeMethods, AR!FreeMethods,
      AR!Success, AR!IsLoaded, IsLoaded,
                      AR!Remove, Remove
  <2>. QED
    BY <2>1, <2>2, FinishWith
<1>. QED
  BY <1>2, <1>3 DEF UnloadWallet

LEMMA ListWalletsFinishes ==
  ASSUME NEW w \in Workers, ListWallets(w)
  PROVE  Finishes(w)
<1>1. req[w].m = "ListWallets" /\ req[w].m \in Methods /\ req[w].m # "Stop"
  BY LockedMethod DEF ListWallets, LockMethods
<1>2. reply' = [reply EXCEPT ![w] = Ok(Snapshot(wollets))] /\ UNCHANGED <<wollets, signers>>
  BY DEF ListWallets, Reply, Done, Answer
<1>3. IsReply(Ok(Snapshot(wollets))) /\ AR!Outcome(req[w], Ok(Snapshot(wollets)))
  BY <1>1, <1>2 DEF IsReply, Ok, AR!Outcome, AR!Methods, Methods, LockMethods, AR!LockMethods, FreeMethods, AR!FreeMethods,
      AR!Success, AR!Keep, Snapshot,
                    AR!Snapshot, Loaded, AR!Loaded
<1>. QED
  BY <1>2, <1>3, FinishWith

\* signer_response_from then insert: the entry e built for the requested kind.
LEMMA RegisterSignerFinishes ==
  ASSUME NEW w \in Workers, NEW e \in SignerEntries, RegisterSigner(w, e),
         req[w].m = "LoadSigner", req[w].m \in Methods, req[w].m \in AR!Methods,
         e.fp = req[w].fp, AR!KindOf(e) = req[w].kind
  PROVE  Finishes(w)
<1>. DEFINE n == req[w].name
<1>1. CASE e.jade /\ Reject(w, "upstream")
  BY <1>1, RejectFinishes
<1>2. CASE ~CanInsert(signers, n) /\ Reject(w, "exists")
  <2>1. reply' = [reply EXCEPT ![w] = Err("exists")] /\ UNCHANGED <<wollets, signers>>
    BY <1>2 DEF Reject, Done, Answer
  <2>2. IsReply(Err("exists")) /\ AR!Outcome(req[w], Err("exists"))
    BY <1>2, <2>1 DEF IsReply, Err, ErrReasons, AR!Outcome, AR!Failure, AR!Is,
                      AR!Keep, CanInsert, AR!IsLoaded
  <2>. QED
    BY <2>1, <2>2, FinishWith
<1>3. CASE /\ CanInsert(signers, n)
           /\ signers' = Insert(signers, n, e)
           /\ Done(w, Ok(SignerInfo(n, e)))
           /\ UNCHANGED <<wollets, poisoned>>
  <2>1. reply' = [reply EXCEPT ![w] = Ok(SignerInfo(n, e))]
    BY <1>3 DEF Done, Answer
  <2>2. e \in AR!SignerEntries
    BY DEF SignerEntries, AR!SignerEntries
  <2>3. AR!Success(req[w], Ok(SignerInfo(n, e)))
    BY <1>3, <2>2 DEF Ok, AR!Success, AR!CanInsert, CanInsert, AR!Insert, Insert,
                      SignerInfo, AR!SignerInfo
  <2>4. IsReply(Ok(SignerInfo(n, e))) /\ AR!Outcome(req[w], Ok(SignerInfo(n, e)))
    BY <2>3 DEF IsReply, Ok, AR!Outcome
  <2>. QED
    BY <2>1, <2>4, FinishWith
<1>. QED
  BY <1>1, <1>2, <1>3 DEF RegisterSigner

LEMMA LoadSignerFinishes ==
  ASSUME StateTypeOK, NEW w \in Workers, LoadSigner(w)
  PROVE  Finishes(w)
<1>. DEFINE r == req[w]
            soft == [avail |-> TRUE, fp |-> r.fp, jade |-> FALSE]
            jade == [avail |-> TRUE, fp |-> r.fp, jade |-> TRUE]
            ext  == [avail |-> FALSE, fp |-> r.fp, jade |-> FALSE]
<1>1. r.m = "LoadSigner" /\ r.m \in Methods /\ r.m # "Stop" /\ r.m \in AR!Methods
  BY LockedMethod DEF LoadSigner, LockMethods
<1>2. r.fp \in Fps
  BY RequestFieldsTyped
<1>3. soft \in SignerEntries /\ jade \in SignerEntries /\ ext \in SignerEntries
  BY <1>2 DEF SignerEntries
<1>4. CASE Reject(w, "invalid") \/ Reject(w, "upstream")
  BY <1>1, <1>4, RejectFinishes
<1>5. CASE PanicLocked(w)
  BY <1>1, <1>5, PanicLockedFinishes
<1>6. CASE r.kind = "software" /\ RegisterSigner(w, soft)
  BY <1>1, <1>3, <1>6, RegisterSignerFinishes DEF AR!KindOf
<1>7. CASE r.kind = "serial" /\ RegisterSigner(w, jade)
  BY <1>1, <1>3, <1>7, RegisterSignerFinishes DEF AR!KindOf
<1>8. CASE r.kind = "external" /\ RegisterSigner(w, ext)
  BY <1>1, <1>3, <1>8, RegisterSignerFinishes DEF AR!KindOf
<1>. QED
  BY <1>4, <1>5, <1>6, <1>7, <1>8 DEF LoadSigner

LEMMA UnloadSignerFinishes ==
  ASSUME NEW w \in Workers, UnloadSigner(w)
  PROVE  Finishes(w)
<1>. DEFINE n == req[w].name
<1>1. req[w].m = "UnloadSigner" /\ req[w].m \in Methods /\ req[w].m # "Stop"
      /\ req[w].m \in AR!Methods
  BY LockedMethod DEF UnloadSigner, LockMethods
<1>2. CASE ~IsLoaded(signers, n) /\ Reject(w, "notfound")
  <2>1. reply' = [reply EXCEPT ![w] = Err("notfound")] /\ UNCHANGED <<wollets, signers>>
    BY <1>2 DEF Reject, Done, Answer
  <2>2. IsReply(Err("notfound")) /\ AR!Outcome(req[w], Err("notfound"))
    BY <1>1, <1>2, <2>1 DEF IsReply, Err, ErrReasons, AR!Outcome, AR!Failure, AR!Is,
                           AR!Keep, IsLoaded, AR!IsLoaded, AR!WalletMethods, AR!SignerMethods
  <2>. QED
    BY <2>1, <2>2, FinishWith
<1>3. CASE /\ IsLoaded(signers, n) /\ signers' = Remove(signers, n)
           /\ UNCHANGED <<wollets, poisoned>>
           /\ signers[n].jade /\ Done(w, Err("upstream"))
  \* The removal is kept although the reply is an error.
  <2>1. reply' = [reply EXCEPT ![w] = Err("upstream")]
    BY <1>3 DEF Done, Answer
  <2>2. IsReply(Err("upstream")) /\ AR!Outcome(req[w], Err("upstream"))
    BY <1>1, <1>3 DEF IsReply, Err, ErrReasons, AR!Outcome, AR!RemovedThenFailed,
                      AR!Is, IsLoaded, AR!IsLoaded, Remove, AR!Remove
  <2>. QED
    BY <2>1, <2>2, FinishWith
<1>4. CASE /\ IsLoaded(signers, n) /\ signers' = Remove(signers, n)
           /\ UNCHANGED <<wollets, poisoned>>
           /\ Done(w, Ok(SignerInfo(n, signers[n])))
  <2>1. reply' = [reply EXCEPT ![w] = Ok(SignerInfo(n, signers[n]))]
    BY <1>4 DEF Done, Answer
  <2>2. AR!Success(req[w], Ok(SignerInfo(n, signers[n])))
    BY <1>1, <1>4 DEF Ok, AR!Success, IsLoaded, AR!IsLoaded, Remove, AR!Remove,
                      SignerInfo, AR!SignerInfo
  <2>3. IsReply(Ok(SignerInfo(n, signers[n])))
        /\ AR!Outcome(req[w], Ok(SignerInfo(n, signers[n])))
    BY <1>1, <2>2 DEF IsReply, Ok, AR!Outcome
  <2>. QED
    BY <2>1, <2>3, FinishWith
<1>. QED
  BY <1>2, <1>3, <1>4 DEF UnloadSigner

LEMMA ListSignersFinishes ==
  ASSUME NEW w \in Workers, ListSigners(w)
  PROVE  Finishes(w)
<1>. DEFINE infos == {SignerInfo(n, signers[n]) : n \in Loaded(signers)}
<1>1. req[w].m = "ListSigners" /\ req[w].m \in Methods /\ req[w].m # "Stop"
      /\ req[w].m \in AR!Methods
  BY LockedMethod DEF ListSigners, LockMethods
<1>2. CASE Reject(w, "upstream")
  BY <1>1, <1>2, RejectFinishes
<1>3. CASE Reply(w, infos)
  <2>1. reply' = [reply EXCEPT ![w] = Ok(infos)] /\ UNCHANGED <<wollets, signers>>
    BY <1>3 DEF Reply, Done, Answer
  <2>2. AR!Success(req[w], Ok(infos))
    BY <1>1, <2>1 DEF Ok, AR!Success, AR!Keep, Loaded, AR!Loaded, SignerInfo, AR!SignerInfo
  <2>3. IsReply(Ok(infos)) /\ AR!Outcome(req[w], Ok(infos))
    BY <1>1, <2>2 DEF IsReply, Ok, AR!Outcome
  <2>. QED
    BY <2>1, <2>3, FinishWith
<1>. QED
  BY <1>2, <1>3 DEF ListSigners

\* wollets.get_mut(name)? reports NotFound only for a wallet that is absent.
LEMMA WalletNotFound ==
  ASSUME NEW w \in Workers, req[w].m \in AR!WalletMethods, req[w].m \in AR!Methods,
         ~IsLoaded(wollets, req[w].name), Reject(w, "notfound")
  PROVE  Finishes(w)
<1>1. reply' = [reply EXCEPT ![w] = Err("notfound")] /\ UNCHANGED <<wollets, signers>>
  BY DEF Reject, Done, Answer
<1>2. IsReply(Err("notfound")) /\ AR!Outcome(req[w], Err("notfound"))
  BY <1>1 DEF IsReply, Err, ErrReasons, AR!Outcome, AR!Failure, AR!Is, AR!Keep,
              IsLoaded, AR!IsLoaded, AR!WalletMethods, AR!SignerMethods
<1>. QED
  BY <1>1, <1>2, FinishWith

\* A reply "none" with the registries untouched, for a method that Success
\* allows to keep them.
LEMMA ReplyNoneFinishes ==
  ASSUME NEW w \in Workers, Reply(w, "none"), req[w].m \in AR!Methods,
         req[w].m # "Stop", AR!Success(req[w], Ok("none"))
  PROVE  Finishes(w)
<1>1. reply' = [reply EXCEPT ![w] = Ok("none")]
  BY DEF Reply, Done, Answer
<1>2. IsReply(Ok("none")) /\ AR!Outcome(req[w], Ok("none"))
  BY DEF IsReply, Ok, AR!Outcome, AR!Methods, AR!LockMethods, AR!FreeMethods
<1>. QED
  BY <1>1, <1>2, FinishWith

LEMMA WalletOpFinishes ==
  ASSUME NEW w \in Workers,
         NEW m \in {"Address", "Balance", "SendMany", "Broadcast", "WalletCombine", "Issue"},
         NEW parses, WalletOp(w, m, parses)
  PROVE  Finishes(w)
<1>1. req[w].m = m /\ req[w].m \in Methods /\ req[w].m # "Stop" /\ req[w].m \in AR!Methods
      /\ req[w].m \in AR!WalletMethods
  BY LockedMethod DEF WalletOp, LockMethods, AR!WalletMethods
<1>2. CASE ~IsLoaded(wollets, req[w].name) /\ Reject(w, "notfound")
  BY <1>1, <1>2, WalletNotFound
<1>3. CASE Reject(w, "invalid") \/ Reject(w, "upstream")
  BY <1>1, <1>3, RejectFinishes
<1>4. CASE IsLoaded(wollets, req[w].name) /\ Reply(w, "none")
  <2>1. AR!Success(req[w], Ok("none"))
    BY <1>1, <1>4 DEF Reply, Done, Ok, AR!Success, AR!Keep, IsLoaded, AR!IsLoaded
  <2>. QED
    BY <1>1, <1>4, <2>1, ReplyNoneFinishes
<1>. QED
  BY <1>2, <1>3, <1>4 DEF WalletOp

LEMMA SignerOpFinishes ==
  ASSUME NEW w \in Workers, NEW m \in {"SinglesigDescriptor", "Xpub", "Sign"},
         NEW panics, SignerOp(w, m, panics)
  PROVE  Finishes(w)
<1>. DEFINE n == req[w].name
<1>1. req[w].m = m /\ req[w].m \in Methods /\ req[w].m # "Stop" /\ req[w].m \in AR!Methods
  BY LockedMethod DEF SignerOp, LockMethods
<1>2. CASE ~IsLoaded(signers, n) /\ Reject(w, "notfound")
  <2>1. reply' = [reply EXCEPT ![w] = Err("notfound")] /\ UNCHANGED <<wollets, signers>>
    BY <1>2 DEF Reject, Done, Answer
  <2>2. IsReply(Err("notfound")) /\ AR!Outcome(req[w], Err("notfound"))
    BY <1>1, <1>2, <2>1 DEF IsReply, Err, ErrReasons, AR!Outcome, AR!Failure, AR!Is,
                           AR!Keep, IsLoaded, AR!IsLoaded, AR!WalletMethods, AR!SignerMethods
  <2>. QED
    BY <2>1, <2>2, FinishWith
<1>3. CASE IsLoaded(signers, n) /\ ~signers[n].avail /\ Reject(w, "external")
  <2>1. reply' = [reply EXCEPT ![w] = Err("external")] /\ UNCHANGED <<wollets, signers>>
    BY <1>3 DEF Reject, Done, Answer
  <2>2. IsReply(Err("external")) /\ AR!Outcome(req[w], Err("external"))
    BY <1>1, <1>3, <2>1 DEF IsReply, Err, ErrReasons, AR!Outcome, AR!Failure, AR!Is,
                           AR!Keep, IsLoaded, AR!IsLoaded, AR!WalletMethods, AR!SignerMethods
  <2>. QED
    BY <2>1, <2>2, FinishWith
<1>4. CASE Reject(w, "invalid") \/ Reject(w, "upstream")
  BY <1>1, <1>4, RejectFinishes
<1>5. CASE IsAvailable(signers, n) /\ Reply(w, "none")
  <2>1. AR!Success(req[w], Ok("none"))
    BY <1>1, <1>5 DEF Reply, Done, Ok, AR!Success, AR!Keep, IsAvailable, AR!IsAvailable,
                      IsLoaded, AR!IsLoaded
  <2>. QED
    BY <1>1, <1>5, <2>1, ReplyNoneFinishes
<1>6. CASE PanicLocked(w)
  BY <1>1, <1>6, PanicLockedFinishes
<1>. QED
  BY <1>2, <1>3, <1>4, <1>5, <1>6 DEF SignerOp

\* Every SignerDetails list built by Resolve names the resolution of its
\* fingerprints in the current signer registry.
LEMMA SameResolution ==
  ASSUME NEW reg, NEW fs
  PROVE  /\ \A f : NameFromFingerprint(reg, f) = AR!NameFromFingerprint(reg, f)
         /\ Resolve(reg, fs) = AR!Resolve(reg, fs)
<1>1. \A f : NameFromFingerprint(reg, f) = AR!NameFromFingerprint(reg, f)
  BY Zenon DEF NameFromFingerprint, AR!NameFromFingerprint, Matching, AR!Matching,
               Loaded, AR!Loaded, Cardinality, AR!Cardinality
<1>. QED
  BY <1>1, Zenon DEF Resolve, AR!Resolve

LEMMA ResolveIsResolved ==
  ASSUME NEW fs
  PROVE  AR!ResolvedNow(Resolve(signers, fs))
<1>1. \A f : NameFromFingerprint(signers, f) = AR!NameFromFingerprint(signers, f)
  BY SameResolution
<1>. QED
  BY <1>1 DEF AR!ResolvedNow, Resolve

LEMMA WalletDetailsFinishes ==
  ASSUME NEW w \in Workers, WalletDetails(w)
  PROVE  Finishes(w)
<1>. DEFINE n == req[w].name
            rep == Ok(WalletDetailsOf(wollets[n], signers))
<1>1. req[w].m = "WalletDetails" /\ req[w].m \in Methods /\ req[w].m # "Stop"
      /\ req[w].m \in AR!Methods /\ req[w].m \in AR!WalletMethods
  BY LockedMethod DEF WalletDetails, LockMethods, AR!WalletMethods
<1>2. CASE ~IsLoaded(wollets, n) /\ Reject(w, "notfound")
  BY <1>1, <1>2, WalletNotFound
<1>3. CASE IsLoaded(wollets, n) /\ Reply(w, WalletDetailsOf(wollets[n], signers))
  <2>1. reply' = [reply EXCEPT ![w] = rep] /\ UNCHANGED <<wollets, signers>>
    BY <1>3 DEF Reply, Done, Answer
  <2>2. rep.val.signers = AR!Resolve(signers, wollets[n].keys)
    BY SameResolution DEF Ok, WalletDetailsOf
  <2>3. AR!Success(req[w], rep)
    BY <1>1, <1>3, <2>1, <2>2 DEF Ok, AR!Success, AR!Keep, IsLoaded, AR!IsLoaded
  <2>4. IsReply(rep) /\ AR!Outcome(req[w], rep)
    BY <1>1, <2>3 DEF IsReply, Ok, AR!Outcome
  <2>. QED
    BY <2>1, <2>4, FinishWith
<1>. QED
  BY <1>2, <1>3 DEF WalletDetails

LEMMA WalletPsetDetailsFinishes ==
  ASSUME NEW w \in Workers, WalletPsetDetails(w)
  PROVE  Finishes(w)
<1>. DEFINE r == req[w]
            rep == Ok(PsetDetailsOf(wollets[r.name], signers, r.signed))
<1>1. r.m = "WalletPsetDetails" /\ r.m \in Methods /\ r.m # "Stop"
      /\ r.m \in AR!Methods /\ r.m \in AR!WalletMethods
  BY LockedMethod DEF WalletPsetDetails, LockMethods, AR!WalletMethods
<1>2. CASE ~IsLoaded(wollets, r.name) /\ Reject(w, "notfound")
  BY <1>1, <1>2, WalletNotFound
<1>3. CASE Reject(w, "invalid") \/ Reject(w, "upstream")
  BY <1>1, <1>3, RejectFinishes
<1>4. CASE IsLoaded(wollets, r.name) /\ Reply(w, PsetDetailsOf(wollets[r.name], signers, r.signed))
  <2>1. reply' = [reply EXCEPT ![w] = rep] /\ UNCHANGED <<wollets, signers>>
    BY <1>4 DEF Reply, Done, Answer
  <2>2. /\ AR!ResolvedNow(rep.val.has)
        /\ AR!ResolvedNow(rep.val.missing)
    BY ResolveIsResolved DEF Ok, PsetDetailsOf
  <2>3. AR!Success(req[w], rep)
    BY <1>1, <1>4, <2>1, <2>2 DEF Ok, AR!Success, AR!Keep, IsLoaded, AR!IsLoaded
  <2>4. IsReply(rep) /\ AR!Outcome(req[w], rep)
    BY <1>1, <2>3 DEF IsReply, Ok, AR!Outcome
  <2>. QED
    BY <2>1, <2>4, FinishWith
<1>. QED
  BY <1>2, <1>3, <1>4 DEF WalletPsetDetails

LEMMA AssetDetailsFinishes ==
  ASSUME NEW w \in Workers, AssetDetails(w)
  PROVE  Finishes(w)
<1>1. req[w].m = "AssetDetails" /\ req[w].m \in Methods /\ req[w].m # "Stop"
      /\ req[w].m \in AR!Methods
  BY LockedMethod DEF AssetDetails, LockMethods
<1>2. CASE Reject(w, "invalid")
  BY <1>1, <1>2, RejectFinishes
<1>3. CASE Reject(w, "notfound")
  \* An uncached asset id: NotFound of a method that names no wallet or signer.
  <2>1. reply' = [reply EXCEPT ![w] = Err("notfound")] /\ UNCHANGED <<wollets, signers>>
    BY <1>3 DEF Reject, Done, Answer
  <2>2. IsReply(Err("notfound")) /\ AR!Outcome(req[w], Err("notfound"))
    BY <1>1, <2>1 DEF IsReply, Err, ErrReasons, AR!Outcome, AR!Failure, AR!Is,
                      AR!Keep, AR!WalletMethods, AR!SignerMethods
  <2>. QED
    BY <2>1, <2>2, FinishWith
<1>4. CASE Reply(w, "none")
  <2>1. AR!Success(req[w], Ok("none"))
    BY <1>1, <1>4 DEF Reply, Done, Ok, AR!Success, AR!Keep
  <2>. QED
    BY <1>1, <1>4, <2>1, ReplyNoneFinishes
<1>. QED
  BY <1>2, <1>3, <1>4 DEF AssetDetails

\* The end of a sync: the wallet is still loaded, since the guard was held.
LEMMA SyncDoneFinishes ==
  ASSUME SyncingWalletLoaded, NEW w \in Workers, SyncDone(w)
  PROVE  Finishes(w)
<1>1. /\ req[w].m \in {"Address", "Balance", "SendMany", "Issue"} /\ IsLoaded(wollets, req[w].name)
      /\ req[w].m \in Methods /\ req[w].m # "Stop" /\ req[w].m \in AR!Methods
  BY DEF SyncingWalletLoaded, SyncDone, Methods, LockMethods, AR!Methods, AR!LockMethods
<1>2. CASE Reject(w, "upstream")
  BY <1>1, <1>2, RejectFinishes
<1>3. CASE Reply(w, "none")
  <2>1. AR!Success(req[w], Ok("none"))
    BY <1>1, <1>3 DEF Reply, Done, Ok, AR!Success, AR!Keep, IsLoaded, AR!IsLoaded
  <2>. QED
    BY <1>1, <1>3, <2>1, ReplyNoneFinishes
<1>. QED
  BY <1>2, <1>3 DEF SyncDone

-----------------------------------------------------------------------------
(* Each step of a worker is an abstract Serve or a stutter.                *)

\* The answering step of a worker, in either of its two shapes.
LEMMA EndFacts ==
  ASSUME NEW w \in Workers, LockedEnd(w) \/ EarlyEnd(w)
  PROVE  pc[w] # "idle" /\ pc' = [pc EXCEPT ![w] = "idle"] /\ UNCHANGED req
BY DEF LockedEnd, EarlyEnd

LEMMA FinishStep ==
  ASSUME StateTypeOK, NEW w \in Workers, LockedEnd(w) \/ EarlyEnd(w), Finishes(w)
  PROVE  [AR!Next]_AR!vars
<1>1. AR!Serve(w)
  BY EndFacts, FinishIsServe
<1>. QED
  BY <1>1 DEF AR!Next

LEMMA ServeStep ==
  ASSUME QuiescentInv, SyncingWalletLoaded, NEW w \in Workers, Serve(w)
  PROVE  [AR!Next]_AR!vars
<1>1. StateTypeOK
  BY DEF QuiescentInv
<1>2. CASE AcquireLock(w) /\ ~poisoned
  \* Taking the lock is invisible: the request stays pending.
  <2>1. pc[w] = "received" /\ pc' = [pc EXCEPT ![w] = "locked"]
        /\ UNCHANGED <<wollets, signers, req, reply>>
    BY <1>2 DEF AcquireLock
  <2>2. [v \in Workers |-> pc'[v] # "idle"] = [v \in Workers |-> pc[v] # "idle"]
    BY <1>1, <2>1 DEF StateTypeOK
  <2>. QED
    BY <2>1, <2>2 DEF AR!vars
<1>3. CASE Unimplemented(w)
  BY <1>1, <1>3, EarlyHandlers, UnimplementedFinishes, FinishStep
<1>4. CASE ParamsRejected(w)
  BY <1>1, <1>4, EarlyHandlers, ParamsRejectedFinishes, FinishStep
<1>5. CASE StopRpc(w)
  BY <1>1, <1>5, EarlyHandlers, StopFinishes, FinishStep
<1>6. CASE AcquireLock(w) /\ poisoned
  BY <1>1, <1>6, EarlyHandlers, PoisonedFinishes, FinishStep
<1>7. CASE Schema(w) \/ GenerateSigner(w) \/ Version(w) \/ MultisigDescriptor(w) \/ Contract(w)
  <2>1. PICK m \in {"Schema", "GenerateSigner", "Version", "MultisigDescriptor", "Contract"},
             parses \in BOOLEAN, canFail \in BOOLEAN : FreeMethod(w, m, parses, canFail)
    BY <1>7 DEF Schema, GenerateSigner, Version, MultisigDescriptor, Contract
  <2>. QED
    BY <1>1, <2>1, FreeMethodEnd, FreeMethodFinishes, FinishStep
<1>8. CASE LoadWallet(w) \/ UnloadWallet(w)
  BY <1>1, <1>8, WalletHandlers, LoadWalletFinishes, UnloadWalletFinishes, FinishStep
<1>9. CASE LoadSigner(w) \/ UnloadSigner(w)
  BY <1>1, <1>9, SignerHandlers, LoadSignerFinishes, UnloadSignerFinishes, FinishStep
<1>10. CASE ListWallets(w) \/ ListSigners(w) \/ AssetDetails(w)
  BY <1>1, <1>10, ReadOnlyHandlers, ListWalletsFinishes, ListSignersFinishes,
     AssetDetailsFinishes, FinishStep
<1>11. CASE WalletDetails(w) \/ WalletPsetDetails(w)
  BY <1>1, <1>11, ReadOnlyHandlers, WalletDetailsFinishes, WalletPsetDetailsFinishes,
     FinishStep
<1>12. CASE Broadcast(w) \/ WalletCombine(w)
  <2>1. PICK m \in {"Broadcast", "WalletCombine"}, parses \in BOOLEAN : WalletOp(w, m, parses)
    BY <1>12 DEF Broadcast, WalletCombine
  <2>2. LockedEnd(w)
    BY <2>1, ReadOnlyHandlers
  <2>. QED
    BY <1>1, <2>1, <2>2, WalletOpFinishes, FinishStep
<1>13. CASE SinglesigDescriptor(w) \/ Xpub(w) \/ Sign(w)
  <2>1. PICK m \in {"SinglesigDescriptor", "Xpub", "Sign"}, panics \in BOOLEAN :
             SignerOp(w, m, panics)
    BY <1>13 DEF SinglesigDescriptor, Xpub, Sign
  <2>2. LockedEnd(w)
    BY <2>1, ReadOnlyHandlers
  <2>. QED
    BY <1>1, <2>1, <2>2, SignerOpFinishes, FinishStep
<1>14. CASE Address(w) \/ Balance(w) \/ SendMany(w) \/ Issue(w)
  <2>1. PICK m \in {"Address", "Balance", "SendMany", "Issue"} : SyncWalletOp(w, m)
    BY <1>14 DEF Address, Balance, SendMany, Issue
  <2>2. req[w].m = m /\ req[w].m \in AR!Methods /\ req[w].m \in AR!WalletMethods
    BY <2>1, LockedMethod DEF SyncWalletOp, LockMethods, AR!WalletMethods
  <2>3. CASE ~IsLoaded(wollets, req[w].name) /\ Reject(w, "notfound")
    <3>1. LockedEnd(w)
      BY <1>1, <2>1, <2>3 DEF SyncWalletOp, Handling, LockedEnd, StateTypeOK, Reject,
                             Done, Answer, IsReply, Err, ErrReasons
    <3>. QED
      BY <1>1, <2>2, <2>3, <3>1, WalletNotFound, FinishStep
  <2>4. CASE /\ pc' = [pc EXCEPT ![w] = "syncing"]
             /\ UNCHANGED <<wollets, signers, lock, poisoned, reply>>
    \* Starting the sync is invisible: the request stays pending.
    <3>1. pc[w] = "locked" /\ UNCHANGED req
      BY <2>1 DEF SyncWalletOp, Handling
    <3>2. [v \in Workers |-> pc'[v] # "idle"] = [v \in Workers |-> pc[v] # "idle"]
      BY <1>1, <2>4, <3>1 DEF StateTypeOK
    <3>. QED
      BY <2>4, <3>1, <3>2 DEF AR!vars
  <2>. QED
    BY <2>1, <2>3, <2>4 DEF SyncWalletOp
<1>15. CASE SyncDone(w)
  BY <1>1, <1>15, SyncDoneEnd, SyncDoneFinishes, FinishStep
<1>. QED
  BY <1>2, <1>3, <1>4, <1>5, <1>6, <1>7, <1>8, <1>9, <1>10, <1>11, <1>12, <1>13,
     <1>14, <1>15
  DEF Serve

-----------------------------------------------------------------------------
(* A wallet being synced stays loaded: the worker syncing holds the lock,  *)
(* so no other handler runs and App::run cannot replace the State.         *)

\* The four shapes of a worker's step.
LEMMA ServeShapes ==
  ASSUME QuiescentInv, NEW w \in Workers, Serve(w)
  PROVE  \/ LockedEnd(w) \/ EarlyEnd(w)
         \/ AcquireLock(w) /\ ~poisoned
         \/ /\ pc' = [pc EXCEPT ![w] = "syncing"]
            /\ req[w].m \in {"Address", "Balance", "SendMany", "Issue"} /\ IsLoaded(wollets, req[w].name)
            /\ UNCHANGED <<wollets, req>>
            /\ UNCHANGED <<appVars, signers, lock, poisoned, reply, served>>
<1>1. CASE \/ Unimplemented(w) \/ ParamsRejected(w) \/ StopRpc(w)
           \/ AcquireLock(w) /\ poisoned
  BY <1>1, EarlyHandlers
<1>2. CASE Schema(w) \/ GenerateSigner(w) \/ Version(w) \/ MultisigDescriptor(w) \/ Contract(w)
  BY <1>2, FreeMethodEnd DEF Schema, GenerateSigner, Version, MultisigDescriptor, Contract
<1>3. CASE \/ ListWallets(w) \/ ListSigners(w) \/ AssetDetails(w)
           \/ Broadcast(w) \/ WalletCombine(w)
           \/ SinglesigDescriptor(w) \/ Xpub(w) \/ Sign(w)
           \/ WalletDetails(w) \/ WalletPsetDetails(w)
  <2>1. \/ ListWallets(w) \/ ListSigners(w) \/ AssetDetails(w)
        \/ \E m, parses : WalletOp(w, m, parses)
        \/ \E m, panics : SignerOp(w, m, panics)
        \/ WalletDetails(w) \/ WalletPsetDetails(w)
    BY <1>3 DEF Broadcast, WalletCombine, SinglesigDescriptor, Xpub, Sign
  <2>. QED
    BY <2>1, ReadOnlyHandlers
<1>4. CASE LoadWallet(w) \/ UnloadWallet(w) \/ LoadSigner(w) \/ UnloadSigner(w)
  BY <1>4, WalletHandlers, SignerHandlers
<1>5. CASE Address(w) \/ Balance(w) \/ SendMany(w) \/ Issue(w)
  <2>1. PICK m \in {"Address", "Balance", "SendMany", "Issue"} : SyncWalletOp(w, m)
    BY <1>5 DEF Address, Balance, SendMany, Issue
  <2>. QED
    BY <2>1 DEF QuiescentInv, StateTypeOK, LockedEnd, SyncWalletOp, Handling, Reject,
                Done, Answer, IsReply, Err, ErrReasons
<1>6. CASE SyncDone(w)
  BY <1>6, SyncDoneEnd
<1>. QED
  BY <1>1, <1>2, <1>3, <1>4, <1>5, <1>6 DEF Serve

LEMMA SyncInit == Init => SyncingWalletLoaded
BY DEF Init, SyncingWalletLoaded

LEMMA SyncNext ==
  ASSUME QuiescentInv, SyncingWalletLoaded, [Next]_vars
  PROVE  SyncingWalletLoaded'
<1> SUFFICES ASSUME NEW v \in Workers, pc'[v] = "syncing"
             PROVE  req'[v].m \in {"Address", "Balance", "SendMany", "Issue"} /\ IsLoaded(wollets', req'[v].name)
  BY DEF SyncingWalletLoaded
<1>1. StateTypeOK
  BY DEF QuiescentInv
<1>2. CASE \E w \in Workers, r \in Requests : Receive(w, r)
  <2>1. PICK w \in Workers, r \in Requests : Receive(w, r)
    BY <1>2
  <2>2. v # w /\ pc[v] = "syncing" /\ req'[v] = req[v] /\ UNCHANGED wollets
    BY <1>1, <2>1 DEF Receive, StateTypeOK
  <2>. QED
    BY <2>2 DEF SyncingWalletLoaded
<1>3. CASE \E w \in Workers : Serve(w)
  <2>1. PICK w \in Workers : Serve(w)
    BY <1>3
  <2>2. CASE LockedEnd(w)
    \* The handler that ends holds the lock, so no other worker is syncing.
    <3>1. v # w
      BY <1>1, <2>2 DEF LockedEnd, StateTypeOK
    <3>2. pc[v] = "syncing"
      BY <1>1, <2>2, <3>1 DEF LockedEnd, StateTypeOK
    <3>. QED
      BY <2>2, <3>1, <3>2 DEF LockedEnd, QuiescentInv, QuiescentWhenOff
  <2>3. CASE EarlyEnd(w)
    <3>1. v # w /\ pc[v] = "syncing" /\ UNCHANGED <<wollets, req>>
      BY <1>1, <2>3 DEF EarlyEnd, StateTypeOK
    <3>. QED
      BY <3>1 DEF SyncingWalletLoaded
  <2>6. CASE AcquireLock(w) /\ ~poisoned
    <3>1. v # w /\ pc[v] = "syncing" /\ UNCHANGED <<wollets, req>>
      BY <1>1, <2>6 DEF AcquireLock, StateTypeOK
    <3>. QED
      BY <3>1 DEF SyncingWalletLoaded
  <2>4. CASE /\ pc' = [pc EXCEPT ![w] = "syncing"]
             /\ req[w].m \in {"Address", "Balance", "SendMany", "Issue"} /\ IsLoaded(wollets, req[w].name)
             /\ UNCHANGED <<wollets, req>>
    <3>1. CASE v = w
      BY <2>4, <3>1
    <3>2. CASE v # w
      BY <1>1, <2>4, <3>2 DEF SyncingWalletLoaded, StateTypeOK
    <3>. QED
      BY <3>1, <3>2
  <2>5. \/ LockedEnd(w) \/ EarlyEnd(w)
        \/ AcquireLock(w) /\ ~poisoned
        \/ /\ pc' = [pc EXCEPT ![w] = "syncing"]
           /\ req[w].m \in {"Address", "Balance", "SendMany", "Issue"}
           /\ IsLoaded(wollets, req[w].name)
           /\ UNCHANGED <<wollets, req>>
    BY <2>1, ServeShapes
  <2>. QED
    BY <2>2, <2>3, <2>4, <2>5, <2>6
<1>4. CASE AppRun
  <2>1. UNCHANGED <<pc, req>> /\ ~joining
    BY <1>4 DEF AppRun
  <2>2. server # "off"
    BY <1>1, <2>1 DEF QuiescentInv, QuiescentWhenOff
  <2>3. rpc \/ UNCHANGED wollets
    \* A fresh State needs ~rpc, hence (nobody joining) a server that is off.
    BY <1>4, <2>1, <2>2 DEF AppRun, QuiescentInv
  <2>. QED
    BY <2>1, <2>3, <1>4 DEF AppRun, SyncingWalletLoaded
<1>5. CASE AppStop \/ AppJoin \/ JoinDone \/ UNCHANGED vars
  BY <1>5 DEF AppStop, AppJoin, JoinDone, vars, workerVars, SyncingWalletLoaded
<1>. QED
  BY <1>2, <1>3, <1>4, <1>5 DEF Next

\* The wallet a worker is syncing in Address, Balance, SendMany or Issue
\* stays loaded for the whole network call: the guard taken before
\* wollets.get_mut is held across sync_txs, so no UnloadWallet of another
\* client and no App::run can remove it.
THEOREM SyncingWalletLoadedHolds == Spec => []SyncingWalletLoaded
<1>1. Init => QuiescentInv /\ SyncingWalletLoaded
  BY InitInv, SyncInit
<1>2. QuiescentInv /\ SyncingWalletLoaded /\ [Next]_vars
        => (QuiescentInv /\ SyncingWalletLoaded)'
  BY NextInv, SyncNext
<1>. QED
  BY <1>1, <1>2, PTL DEF Spec

-----------------------------------------------------------------------------
(* The initial states and the other steps.                                 *)

LEMMA InitRefines == Init => AR!Init
<1> SUFFICES ASSUME Init PROVE AR!Init
  OBVIOUS
<1>1. (CHOOSE r \in Requests : TRUE) \in Requests
  BY AppServerAssumption
<1>2. [w \in Workers |-> pc[w] # "idle"] = [w \in Workers |-> FALSE]
  BY DEF Init
<1>. QED
  BY <1>1, <1>2 DEF Init, AR!Init, EmptyRegistry, AR!EmptyRegistry, NoReply, AR!NoReply

LEMMA NextRefines ==
  QuiescentInv /\ SyncingWalletLoaded /\ [Next]_vars => [AR!Next]_AR!vars
<1> SUFFICES ASSUME QuiescentInv, SyncingWalletLoaded, [Next]_vars
             PROVE  [AR!Next]_AR!vars
  OBVIOUS
<1>1. StateTypeOK
  BY DEF QuiescentInv
<1>2. CASE \E w \in Workers, r \in Requests : Receive(w, r)
  \* Taking a request submits it.
  <2>1. PICK w \in Workers, r \in Requests : Receive(w, r)
    BY <1>2
  <2>2. [v \in Workers |-> pc'[v] # "idle"]
          = [[v \in Workers |-> pc[v] # "idle"] EXCEPT ![w] = TRUE]
    BY <1>1, <2>1 DEF Receive, StateTypeOK
  <2>3. AR!Submit(w, r)
    BY <2>1, <2>2 DEF Receive, AR!Submit, AR!Keep, NoReply, AR!NoReply
  <2>. QED
    BY <2>3 DEF AR!Next
<1>3. CASE \E w \in Workers : Serve(w)
  BY <1>3, ServeStep
<1>4. CASE AppRun
  <2>1. UNCHANGED <<pc, req, reply>>
    BY <1>4 DEF AppRun
  <2>2. CASE UNCHANGED <<wollets, signers>>
    BY <2>1, <2>2 DEF AR!vars
  <2>3. CASE ~rpc /\ wollets' = EmptyRegistry /\ signers' = EmptyRegistry
    \* A fresh State: nothing is in flight, so this is the abstract Reset.
    <3>1. \A v \in Workers : pc[v] = "idle"
      BY <1>4, <2>3 DEF AppRun, QuiescentInv, QuiescentWhenOff
    <3>2. AR!Reset
      BY <2>1, <2>3, <3>1 DEF AR!Reset, EmptyRegistry, AR!EmptyRegistry
    <3>. QED
      BY <3>2 DEF AR!Next
  <2>. QED
    BY <1>4, <2>2, <2>3 DEF AppRun
<1>5. CASE AppStop \/ AppJoin \/ JoinDone \/ UNCHANGED vars
  \* The App's owner never touches the State or a request.
  BY <1>5 DEF AppStop, AppJoin, JoinDone, vars, workerVars, AR!vars
<1>. QED
  BY <1>2, <1>3, <1>4, <1>5 DEF Next

\* The whole dispatcher implements the atomic contract of AtomicRegistry
\* under the mapping pending <- [w |-> pc[w] # "idle"]: every request of
\* inner_method_handler takes effect in the one step that answers it, its
\* errors are truthful and leave the registries alone (but for the
\* UnloadSigner removal kept before a device failure), and App::run only
\* clears the State when no handler is running.
THEOREM Refinement == Spec => AtomicSpec
<1>1. Init => QuiescentInv /\ SyncingWalletLoaded
  BY InitInv, SyncInit
<1>2. QuiescentInv /\ SyncingWalletLoaded /\ [Next]_vars
        => (QuiescentInv /\ SyncingWalletLoaded)'
  BY NextInv, SyncNext
<1>3. Init => AR!Init
  BY InitRefines
<1>4. QuiescentInv /\ SyncingWalletLoaded /\ [Next]_vars => [AR!Next]_AR!vars
  BY NextRefines
<1>. QED
  BY <1>1, <1>2, <1>3, <1>4, PTL DEF Spec, AtomicSpec, AR!Spec

=============================================================================
