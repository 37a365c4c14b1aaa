--------------------------- MODULE AtomicRegistry ---------------------------
(***************************************************************************)
(* What the dispatcher promises its clients (spec 4.1, 4.3, 5, 7): every   *)
(* request takes effect in one atomic step on the wallet and signer        *)
(* registries, its reply is computed from the registries of that step, a   *)
(* failed request leaves them untouched, NotFound and NameAlreadyExists    *)
(* are only reported when true, and starting the server starts from empty  *)
(* registries. Clients submit requests concurrently, one per worker.       *)
(***************************************************************************)
EXTENDS RpcModel

VARIABLES
  wollets,    \* the wallet registry
  signers,    \* the signer registry
  pending,    \* pending[w]: worker w has a request in progress
  req,        \* the request of each worker
  reply       \* the reply to it

vars == <<wollets, signers, pending, req, reply>>

Keep == UNCHANGED <<wollets, signers>>

\* Methods that address a wallet, or a signer, by name.
WalletMethods ==
  {"UnloadWallet", "Address", "Balance", "SendMany", "Broadcast",
   "WalletDetails", "WalletCombine", "WalletPsetDetails", "Issue"}
SignerMethods == {"UnloadSigner", "SinglesigDescriptor", "Xpub", "Sign"}

\* The kind selector of LoadSigner that produces signer entry e.
KindOf(e) ==
  IF ~e.avail THEN "external" ELSE IF e.jade THEN "serial" ELSE "software"

\* Each name a SignerDetails list reports is the resolution of its fingerprint.
ResolvedNow(list) ==
  \A i \in DOMAIN list : list[i][2] = NameFromFingerprint(signers, list[i][1])

\* A failed request: its errors are truthful and the registries untouched.
Failure(r, rep) ==
  /\ rep.kind \in {"err", "panic"}
  /\ Is(rep, "err", "notfound") =>
        /\ r.m \in WalletMethods => ~IsLoaded(wollets, r.name)
        /\ r.m \in SignerMethods => ~IsLoaded(signers, r.name)
  /\ Is(rep, "err", "exists") =>
        \/ r.m = "LoadWallet" /\ IsLoaded(wollets, r.name)
        \/ r.m = "LoadSigner" /\ IsLoaded(signers, r.name)
  /\ Is(rep, "err", "external") =>
        r.m \in SignerMethods /\ IsLoaded(signers, r.name) /\ ~signers[r.name].avail
  /\ Keep

\* A successful request, per method.
Success(r, rep) ==
  LET n == r.name IN
  /\ rep.kind = "ok"
  /\ \/ /\ r.m = "LoadWallet" /\ CanInsert(wollets, n)
        /\ wollets' = Insert(wollets, n, r.desc) /\ UNCHANGED signers
        /\ rep.val = <<n, r.desc>>
     \/ /\ r.m = "UnloadWallet" /\ IsLoaded(wollets, n)
        /\ wollets' = Remove(wollets, n) /\ UNCHANGED signers
        /\ rep.val = <<n, wollets[n]>>
     \/ r.m = "ListWallets" /\ Keep /\ rep.val = Snapshot(wollets)
     \/ /\ r.m = "LoadSigner" /\ CanInsert(signers, n) /\ UNCHANGED wollets
        /\ \E e \in SignerEntries :
              /\ e.fp = r.fp /\ KindOf(e) = r.kind
              /\ signers' = Insert(signers, n, e)
              /\ rep.val = SignerInfo(n, e)
     \/ /\ r.m = "UnloadSigner" /\ IsLoaded(signers, n)
        /\ signers' = Remove(signers, n) /\ UNCHANGED wollets
        /\ rep.val = SignerInfo(n, signers[n])
     \/ /\ r.m = "ListSigners" /\ Keep
        /\ rep.val = {SignerInfo(m, signers[m]) : m \in Loaded(signers)}
     \/ /\ r.m \in {"Address", "Balance", "SendMany", "Broadcast", "WalletCombine", "Issue"}
        /\ IsLoaded(wollets, n) /\ Keep
     \/ r.m \in {"SinglesigDescriptor", "Xpub", "Sign"} /\ IsAvailable(signers, n) /\ Keep
     \/ /\ r.m = "WalletDetails" /\ IsLoaded(wollets, n) /\ Keep
        /\ rep.val.signers = Resolve(signers, wollets[n].keys)
     \/ /\ r.m = "WalletPsetDetails" /\ IsLoaded(wollets, n) /\ Keep
        /\ ResolvedNow(rep.val.has) /\ ResolvedNow(rep.val.missing)
     \/ /\ r.m \in {"Schema", "GenerateSigner", "Version", "MultisigDescriptor",
                    "Contract", "AssetDetails"}
        /\ Keep

\* The one failure that is not atomic: UnloadSigner reads the identity of
\* a hardware signer after removing it, and that read may fail.
RemovedThenFailed(r, rep) ==
  /\ r.m = "UnloadSigner" /\ IsLoaded(signers, r.name) /\ signers[r.name].jade
  /\ signers' = Remove(signers, r.name) /\ UNCHANGED wollets
  /\ Is(rep, "err", "upstream")

Outcome(r, rep) ==
  \/ r.m \notin Methods /\ Is(rep, "unimpl", "none") /\ Keep
  \/ r.m = "Stop" /\ Is(rep, "stop", "none") /\ Keep
  \/ r.m \in Methods /\ r.m # "Stop" /\ (Failure(r, rep) \/ Success(r, rep))
  \/ RemovedThenFailed(r, rep)

Init ==
  /\ wollets = EmptyRegistry
  /\ signers = EmptyRegistry
  /\ pending = [w \in Workers |-> FALSE]
  /\ req \in [Workers -> Requests]
  /\ reply = [w \in Workers |-> NoReply]

Submit(w, r) ==
  /\ ~pending[w]
  /\ pending' = [pending EXCEPT ![w] = TRUE]
  /\ req' = [req EXCEPT ![w] = r]
  /\ reply' = [reply EXCEPT ![w] = NoReply]
  /\ Keep

Serve(w) ==
  /\ pending[w]
  /\ pending' = [pending EXCEPT ![w] = FALSE]
  /\ reply' = [reply EXCEPT ![w] = reply'[w]]
  /\ IsReply(reply'[w])
  /\ Outcome(req[w], reply'[w])
  /\ UNCHANGED req

\* A new server run starts from empty registries once nothing is pending.
Reset ==
  /\ \A w \in Workers : ~pending[w]
  /\ wollets' = EmptyRegistry
  /\ signers' = EmptyRegistry
  /\ UNCHANGED <<pending, req, reply>>

Next ==
  \/ \E w \in Workers, r \in Requests : Submit(w, r)
  \/ \E w \in Workers : Serve(w)
  \/ Reset

Spec == Init /\ [][Next]_vars

=============================================================================
