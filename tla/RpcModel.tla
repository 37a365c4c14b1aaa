------------------------------ MODULE RpcModel ------------------------------
(***************************************************************************)
(* The vocabulary shared by the server and its abstract specification: the *)
(* method set (the Method enum), the requests (rpc_model::request), the    *)
(* replies (rpc_model::response, Error and Response::unimplemented) and    *)
(* the wallet descriptors, all abstracted to what the properties use.      *)
(***************************************************************************)
EXTENDS Registry

CONSTANTS
  Workers,    \* threads of the transport that run method_handler
  Names,      \* wallet and signer names
  Descs,      \* wallet descriptors
  Requests    \* the requests clients send

\* Methods whose handler takes state.lock() (lib.rs 153-563).
LockMethods ==
  {"LoadWallet", "UnloadWallet", "ListWallets", "LoadSigner", "UnloadSigner",
   "ListSigners", "Address", "Balance", "SendMany", "SinglesigDescriptor",
   "Xpub", "Sign", "Broadcast", "WalletDetails", "WalletCombine",
   "WalletPsetDetails", "Issue", "AssetDetails"}

\* Methods answered without the lock.
FreeMethods ==
  {"Schema", "GenerateSigner", "Version", "MultisigDescriptor", "Contract", "Stop"}

Methods == LockMethods \cup FreeMethods

\* How a handler reads request.params: unwrap() panics on a request with no
\* params, unwrap_or_default() hands Null to serde, and some never read them.
UnwrapParams ==
  {"SendMany", "SinglesigDescriptor", "MultisigDescriptor", "Xpub", "Sign",
   "Broadcast", "WalletDetails", "WalletCombine", "WalletPsetDetails", "Issue",
   "Contract", "AssetDetails"}
NoParams == {"GenerateSigner", "Version", "ListWallets", "ListSigners", "Stop"}

\* Descriptor shapes: wpkh, sh(wpkh), wsh(multi), wsh(sortedmulti), wsh of
\* another miniscript, and every other descriptor.
Shapes == {"wpkh", "shwpkh", "wshmulti", "wshsortedmulti", "wshms", "other"}

\* A request: the method (a name outside Methods is unknown), whether params
\* are well-formed, absent or present but ill-shaped, and the fields the
\* handlers branch on. arg is the method's own argument checked under the
\* lock (mnemonic or fingerprint of LoadSigner, variant strings, PSET text,
\* asset id): "good", "bad" (unparsable) or "none" (missing / not cached).
RequestFields ==
  [m : STRING, params : {"ok", "bad", "none"}, name : Names, desc : Descs,
   kind : STRING, fp : Fps, arg : {"good", "bad", "none"}, signed : SUBSET Fps]

\* Replies: a result, an Error converted to a JSON-RPC error, the
\* unimplemented response, the Stop sentinel, or a panic of the worker.
NoReply   == [kind |-> "none", val |-> "none"]
Ok(v)     == [kind |-> "ok", val |-> v]
Err(e)    == [kind |-> "err", val |-> e]
Panic(c)  == [kind |-> "panic", val |-> c]
StopReply == [kind |-> "stop", val |-> "none"]
Unimpl    == [kind |-> "unimpl", val |-> "none"]

ErrReasons  == {"params", "notfound", "exists", "external", "invalid", "upstream"}
PanicCauses == {"params", "unwrap", "poisoned"}

\* signer_response_from (lib.rs 579-598): id and xpub are Some exactly for
\* an available signer.
SignerInfo(n, e) == [name |-> n, fp |-> e.fp, id |-> e.avail]

Warnings == [kind : {"dup", "unknown", "collision"}, fp : SUBSET Fps]

SignerInfos == [name : Names, fp : Fps, id : BOOLEAN]
WalletTypes == [t : {"Wpkh", "ShWpkh", "WshMulti", "Unknown"}, k : Nat, n : Nat]
Resolved == Seq(Fps \X (Names \cup {NoName}))

\* The response struct of a successful method m (rpc_model::response).
ResultType(m, v) ==
  CASE m \in {"LoadWallet", "UnloadWallet"}      -> v \in Names \X Descs
    [] m = "ListWallets"                        -> v \subseteq Names \X Descs
    [] m \in {"LoadSigner", "UnloadSigner"}      -> v \in SignerInfos
    [] m = "ListSigners"                        -> v \subseteq SignerInfos
    [] m = "WalletDetails"  -> v \in [type : WalletTypes, signers : Resolved, warnings : Seq(Warnings)]
    [] m = "WalletPsetDetails" -> v \in [has : Resolved, missing : Resolved, warnings : Seq(Warnings)]
    [] OTHER                                    -> v = "none"

ReplyKinds == {"none", "ok", "err", "panic", "stop", "unimpl"}

\* rep is a reply of kind k carrying v (kind first: the values of results
\* of different methods have different shapes).
Is(rep, k, v) == rep.kind = k /\ rep.val = v

IsReply(rep) ==
  \/ rep.kind \in {"none", "stop", "unimpl"} /\ rep.val = "none"
  \/ rep.kind = "err" /\ rep.val \in ErrReasons
  \/ rep.kind = "panic" /\ rep.val \in PanicCauses
  \/ rep.kind = "ok"

EmptyRegistry == [n \in Names |-> Absent]

=============================================================================
