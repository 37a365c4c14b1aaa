---------------------------- MODULE MCAppServer -----------------------------
(***************************************************************************)
(* Model-checking instances of AppServer: model values for names,          *)
(* fingerprints and workers, three descriptors that exercise the           *)
(* classifier and the fingerprint checks, and the request sets of the      *)
(* runs.                                                                   *)
(***************************************************************************)
EXTENDS AppServer

CONSTANTS f1, f2, n1, n2

\* wsh(multi(2, A, B)), wpkh(A), and wsh(multi(1, A, A')) whose two keys come
\* from one master key (same fingerprint, different derivation paths).
MultiDesc  == [shape |-> "wshmulti", k |-> 2, keys |-> <<f1, f2>>]
SingleDesc == [shape |-> "wpkh", k |-> 0, keys |-> <<f1>>]
SameKeyDesc == [shape |-> "wshmulti", k |-> 1, keys |-> <<f1, f1>>]
MCDescs == {MultiDesc, SingleDesc, SameKeyDesc}

\* A request with well-formed params and default fields.
Rq(m, n) ==
  [m |-> m, params |-> "ok", name |-> n, desc |-> MultiDesc, kind |-> "software",
   fp |-> f1, arg |-> "good", signed |-> {}]
With(r, field, v) == [r EXCEPT ![field] = v]

LoadW(n, d)     == With(Rq("LoadWallet", n), "desc", d)
LoadS(n, k, f)  == With(With(Rq("LoadSigner", n), "kind", k), "fp", f)

\* Every method and every branch of the dispatcher, for one worker.
AllMethodRequests ==
  {LoadW(n1, MultiDesc), LoadW(n1, SingleDesc), Rq("UnloadWallet", n1), Rq("ListWallets", n1),
   LoadS(n1, "software", f1), LoadS(n2, "serial", f1), LoadS(n2, "external", f2),
   With(LoadS(n1, "software", f1), "arg", "none"), With(LoadS(n1, "software", f1), "arg", "bad"),
   With(LoadS(n1, "external", f1), "arg", "bad"), LoadS(n1, "usb", f1),
   Rq("UnloadSigner", n2), Rq("ListSigners", n1),
   Rq("Address", n1), Rq("Balance", n1), Rq("SendMany", n1), Rq("Issue", n1),
   With(Rq("Broadcast", n1), "arg", "bad"), Rq("WalletCombine", n1),
   Rq("SinglesigDescriptor", n2), With(Rq("Xpub", n2), "arg", "bad"), Rq("Sign", n1),
   Rq("WalletDetails", n1), With(Rq("WalletPsetDetails", n1), "signed", {f1}),
   With(Rq("WalletPsetDetails", n1), "arg", "bad"),
   Rq("AssetDetails", n1), With(Rq("AssetDetails", n1), "arg", "none"),
   With(Rq("AssetDetails", n1), "arg", "bad"),
   Rq("Schema", n1), With(Rq("Schema", n1), "arg", "bad"), Rq("GenerateSigner", n1),
   Rq("Version", n1), Rq("MultisigDescriptor", n1), With(Rq("Contract", n1), "arg", "bad"),
   Rq("Contract", n1), Rq("Stop", n1), Rq("getinfo", n1),
   With(Rq("SendMany", n1), "params", "none"), With(Rq("Balance", n1), "params", "none"),
   With(Rq("Sign", n1), "params", "bad")}

\* Two clients loading, unloading, listing and resolving names.
RegistryRequests ==
  {LoadW(n1, MultiDesc), LoadW(n1, SameKeyDesc), Rq("UnloadWallet", n1),
   Rq("ListWallets", n1), LoadS(n1, "software", f1), LoadS(n2, "serial", f1),
   Rq("UnloadSigner", n2), Rq("WalletDetails", n1), Rq("Stop", n1)}

\* A hardware signer that may fail to unlock, and other clients' requests.
PoisonRequests ==
  {LoadS(n1, "serial", f1), Rq("ListWallets", n1), Rq("SinglesigDescriptor", n1), Rq("Stop", n1)}

\* A wallet synced by one client while another unloads or reloads it; a
\* sync may also wait on the lock behind a hardware signer's unlock.
SyncRequests ==
  {LoadW(n1, MultiDesc), Rq("Balance", n1), Rq("Address", n1), Rq("UnloadWallet", n1),
   LoadS(n1, "serial", f1), Rq("Stop", n1)}

\* Requests without params.
NoParamsRequests ==
  {With(Rq("SendMany", n1), "params", "none"), With(Rq("Address", n1), "params", "none"),
   Rq("Stop", n1)}

\* Unloading a hardware signer whose device no longer answers.
UnloadRequests ==
  {LoadS(n1, "serial", f1), Rq("UnloadSigner", n1), Rq("Stop", n1)}

=============================================================================
