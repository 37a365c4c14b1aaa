------------------------------ MODULE Registry ------------------------------
(***************************************************************************)
(* The Named Registry of wallets and of signers (state.rs, which is not    *)
(* part of src/: modelled from spec sections 4.1 and 4.5).                 *)
(*                                                                         *)
(* A registry is a total function from names to entries, Absent marking a  *)
(* name with no entry; this keeps every operation a function update.       *)
(***************************************************************************)
EXTENDS Naturals, Sequences, FiniteSets

CONSTANTS
  Absent,   \* the slot of a name that is not in the registry
  NoName,   \* name: None in a SignerDetails: the fingerprint is unresolved
  Fps       \* signer fingerprints

\* A loaded signer: AppSigner::AvailableSigner (avail) with a software
\* (jade = FALSE) or a Jade (jade = TRUE) signer, or
\* AppSigner::ExternalSigner (avail = FALSE) that only holds a fingerprint.
SignerEntries ==
  {s \in [avail : BOOLEAN, fp : Fps, jade : BOOLEAN] : s.jade => s.avail}

Loaded(reg) == {n \in DOMAIN reg : reg[n] # Absent}

\* insert(name, entity): fails with NameAlreadyExists when name is loaded.
CanInsert(reg, n) == reg[n] = Absent
Insert(reg, n, e) == [reg EXCEPT ![n] = e]

\* remove(name) and get(name) fail with NameNotFound unless name is loaded.
IsLoaded(reg, n) == reg[n] # Absent
Remove(reg, n) == [reg EXCEPT ![n] = Absent]

\* iter(): a snapshot of the (name, entry) pairs.
Snapshot(reg) == {<<n, reg[n]>> : n \in Loaded(reg)}

\* Signers::get_available: the entry must exist and hold signing capability.
IsAvailable(reg, n) == IsLoaded(reg, n) /\ reg[n].avail

\* The loaded signers whose fingerprint is f.
Matching(reg, f) == {n \in Loaded(reg) : reg[n].fp = f}

\* Signers::name_from_fingerprint: the unique matching signer's name, or the
\* placeholder together with a warning naming f (spec 3 and 4.5).
NameFromFingerprint(reg, f) ==
  IF Cardinality(Matching(reg, f)) = 1
  THEN CHOOSE n \in Matching(reg, f) : TRUE
  ELSE NoName

FingerprintWarning(reg, f) ==
  CASE Matching(reg, f) = {}                 -> <<[kind |-> "unknown", fp |-> {f}]>>
    [] Cardinality(Matching(reg, f)) = 1     -> <<>>
    [] OTHER                                 -> <<[kind |-> "collision", fp |-> {f}]>>

\* Warnings pushed by name_from_fingerprint over the fingerprints fs, in order.
LookupWarnings(reg, fs) ==
  LET w[i \in 0..Len(fs)] ==
        IF i = 0 THEN <<>> ELSE w[i - 1] \o FingerprintWarning(reg, fs[i])
  IN  w[Len(fs)]

\* The SignerDetails list: each fingerprint of fs with its resolved name.
Resolve(reg, fs) == [i \in 1..Len(fs) |-> <<fs[i], NameFromFingerprint(reg, fs[i])>>]

=============================================================================
