\* Two clients: one syncing a wallet under the lock while the other unloads
\* or reloads it, or loads a hardware signer.
CONSTANTS
  Workers = {w1, w2}
  f1 = f1
  f2 = f2
  n1 = n1
  n2 = n2
  Names = {n1, n2}
  Fps = {f1, f2}
  Descs <- MCDescs
  Requests <- SyncRequests
  MaxReq = 2
  Absent = Absent
  NoName = NoName
  NoHolder = NoHolder
SPECIFICATION Spec
INVARIANT SyncingWalletLoaded
