\* Two clients loading, unloading, listing and resolving names concurrently,
\* across server restarts: the lock discipline and the contracts of the
\* atomic registry, of the State Mutex and of the App lifecycle.
CONSTANTS
  Workers = {w1, w2}
  f1 = f1
  f2 = f2
  n1 = n1
  n2 = n2
  Names = {n1, n2}
  Fps = {f1, f2}
  Descs <- MCDescs
  Requests <- RegistryRequests
  MaxReq = 2
  Absent = Absent
  NoName = NoName
  NoHolder = NoHolder
SPECIFICATION Spec
INVARIANT QuiescentWhenOff
PROPERTY AtomicSpec MutexSpec LifecycleSpec
