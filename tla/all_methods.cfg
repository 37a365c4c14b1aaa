\* Every method and branch of the dispatcher, one worker: type correctness and
\* the atomic-registry contract.
CONSTANTS
  Workers = {w1}
  f1 = f1
  f2 = f2
  n1 = n1
  n2 = n2
  Names = {n1, n2}
  Fps = {f1, f2}
  Descs <- MCDescs
  Requests <- AllMethodRequests
  MaxReq = 3
  Absent = Absent
  NoName = NoName
  NoHolder = NoHolder
SPECIFICATION Spec
INVARIANT TypeOK
PROPERTY AtomicSpec
