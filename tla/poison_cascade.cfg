\* A failed unlock of a hardware signer makes the requests of other clients fail.
CONSTANTS
  Workers = {w1, w2}
  f1 = f1
  f2 = f2
  n1 = n1
  n2 = n2
  Names = {n1, n2}
  Fps = {f1, f2}
  Descs <- MCDescs
  Requests <- PoisonRequests
  MaxReq = 1
  Absent = Absent
  NoName = NoName
  NoHolder = NoHolder
SPECIFICATION Spec
INVARIANT NoPoisonCascade
