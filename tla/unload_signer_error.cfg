\* UnloadSigner of a hardware signer whose identity cannot be read.
CONSTANTS
  Workers = {w1}
  f1 = f1
  f2 = f2
  n1 = n1
  n2 = n2
  Names = {n1, n2}
  Fps = {f1, f2}
  Descs <- MCDescs
  Requests <- UnloadRequests
  MaxReq = 2
  Absent = Absent
  NoName = NoName
  NoHolder = NoHolder
SPECIFICATION Spec
PROPERTY ErrorLeavesRegistries
