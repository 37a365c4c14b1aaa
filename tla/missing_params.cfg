\* A request without params makes the worker panic.
CONSTANTS
  Workers = {w1}
  f1 = f1
  f2 = f2
  n1 = n1
  n2 = n2
  Names = {n1, n2}
  Fps = {f1, f2}
  Descs <- MCDescs
  Requests <- NoParamsRequests
  MaxReq = 1
  Absent = Absent
  NoName = NoName
  NoHolder = NoHolder
SPECIFICATION Spec
INVARIANT NoPanicOnMissingParams
