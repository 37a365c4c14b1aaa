\* Under weak fairness of the worker threads and of the return of join_threads,
\* and assuming each network sync returns: every request taken is answered
\* and join_threads returns once the server is stopped.
CONSTANTS
  Workers = {w1, w2}
  f1 = f1
  f2 = f2
  n1 = n1
  n2 = n2
  Names = {n1, n2}
  Fps = {f1, f2}
  Descs <- MCDescs
  Requests <- SyncRequests
  MaxReq = 2
  Absent = Absent
  NoName = NoName
  NoHolder = NoHolder
SPECIFICATION FairSpec
PROPERTY RequestsAnswered JoinReturns
