---------------------------- MODULE AppLifecycle ----------------------------
(***************************************************************************)
(* What App promises its owner (spec 7, LifecycleError and StopSignal):    *)
(* run, stop and join_threads report AlreadyStarted and NotStarted         *)
(* truthfully; requests are taken only while the server runs; a Stop       *)
(* request or stop() stops taking them; join_threads returns only once the *)
(* server is stopped and every request it took is answered; and a new run  *)
(* starts with no request of an earlier run in flight.                     *)
(***************************************************************************)
CONSTANTS
  Workers     \* the worker threads of the transport

VARIABLES
  started,    \* App.rpc is Some
  serving,    \* the server: "off", "running" or "stopped"
  joining,    \* the owner is blocked in join_threads
  err,        \* the Error of the owner's last call, or "none"
  busy        \* the workers with a request in flight

vars == <<started, serving, joining, err, busy>>

Init ==
  /\ ~started
  /\ serving = "off"
  /\ ~joining
  /\ err = "none"
  /\ busy = {}

\* App::run: AlreadyStarted, a failed bind, or a new server run.
Run ==
  /\ ~joining
  /\ \/ started /\ err' = "AlreadyStarted" /\ UNCHANGED <<started, serving>>
     \/ ~started /\ err' = "Io" /\ UNCHANGED <<started, serving>>
     \/ /\ ~started /\ busy = {}
        /\ started' /\ serving' = "running" /\ err' = "none"
  /\ UNCHANGED <<joining, busy>>

\* App::stop.
Stop ==
  /\ ~joining
  /\ \/ started /\ err' = "none"
               /\ serving' = IF serving = "running" THEN "stopped" ELSE serving
     \/ ~started /\ err' = "NotStarted" /\ UNCHANGED serving
  /\ UNCHANGED <<started, joining, busy>>

\* App::join_threads is called ...
Join ==
  /\ ~joining
  /\ \/ started /\ ~started' /\ joining' /\ err' = "none"
     \/ ~started /\ err' = "NotStarted" /\ UNCHANGED <<started, joining>>
  /\ UNCHANGED <<serving, busy>>

\* ... and returns.
JoinReturns ==
  /\ joining
  /\ serving = "stopped"
  /\ busy = {}
  /\ ~joining'
  /\ serving' = "off"
  /\ UNCHANGED <<started, err, busy>>

\* A worker takes a request.
Begin(w) ==
  /\ serving = "running"
  /\ w \notin busy
  /\ busy' = busy \cup {w}
  /\ UNCHANGED <<started, serving, joining, err>>

\* A worker answers it; a Stop request stops the server.
End(w) ==
  /\ w \in busy
  /\ busy' = busy \ {w}
  /\ serving' \in {serving, IF serving = "running" THEN "stopped" ELSE serving}
  /\ UNCHANGED <<started, joining, err>>

Next ==
  \/ Run \/ Stop \/ Join \/ JoinReturns
  \/ \E w \in Workers : Begin(w) \/ End(w)

Spec == Init /\ [][Next]_vars

=============================================================================
