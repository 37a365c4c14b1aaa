----------------------------- MODULE StateMutex -----------------------------
(***************************************************************************)
(* What the Arc<Mutex<State>> of App::run promises the handlers: the       *)
(* std::sync::Mutex contract as the server uses it. One thread at a time   *)
(* holds the guard; the guarded State changes only when its holder drops   *)
(* the guard; a guard dropped while panicking poisons the Mutex for good;  *)
(* lock() on a poisoned Mutex never hands out the State; and a fresh       *)
(* Mutex with a fresh State replaces the old one only while nobody holds   *)
(* it.                                                                     *)
(***************************************************************************)
CONSTANTS
  Workers,    \* the threads that lock the Mutex
  NoHolder,   \* the value of holder when the Mutex is free
  FreshData   \* the State of a new server run

VARIABLES
  holder,     \* the thread holding the guard, or NoHolder
  poisoned,   \* the poison flag
  data        \* the guarded State

vars == <<holder, poisoned, data>>

Init ==
  /\ holder = NoHolder
  /\ poisoned = FALSE
  /\ data = FreshData

\* lock() on a free, unpoisoned Mutex returns the guard to w.
Acquire(w) ==
  /\ holder = NoHolder
  /\ ~poisoned
  /\ holder' = w
  /\ UNCHANGED <<poisoned, data>>

\* w drops its guard, with whatever it wrote to the State; a drop during
\* unwinding sets the poison flag, which nothing clears.
Release(w) ==
  /\ holder = w
  /\ holder' = NoHolder
  /\ poisoned' \in {poisoned, TRUE}

\* A new Mutex over a new State, made while the old one is free.
Renew ==
  /\ holder = NoHolder
  /\ poisoned' = FALSE
  /\ data' = FreshData
  /\ UNCHANGED holder

Next == (\E w \in Workers : Acquire(w) \/ Release(w)) \/ Renew

Spec == Init /\ [][Next]_vars

=============================================================================
