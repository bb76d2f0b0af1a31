----------------------------- MODULE DurableQueue -----------------------------
(***************************************************************************)
(* What an asynchronous durable writer promises its single caller,         *)
(* whatever threads, slots and wake-ups implement it: requests are         *)
(* admitted up to a capacity, reach stable storage and are finished in     *)
(* admission order, the caller is told "ok" only about stable data, and    *)
(* the queue closes only when it is empty.                                 *)
(***************************************************************************)
EXTENDS Integers

CONSTANTS
  Capacity,  \* how many admitted requests may be unfinished, at least 1
  N          \* how many requests a run admits

VARIABLES
  admitted,  \* number of requests admitted; they are numbered from 0
  finished,  \* number of requests finished: exactly the first `finished` ones
  stable,    \* the requests whose data is on stable storage
  told,      \* what the caller has been told of each request
  closed     \* the queue accepts and does nothing any more

qvars == <<admitted, finished, stable, told, closed>>

QRequests == 0 .. N - 1

QInit ==
  /\ admitted = 0
  /\ finished = 0
  /\ stable = {}
  /\ told = [n \in QRequests |-> "nothing"]
  /\ closed = FALSE

Admit ==
  /\ ~closed
  /\ admitted < N
  /\ admitted - finished < Capacity
  /\ admitted' = admitted + 1
  /\ UNCHANGED <<finished, stable, told, closed>>

\* The oldest unfinished request reaches stable storage, or an earlier one that
\* was given up with an error while it was still in flight.
Persist ==
  /\ \E n \in 0 .. finished :
       /\ n < admitted
       /\ stable' = stable \cup {n}
  /\ UNCHANGED <<admitted, finished, told, closed>>

\* The oldest unfinished request is finished, durably or with an error.
Finish ==
  /\ finished < admitted
  /\ finished' = finished + 1
  /\ UNCHANGED <<admitted, stable, told, closed>>

\* The caller collects the result of a finished request, once.
Tell(n, answer) ==
  /\ n < finished
  /\ told[n] = "nothing"
  /\ answer = "ok" => n \in stable
  /\ told' = [told EXCEPT ![n] = answer]
  /\ UNCHANGED <<admitted, finished, stable, closed>>

Close ==
  /\ ~closed
  /\ finished = admitted
  /\ closed' = TRUE
  /\ UNCHANGED <<admitted, finished, stable, told>>

QNext ==
  \/ Admit
  \/ Persist
  \/ Finish
  \/ \E n \in QRequests, answer \in {"ok", "error"} : Tell(n, answer)
  \/ Close

QSpec == QInit /\ [][QNext]_qvars
===============================================================================
