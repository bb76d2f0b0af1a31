------------------------------ MODULE MutexWorker ------------------------------
(***************************************************************************)
(* The "worker" engine of prototypes/saving/io_bench.c: transaction hands  *)
(* one request at a time to worker_main under a mutex, with a condition    *)
(* variable in each direction.  Acquiring the mutex is a step, the code    *)
(* run while holding it up to the next release or wait is another.         *)
(***************************************************************************)
EXTENDS Integers

CONSTANT N  \* bound: how many transactions the caller makes

ASSUME HandoffAssumption == N \in Nat

VARIABLES
  mutex,                                   \* who holds it, or "free"
  pending, done, stop, request,            \* shared, guarded by the mutex
  worker_error,
  file,                                    \* the durably written records
  cpc, next, told,                         \* the caller: next is its transaction
  wpc, work, result                        \* the worker's locals

shared == <<pending, done, stop, request, worker_error>>
callerVars == <<cpc, next, told>>
workerVars == <<wpc, work, result, file>>
vars == <<mutex, shared, callerVars, workerVars>>

Requests == 0 .. N - 1
None == -1

Init ==
  /\ mutex = "free"
  /\ pending = FALSE /\ done = FALSE /\ stop = FALSE
  /\ request = None /\ worker_error = "ok"
  /\ file = {}
  /\ cpc = "client" /\ next = 0 /\ told = [n \in Requests |-> "nothing"]
  /\ wpc = "lock" /\ work = None /\ result = "ok"

-------------------------------------------------------------------------------
(* The caller: the ENGINE_WORKER branch of transaction, and engine_destroy. *)

CallTransaction ==
  /\ cpc = "client" /\ cpc' = "lock_submit"
  /\ next < N
  /\ UNCHANGED <<mutex, shared, next, told, workerVars>>

\* The first clock reading fails: the transaction returns without a request.
StartClockFails ==
  /\ cpc = "client" /\ cpc' = "failed"
  /\ next < N
  /\ UNCHANGED <<mutex, shared, next, told, workerVars>>

\* After a failed transaction main goes to cleanup; otherwise it may go on.
CallDestroy ==
  /\ cpc \in {"client", "failed"} /\ cpc' = "lock_stop"
  /\ UNCHANGED <<mutex, shared, next, told, workerVars>>

CallerLocks(from, to) ==
  /\ cpc = from /\ cpc' = to
  /\ mutex = "free" /\ mutex' = "caller"
  /\ UNCHANGED <<shared, next, told, workerVars>>

CallerUnlocks(from, to) ==
  /\ cpc = from /\ cpc' = to
  /\ mutex' = "free"
  /\ UNCHANGED <<shared, next, told, workerVars>>

\* pthread_cond_signal on request_cv: the sleeper returns to reacquire the mutex.
SignalWorker == wpc' = IF wpc = "asleep" THEN "lock" ELSE wpc

Submit ==
  /\ cpc = "submit" /\ cpc' = "submitted"
  /\ request' = next
  /\ done' = FALSE
  /\ pending' = TRUE
  /\ SignalWorker
  /\ UNCHANGED <<mutex, stop, worker_error, next, told, work, result, file>>

\* pthread_cond_wait on done_cv: release the mutex and sleep in one step.
AwaitDone ==
  /\ cpc = "check" /\ cpc' = "asleep"
  /\ ~done
  /\ mutex' = "free"
  /\ UNCHANGED <<shared, next, told, workerVars>>

\* The result is read under the mutex; a failed clock reading fails the
\* transaction even though its data is durable.
Collect ==
  /\ cpc = "check"
  /\ done
  /\ mutex' = "free"
  /\ \E timing \in {"ok", "error"} :
       LET answer == IF worker_error = "ok" THEN timing ELSE worker_error
       IN /\ told' = [told EXCEPT ![next] = answer]
          /\ cpc' = IF answer = "ok" THEN "client" ELSE "failed"
  /\ next' = next + 1
  /\ UNCHANGED <<shared, workerVars>>

\* Mutant: stop is set without a signal.
StopSilent ==
  /\ cpc = "stop" /\ cpc' = "stopped"
  /\ stop' = TRUE
  /\ UNCHANGED <<mutex, pending, done, request, worker_error, next, told, workerVars>>

Stop ==
  /\ cpc = "stop" /\ cpc' = "stopped"
  /\ stop' = TRUE
  /\ SignalWorker
  /\ UNCHANGED <<mutex, pending, done, request, worker_error, next, told, work, result, file>>

Join ==
  /\ cpc = "join" /\ cpc' = "joined"
  /\ wpc = "exited"
  /\ UNCHANGED <<mutex, shared, next, told, workerVars>>

CallerSpurious ==
  /\ cpc = "asleep" /\ cpc' = "lock_wait"
  /\ UNCHANGED <<mutex, shared, next, told, workerVars>>

CallerStep ==
  \/ CallerLocks("lock_submit", "submit")
  \/ Submit
  \/ CallerUnlocks("submitted", "lock_wait")
  \/ CallerLocks("lock_wait", "check")
  \/ AwaitDone
  \/ Collect
  \/ CallerLocks("lock_stop", "stop")
  \/ Stop
  \/ CallerUnlocks("stopped", "join")
  \/ Join

-------------------------------------------------------------------------------
(* worker_main. *)

WorkerLocks(from, to) ==
  /\ wpc = from /\ wpc' = to
  /\ mutex = "free" /\ mutex' = "worker"
  /\ UNCHANGED <<shared, callerVars, work, result, file>>

\* pthread_cond_wait on request_cv.
AwaitRequest ==
  /\ wpc = "check" /\ wpc' = "asleep"
  /\ ~pending /\ ~stop
  /\ mutex' = "free"
  /\ UNCHANGED <<shared, callerVars, work, result, file>>

\* stop wins over a pending request.
Exit ==
  /\ wpc = "check" /\ wpc' = "exited"
  /\ stop
  /\ mutex' = "free"
  /\ UNCHANGED <<shared, callerVars, work, result, file>>

\* Mutant: the request stays pending and is taken again.
TakeKeepsPending ==
  /\ wpc = "check" /\ wpc' = "io"
  /\ pending /\ ~stop
  /\ work' = request
  /\ mutex' = "free"
  /\ UNCHANGED <<pending, done, stop, request, worker_error, callerVars, result, file>>

TakeRequest ==
  /\ wpc = "check" /\ wpc' = "io"
  /\ pending /\ ~stop
  /\ work' = request
  /\ pending' = FALSE
  /\ mutex' = "free"
  /\ UNCHANGED <<done, stop, request, worker_error, callerVars, result, file>>

\* reserve_request and write_sync, without the mutex.
\* Mutant: a failed write or flush is reported as success.
PerformIOUnchecked ==
  /\ wpc = "io" /\ wpc' = "relock"
  /\ result' = "ok"
  /\ file' \in {file, file \cup {work}}
  /\ UNCHANGED <<mutex, shared, callerVars, work>>

PerformIO ==
  /\ wpc = "io" /\ wpc' = "relock"
  /\ \/ result' = "ok" /\ file' = file \cup {work}
     \/ result' = "error" /\ file' \in {file, file \cup {work}}
  /\ UNCHANGED <<mutex, shared, callerVars, work>>

\* The worker keeps the mutex and goes straight to its next test.
\* Mutant: done is set without a signal.
FinishSilent ==
  /\ wpc = "finish" /\ wpc' = "check"
  /\ worker_error' = result
  /\ done' = TRUE
  /\ UNCHANGED <<mutex, pending, stop, request, callerVars, work, result, file>>

FinishRequest ==
  /\ wpc = "finish" /\ wpc' = "check"
  /\ worker_error' = result
  /\ done' = TRUE
  /\ cpc' = IF cpc = "asleep" THEN "lock_wait" ELSE cpc
  /\ UNCHANGED <<mutex, pending, stop, request, next, told, work, result, file>>

WorkerSpurious ==
  /\ wpc = "asleep" /\ wpc' = "lock"
  /\ UNCHANGED <<mutex, shared, callerVars, work, result, file>>

WorkerStep ==
  \/ WorkerLocks("lock", "check")
  \/ AwaitRequest
  \/ Exit
  \/ TakeRequest
  \/ PerformIO
  \/ WorkerLocks("relock", "finish")
  \/ FinishRequest

Finished ==
  /\ cpc = "joined"
  /\ UNCHANGED vars

Next ==
  \/ CallTransaction \/ StartClockFails \/ CallDestroy \/ CallerStep \/ CallerSpurious
  \/ WorkerStep \/ WorkerSpurious
  \/ Finished

Spec == Init /\ [][Next]_vars

-------------------------------------------------------------------------------
(* Properties. *)

Waiting == cpc \in {"submitted", "lock_wait", "check", "asleep"}

\* Every variable keeps its type, and the mutex is held exactly where the
\* program counters say so.
TypeOK ==
  /\ mutex \in {"free", "caller", "worker"}
  /\ pending \in BOOLEAN /\ done \in BOOLEAN /\ stop \in BOOLEAN
  /\ request \in Requests \cup {None} /\ work \in Requests \cup {None}
  /\ worker_error \in {"ok", "error"} /\ result \in {"ok", "error"}
  /\ file \subseteq Requests
  /\ next \in 0 .. N
  /\ told \in [Requests -> {"nothing", "ok", "error"}]
  /\ cpc \in {"client", "lock_submit", "submit", "submitted", "lock_wait", "check",
               "asleep", "failed", "lock_stop", "stop", "stopped", "join", "joined"}
  /\ wpc \in {"lock", "check", "asleep", "io", "relock", "finish", "exited"}
  /\ mutex = "caller" <=> cpc \in {"submit", "submitted", "check", "stop", "stopped"}
  /\ mutex = "worker" <=> wpc \in {"check", "finish"}

\* transaction returns 0 only when the request of that very call is on disk,
\* although done and worker_error are fields shared by all calls.
AckedIsDurable == \A n \in Requests : told[n] = "ok" => n \in file

\* While the worker uses the request's data the caller is still inside the
\* transaction of that request, so the caller's buffer is alive; and nothing
\* is left pending when it is not.
WorkIsAwaited ==
  /\ wpc \in {"io", "relock", "finish"} => Waiting /\ work = next
  /\ pending => Waiting /\ request = next

\* Every transaction returns: no signal is lost between the two waits.
TransactionReturns == cpc = "lock_submit" ~> cpc \in {"client", "failed"}

\* engine_destroy returns: the worker always learns of stop.
DestroyReturns == cpc = "lock_stop" ~> cpc = "joined"

\* The engine is a durable queue of capacity one: a request is admitted when it
\* is handed over, finished when done is set, told when its result is read.
Abstract == INSTANCE DurableQueue WITH
  Capacity <- 1,
  admitted <- IF Waiting THEN next + 1 ELSE next,
  finished <- IF Waiting /\ done THEN next + 1 ELSE next,
  stable <- file,
  closed <- wpc = "exited"

ImplementsDurableQueue == Abstract!QSpec
===============================================================================
