------------------------------- MODULE Engines --------------------------------
(***************************************************************************)
(* One process of prototypes/saving/io_bench.c: main picks an engine for   *)
(* the whole run, transaction and engine_destroy branch on it.  The engine *)
(* with a worker thread is MutexWorker, those that run in the calling      *)
(* thread are DurableWrite; the ring engine has a client of its own, in    *)
(* WorkerRing.  The caller's transactions and what it is told of them are  *)
(* the same whatever the engine.                                           *)
(***************************************************************************)
EXTENDS MutexWorker

CONSTANTS
  Size,    \* bytes of a request
  Chunks   \* the preallocation chunk sizes to try; 0 is no growth

ASSUME EngineAssumption == Size \in Nat \ {0} /\ Chunks \subseteq Nat

VARIABLES
  engine,                                     \* engine.kind: with a thread or without
  kind, chunk, pc, dnext, bytes, state, res,  \* of DurableWrite, under names of its own
  wait_error, status, dtold, cached, disk, reserved

directVars == <<kind, chunk, pc, dnext, bytes, state, res, wait_error, status, dtold,
                cached, disk, reserved>>
engineVars == <<engine, vars, directVars>>

Direct == INSTANCE DurableWrite WITH next <- dnext, done <- bytes, told <- dtold

EInit ==
  /\ engine \in {"worker", "direct"}
  /\ Init
  /\ Direct!Init

WorkerEngine(A) == engine = "worker" /\ A /\ UNCHANGED <<engine, directVars>>
DirectEngine(A) == engine = "direct" /\ A /\ UNCHANGED <<engine, vars>>

ENext == WorkerEngine(Next) \/ DirectEngine(Direct!Next)

\* Both threads run and the mutex is fair to each; in the calling thread, the
\* process runs and the kernel does not interrupt an operation for ever.
ESpec ==
  /\ EInit /\ [][ENext]_engineVars
  /\ SF_engineVars(WorkerEngine(CallerStep))
  /\ SF_engineVars(WorkerEngine(WorkerStep))
  /\ WF_engineVars(DirectEngine(Direct!CallerStep))
  /\ SF_engineVars(DirectEngine(Direct!Progress))

-------------------------------------------------------------------------------
(* Properties, beside those of MutexWorker. *)

\* Without a thread too, operations never overlap, and sync and aio let go of the
\* request's buffer before they return.
NothingLeftInFlight == Direct!NothingInFlight

\* Whichever engine runs it, every transaction returns: no wake-up between the two
\* threads is lost, and no retry in the calling thread goes on for ever.
EveryTransactionReturns == TransactionReturns /\ Direct!TransactionReturns

\* The engines of the calling thread are the same durable queue of capacity one as
\* the worker: 0 is returned only for a request whose every byte is on stable
\* storage, whatever was shortened, interrupted or canceled on the way ("Never
\* acknowledge a short write or a failed flush").
DirectIsDurableQueue == Direct!ImplementsDurableQueue
===============================================================================
