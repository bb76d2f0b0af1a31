------------------------------ MODULE WorkerRing ------------------------------
(***************************************************************************)
(* The "worker-ring" engine of prototypes/saving/io_bench.c: one producer  *)
(* hands durable writes to one worker thread over a ring of slots.  Both   *)
(* block on futex words with an eventcount protocol (register, snapshot    *)
(* the event, recheck, futex-wait on the snapshot).  Every shared atomic   *)
(* load, store, read-modify-write and system call is a step of its own.    *)
(*                                                                         *)
(* All the orderings the code uses make an interleaving semantics exact:   *)
(* the registration/event pairs are seq_cst, every other publication is    *)
(* a release/acquire pair, and the relaxed accesses are of words only the  *)
(* accessing thread writes or of a completion it still owns.  The worker's *)
(* local `tail` always equals `completed`, the producer's `head` always    *)
(* equals `submitted`, so neither has a variable of its own.               *)
(***************************************************************************)
EXTENDS Integers

CONSTANTS
  Slots,        \* WORKER_RING_SLOTS
  N,            \* bound: how many requests the caller submits in a run
  Completions,  \* the caller's completion records, each with its data buffer
  EventMod,     \* an event word wraps at EventMod (2^32 in the code)
  Gates,        \* the gates a run may start with: "open", or closed until the
                \* queue is "full" or the engine is "stopped" (the check's runs)
  ReapFirst     \* the caller destroys an engine that runs only when nothing is outstanding

ASSUME RingAssumption ==
  /\ Slots \in Nat \ {0}
  /\ N \in Nat
  /\ EventMod \in Nat \ {0}
  /\ Gates \subseteq {"open", "full", "stopped"}
  /\ ReapFirst \in BOOLEAN
  /\ -1 \notin Completions  \* the number None stands for no completion

VARIABLES
  submitted, completed, slots,                                \* the ring
  request_event, request_waiting,                             \* wakes the worker
  completion_event, completion_waiting,                       \* wakes the producer
  stopping,
  done, error,                                                \* of each completion
  file,                                                       \* durable content of each record
  gate, full,                                                 \* the check-only probe
  ppc, mode, pcomp, pseq,                                     \* the producer's locals
  owner, buffer, told,                                        \* the caller's data
  wpc, head, wseq, stop, slot, result                         \* the worker's locals

ring == <<submitted, slots, done>>
signals == <<request_event, completion_waiting, stopping, full>>
locals == <<mode, pcomp, pseq>>
caller == <<owner, buffer, told>>
producerVars == <<ring, signals, locals, caller>>

ioVars == <<file, slot, result, error>>
workerVars == <<completed, completion_event, request_waiting, head, wseq, stop, ioVars>>
vars == <<producerVars, workerVars, gate, ppc, wpc>>

None == -1
Requests == 0 .. N - 1
Bump(event) == (event + 1) % EventMod
SlotOf(n) == n % Slots
\* Mutant: one request too many is admitted.
IsFullLate == submitted - completed = Slots + 1
IsFull == submitted - completed = Slots
Outstanding == {c \in Completions : owner[c] # None}

Init ==
  /\ submitted = 0 /\ completed = 0
  /\ slots = [i \in 0 .. Slots - 1 |-> [req |-> None, comp |-> None]]
  /\ request_event = 0 /\ completion_event = 0
  /\ request_waiting = FALSE /\ completion_waiting = FALSE
  /\ stopping = FALSE
  /\ done = [c \in Completions |-> FALSE]
  /\ error = [c \in Completions |-> "ok"]
  /\ file = [n \in Requests |-> None]
  /\ gate \in Gates /\ full = FALSE
  /\ ppc = "client" /\ mode = "once" /\ pcomp = None /\ pseq = 0
  /\ owner = [c \in Completions |-> None]
  /\ buffer = [c \in Completions |-> None]
  /\ told = [n \in Requests |-> "nothing"]
  /\ wpc = "gate" /\ head = 0 /\ wseq = 0 /\ stop = FALSE
  /\ slot = [req |-> None, comp |-> None] /\ result = "ok"

-------------------------------------------------------------------------------
(* The caller between two engine calls: queue_check, transaction and main. *)
(* A caller behind a gate waits only once the gate is open; the one of the *)
(* drain check at most fills the ring, then destroys the engine with its   *)
(* requests outstanding.                                                   *)

\* Fill a free buffer and call worker_ring_try_submit ("once") or
\* worker_ring_submit ("first").
CallSubmit(c, m) ==
  /\ ppc = "client" /\ ppc' = "try"
  /\ owner[c] = None
  /\ submitted < N
  /\ gate = "stopped" => submitted < Slots
  /\ buffer' = [buffer EXCEPT ![c] = submitted]
  /\ pcomp' = c
  /\ mode' = m
  /\ UNCHANGED <<ring, signals, pseq, owner, told>>

\* Call worker_ring_wait, in any order of the outstanding completions.
CallWait(c) ==
  /\ ppc = "client" /\ ppc' = "test"
  /\ gate = "open"
  /\ owner[c] # None
  /\ pcomp' = c
  /\ mode' = "poll"
  /\ UNCHANGED <<ring, signals, pseq, caller>>

\* Call engine_destroy, which publishes stopping first.
CallDestroy ==
  /\ ppc = "client" /\ ppc' = "stop_bump"
  /\ \/ gate = "open" /\ (ReapFirst => Outstanding = {})
     \/ gate = "stopped"
  /\ stopping' = TRUE
  /\ UNCHANGED <<ring, request_event, completion_waiting, full, locals, caller>>

-------------------------------------------------------------------------------
(* worker_ring_try_submit.  mode says who called it: the caller itself     *)
(* ("once"), worker_ring_submit before ("first") or inside its wait        *)
(* loop ("loop").                                                          *)

TryFull ==
  /\ ppc = "try"
  /\ IsFull
  /\ ppc' = CASE mode = "once"  -> "client"
              [] mode = "first" -> "register"
              [] mode = "loop"  -> "sleep"
  /\ full' = (full \/ mode = "loop")
  /\ UNCHANGED <<ring, request_event, completion_waiting, stopping, locals, caller>>

TryRoom ==
  /\ ppc = "try" /\ ppc' = "fill"
  /\ ~IsFull
  /\ UNCHANGED producerVars

\* Mutant: the completion keeps the done flag of its previous request.
FillSlotKeepsDone ==
  /\ ppc = "fill" /\ ppc' = "publish"
  /\ slots' = [slots EXCEPT ![SlotOf(submitted)] = [req |-> submitted, comp |-> pcomp]]
  /\ owner' = [owner EXCEPT ![pcomp] = submitted]
  /\ UNCHANGED <<submitted, done, signals, locals, buffer, told>>

FillSlot ==
  /\ ppc = "fill" /\ ppc' = "publish"
  /\ done' = [done EXCEPT ![pcomp] = FALSE]
  /\ slots' = [slots EXCEPT ![SlotOf(submitted)] = [req |-> submitted, comp |-> pcomp]]
  /\ owner' = [owner EXCEPT ![pcomp] = submitted]
  /\ UNCHANGED <<submitted, signals, locals, buffer, told>>

Publish ==
  /\ ppc = "publish" /\ ppc' = "bump"
  /\ submitted' = submitted + 1
  /\ UNCHANGED <<slots, done, signals, locals, caller>>

BumpRequest ==
  /\ ppc = "bump" /\ ppc' = "check"
  /\ request_event' = Bump(request_event)
  /\ UNCHANGED <<ring, completion_waiting, stopping, full, locals, caller>>

\* worker_signal: the wake-up system call is made only for a registered waiter.
AfterSubmit == IF mode = "loop" THEN "unregister" ELSE "client"
CheckRequestWaiting ==
  /\ ppc = "check"
  /\ ppc' = IF request_waiting THEN "wake" ELSE AfterSubmit
  /\ UNCHANGED producerVars

-------------------------------------------------------------------------------
(* The wait loops of worker_ring_submit and worker_ring_wait.              *)

\* worker_ring_wait's first test of done ("poll") and those of its loop ("wait").
TestDone ==
  /\ ppc = "test"
  /\ ppc' = CASE done[pcomp] /\ mode = "poll" -> "reap"
              [] done[pcomp] /\ mode = "wait" -> "unregister"
              [] ~done[pcomp] /\ mode = "poll" -> "register"
              [] ~done[pcomp] /\ mode = "wait" -> "sleep"
  /\ UNCHANGED producerVars

Register ==
  /\ ppc = "register" /\ ppc' = "snapshot"
  /\ completion_waiting' = TRUE
  /\ mode' = IF mode = "first" THEN "loop" ELSE "wait"
  /\ UNCHANGED <<ring, request_event, stopping, full, pcomp, pseq, caller>>

Snapshot ==
  /\ ppc = "snapshot"
  /\ pseq' = completion_event
  /\ ppc' = IF mode = "loop" THEN "try" ELSE "test"
  /\ UNCHANGED <<ring, signals, mode, pcomp, caller>>

\* FUTEX_WAIT compares and sleeps atomically; a changed word is EAGAIN.
FutexWait ==
  /\ ppc = "sleep"
  /\ ppc' = IF completion_event = pseq THEN "asleep" ELSE "snapshot"
  /\ UNCHANGED producerVars

\* EINTR or a spurious return: recheck.
SpuriousReturn ==
  /\ ppc = "asleep" /\ ppc' = "snapshot"
  /\ UNCHANGED producerVars

Unregister ==
  /\ ppc = "unregister"
  /\ completion_waiting' = FALSE
  /\ ppc' = IF mode = "loop" THEN "client" ELSE "reap"
  /\ UNCHANGED <<ring, request_event, stopping, full, locals, caller>>

\* worker_ring_wait returns the error; the caller may reuse both objects and
\* poisons the buffer.
Reap ==
  /\ ppc = "reap" /\ ppc' = "client"
  /\ told' = [told EXCEPT ![owner[pcomp]] = error[pcomp]]
  /\ owner' = [owner EXCEPT ![pcomp] = None]
  /\ buffer' = [buffer EXCEPT ![pcomp] = None]
  /\ UNCHANGED <<ring, signals, locals>>

-------------------------------------------------------------------------------
(* The rest of engine_destroy. *)

\* Mutant: destroy wakes the worker without changing the event.
StopBumpSilent ==
  /\ ppc = "stop_bump" /\ ppc' = "stop_wake"
  /\ UNCHANGED producerVars

StopBump ==
  /\ ppc = "stop_bump" /\ ppc' = "stop_wake"
  /\ request_event' = Bump(request_event)
  /\ UNCHANGED <<ring, completion_waiting, stopping, full, locals, caller>>

Join ==
  /\ ppc = "join" /\ ppc' = "joined"
  /\ wpc = "exited"
  /\ UNCHANGED producerVars

\* FUTEX_WAKE by the producer: worker_signal's, or engine_destroy's unconditional one.
WakeWorker ==
  /\ ppc \in {"wake", "stop_wake"}
  /\ ppc' = IF ppc = "wake" THEN AfterSubmit ELSE "join"
  /\ wpc' = IF wpc = "asleep" THEN "unregister" ELSE wpc
  /\ UNCHANGED <<producerVars, workerVars, gate>>

\* Everything the producer does without having a choice.
ProducerStep ==
  /\ \/ TryFull \/ TryRoom \/ FillSlot \/ Publish \/ BumpRequest \/ CheckRequestWaiting
     \/ TestDone \/ Register \/ Snapshot \/ FutexWait \/ Unregister \/ Reap
     \/ StopBump \/ Join
  /\ UNCHANGED <<workerVars, gate, wpc>>

Client ==
  /\ \/ \E c \in Completions : \/ \E m \in {"once", "first"} : CallSubmit(c, m)
                               \/ CallWait(c)
     \/ CallDestroy
  /\ UNCHANGED <<workerVars, gate, wpc>>

-------------------------------------------------------------------------------
(* worker_ring_main. *)

PassGate ==
  /\ wpc = "gate" /\ wpc' = "load"
  /\ gate = "open"
  /\ UNCHANGED workerVars

\* Mutant: the loop runs until it is stopped, whatever is in the queue.
LoadHeadUnlessStopping ==
  /\ wpc = "load"
  /\ head' = submitted
  /\ wpc' = IF stopping THEN "exited" ELSE IF completed = submitted THEN "announce" ELSE "take"
  /\ UNCHANGED <<completed, completion_event, request_waiting, wseq, stop, ioVars>>

LoadHead ==
  /\ wpc = "load"
  /\ head' = submitted
  /\ wpc' = IF completed = submitted THEN "announce" ELSE "take"
  /\ UNCHANGED <<completed, completion_event, request_waiting, wseq, stop, ioVars>>

Announce ==
  /\ wpc = "announce" /\ wpc' = "snapshot"
  /\ request_waiting' = TRUE
  /\ UNCHANGED <<completed, completion_event, head, wseq, stop, ioVars>>

SnapshotRequest ==
  /\ wpc = "snapshot" /\ wpc' = "recheck"
  /\ wseq' = request_event
  /\ UNCHANGED <<completed, completion_event, request_waiting, head, stop, ioVars>>

\* Mutant: no second load of submitted after registering.
RecheckHeadStale ==
  /\ wpc = "recheck" /\ wpc' = "load_stop"
  /\ UNCHANGED workerVars

RecheckHead ==
  /\ wpc = "recheck" /\ wpc' = "load_stop"
  /\ head' = submitted
  /\ UNCHANGED <<completed, completion_event, request_waiting, wseq, stop, ioVars>>

LoadStopping ==
  /\ wpc = "load_stop"
  /\ stop' = stopping
  /\ wpc' = IF head = completed /\ ~stopping THEN "sleep" ELSE "unregister"
  /\ UNCHANGED <<completed, completion_event, request_waiting, head, wseq, ioVars>>

WorkerFutexWait ==
  /\ wpc = "sleep"
  /\ wpc' = IF request_event = wseq THEN "asleep" ELSE "unregister"
  /\ UNCHANGED workerVars

WorkerSpuriousReturn ==
  /\ wpc = "asleep" /\ wpc' = "unregister"
  /\ UNCHANGED workerVars

UnregisterWorker ==
  /\ wpc = "unregister"
  /\ request_waiting' = FALSE
  /\ wpc' = IF head = completed /\ stop THEN "exited" ELSE "load"
  /\ UNCHANGED <<completed, completion_event, head, wseq, stop, ioVars>>

Take ==
  /\ wpc = "take" /\ wpc' = "io"
  /\ slot' = slots[SlotOf(completed)]
  /\ UNCHANGED <<completed, completion_event, request_waiting, head, wseq, stop, file,
                 result, error>>

\* Mutant: success is reported although nothing was written.
PerformIOUnchecked ==
  /\ wpc = "io" /\ wpc' = "report"
  /\ result' \in {"ok", "error"}
  /\ \/ file' = [file EXCEPT ![slot.req] = buffer[slot.comp]]
     \/ file' = file
  /\ UNCHANGED <<completed, completion_event, request_waiting, head, wseq, stop, slot, error>>

\* reserve_request and write_sync: durable, or an error after which the data
\* may have reached the file anyway.
PerformIO ==
  /\ wpc = "io" /\ wpc' = "report"
  /\ result' \in {"ok", "error"}
  /\ \/ file' = [file EXCEPT ![slot.req] = buffer[slot.comp]]
     \/ result' = "error" /\ file' = file
  /\ UNCHANGED <<completed, completion_event, request_waiting, head, wseq, stop, slot, error>>

Report ==
  /\ wpc = "report" /\ wpc' = "finish"
  /\ error' = [error EXCEPT ![slot.comp] = result]
  /\ UNCHANGED <<completed, completion_event, request_waiting, head, wseq, stop, file,
                 slot, result>>

\* The completion is published before its slot is released.
SetDone ==
  /\ wpc = "finish" /\ wpc' = "release"
  /\ done' = [done EXCEPT ![slot.comp] = TRUE]
  /\ UNCHANGED <<submitted, slots, signals, locals, caller, workerVars, gate, ppc>>

Release ==
  /\ wpc = "release" /\ wpc' = "bump"
  /\ completed' = completed + 1
  /\ UNCHANGED <<completion_event, request_waiting, head, wseq, stop, ioVars>>

BumpCompletion ==
  /\ wpc = "bump" /\ wpc' = "check"
  /\ completion_event' = Bump(completion_event)
  /\ UNCHANGED <<completed, request_waiting, head, wseq, stop, ioVars>>

\* Mutant: a registered producer is not woken.
CheckCompletionWaitingNever ==
  /\ wpc = "check" /\ wpc' = "load"
  /\ UNCHANGED workerVars

CheckCompletionWaiting ==
  /\ wpc = "check"
  /\ wpc' = IF completion_waiting THEN "wake" ELSE "load"
  /\ UNCHANGED workerVars

WakeProducer ==
  /\ wpc = "wake" /\ wpc' = "load"
  /\ ppc' = IF ppc = "asleep" THEN "snapshot" ELSE ppc
  /\ UNCHANGED <<producerVars, workerVars, gate>>

WorkerStep ==
  \/ /\ \/ PassGate \/ LoadHead \/ Announce \/ SnapshotRequest \/ RecheckHead
        \/ LoadStopping \/ WorkerFutexWait \/ UnregisterWorker
        \/ Take \/ PerformIO \/ Report \/ Release \/ BumpCompletion
        \/ CheckCompletionWaiting
     /\ UNCHANGED <<producerVars, gate, ppc>>
  \/ SetDone
  \/ WakeProducer

\* release_full_queue and release_stopped_queue: the check's releaser threads.
OpenGate ==
  /\ \/ gate = "full" /\ full
     \/ gate = "stopped" /\ stopping
  /\ gate' = "open"
  /\ UNCHANGED <<producerVars, workerVars, ppc, wpc>>

Interrupts ==
  \/ SpuriousReturn /\ UNCHANGED <<workerVars, gate, wpc>>
  \/ WorkerSpuriousReturn /\ UNCHANGED <<producerVars, gate, ppc>>

\* The engine is destroyed; nothing runs any more.
Finished ==
  /\ ppc = "joined"
  /\ UNCHANGED vars

Next ==
  \/ Client
  \/ ProducerStep
  \/ WakeWorker
  \/ WorkerStep
  \/ OpenGate
  \/ Interrupts
  \/ Finished

Spec == Init /\ [][Next]_vars

\* Both threads are scheduled; the caller owes no call, interrupts owe nothing.
FairSpec ==
  /\ Spec
  /\ WF_vars(ProducerStep)
  /\ WF_vars(WakeWorker)
  /\ WF_vars(WorkerStep)
  /\ WF_vars(OpenGate)

-------------------------------------------------------------------------------
(* Properties. *)

ProducerPC == {"client", "try", "fill", "publish", "bump", "check", "wake", "test",
               "register", "snapshot", "sleep", "asleep", "unregister", "reap",
               "stop_bump", "stop_wake", "join", "joined"}
WorkerPC == {"gate", "load", "announce", "snapshot", "recheck", "load_stop", "sleep",
             "asleep", "unregister", "take", "io", "report", "finish", "release",
             "bump", "check", "wake", "exited"}
SlotContent == [req : Requests \cup {None}, comp : Completions \cup {None}]

\* Every variable has its type: the counters never pass what was submitted,
\* the events stay below their modulus, each local names a known object.
TypeOK ==
  /\ submitted \in 0 .. N /\ completed \in 0 .. N
  /\ slots \in [0 .. Slots - 1 -> SlotContent]
  /\ request_event \in 0 .. EventMod - 1 /\ completion_event \in 0 .. EventMod - 1
  /\ request_waiting \in BOOLEAN /\ completion_waiting \in BOOLEAN
  /\ stopping \in BOOLEAN /\ gate \in {"open", "full", "stopped"} /\ full \in BOOLEAN
  /\ done \in [Completions -> BOOLEAN]
  /\ error \in [Completions -> {"ok", "error"}]
  /\ file \in [Requests -> Requests \cup {None}]
  /\ ppc \in ProducerPC
  /\ mode \in {"once", "first", "loop", "poll", "wait"}
  /\ pcomp \in Completions \cup {None}
  /\ pseq \in 0 .. EventMod - 1
  /\ owner \in [Completions -> Requests \cup {None}]
  /\ buffer \in [Completions -> Requests \cup {None}]
  /\ told \in [Requests -> {"nothing", "ok", "error"}]
  /\ wpc \in WorkerPC
  /\ head \in 0 .. N
  /\ wseq \in 0 .. EventMod - 1
  /\ stop \in BOOLEAN
  /\ slot \in SlotContent
  /\ result \in {"ok", "error"}

\* The producer never writes the ring slot the worker is about to copy: the
\* plain accesses to slots[] in try_submit and worker_ring_main never race.
NoSlotRace ==
  ppc = "fill" /\ wpc = "take" => SlotOf(submitted) # SlotOf(completed)

\* While the worker uses a request its completion is the caller's live
\* completion of that very request, not yet done, and its buffer still holds
\* that request's data: "callers retain both objects until done".
RequestIsLive ==
  wpc \in {"io", "report", "finish"} =>
    /\ owner[slot.comp] = slot.req
    /\ buffer[slot.comp] = slot.req
    /\ slot.req = completed
    /\ ~done[slot.comp]

\* A slot is released only after its request is done: an outstanding request
\* the ring has let go of has a published result.
ReleasedIsDone ==
  \A c \in Outstanding : owner[c] < completed => done[c]

\* What the caller was told is durable is durable, every record of the file is
\* the record of its own offset, and slot reuse and out-of-order reaping never
\* hand the result of one request to another.
AckedIsDurable ==
  \A n \in Requests :
    /\ told[n] = "ok" => file[n] = n
    /\ file[n] \in {None, n}

\* "All admitted work is drained first": a worker that has exited leaves no
\* admitted request unprocessed.
DrainedAtExit == wpc = "exited" => completed = submitted

\* No wake-up is lost: a blocked submission or wait returns to the caller.
CallReturns ==
  (ppc \notin {"client", "join", "joined"}) ~> (ppc \in {"client", "join"})

\* Every admitted request is performed once the worker runs: it never sleeps
\* on work.
AdmittedCompletes ==
  \A n \in Requests : (submitted > n /\ gate = "open") ~> completed > n

\* Shutdown terminates: the stopping store always reaches a sleeping worker.
DestroyReturns == stopping ~> ppc = "joined"

\* The engine implements the abstract durable queue.  A request is finished at
\* the moment its done flag is set, one step before its slot is released.
Queue == INSTANCE DurableQueue WITH
  Capacity <- Slots,
  admitted <- submitted,
  finished <- IF wpc = "release" THEN completed + 1 ELSE completed,
  stable <- {n \in Requests : file[n] = n},
  closed <- ppc = "joined"
ImplementsDurableQueue == Queue!QSpec
===============================================================================
