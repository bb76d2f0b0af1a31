----------------------------- MODULE DurableWrite -----------------------------
(***************************************************************************)
(* The engines of prototypes/saving/io_bench.c that run a transaction in   *)
(* the calling thread: sync (pwrite, fdatasync), aio, uring, and           *)
(* uring-linked (a write and a flush submitted as one linked pair).  The   *)
(* kernel may interrupt, shorten or fail every operation.  A call that     *)
(* fails with EINTR before it has any effect, and is repeated at once, is  *)
(* a stuttering step.                                                      *)
(***************************************************************************)
EXTENDS Integers

CONSTANTS
  N,       \* bound: number of transactions
  Size,    \* bytes of a request
  Chunks   \* the preallocation chunk sizes to try; 0 is no growth

VARIABLES
  kind, chunk,       \* the engine and preallocation mode of the process
  pc, next, done,    \* the caller: its transaction and the bytes written of it
  state, res,        \* of each operation: its progress and its result
  wait_error,        \* aio_wait: a hard failure of aio_suspend
  status,            \* what the transaction is about to return
  told,              \* what each transaction returned
  cached, disk,      \* bytes in the file, bytes on stable storage
  reserved           \* reserved_bytes

config == <<kind, chunk>>
ops == <<state, res>>
storage == <<cached, disk, reserved>>
vars == <<config, pc, next, done, ops, wait_error, status, told, storage>>

Kinds == {"sync", "aio", "uring", "linked"}
Requests == 0 .. N - 1
Ops == {"write", "flush"}
EINTR == -4
EIO == -5
ECANCELED == -125
Results == 0 .. Size \cup {EINTR, EIO, ECANCELED}

Span(n, from, len) == n * Size + from .. n * Size + from + len - 1
Bytes(n) == Span(n, 0, Size)

Init ==
  /\ kind \in Kinds /\ chunk \in Chunks
  /\ pc = "client" /\ next = 0 /\ done = 0
  /\ state = [o \in Ops |-> "idle"] /\ res = [o \in Ops |-> 0]
  /\ wait_error = FALSE /\ status = "ok"
  /\ told = [n \in Requests |-> "nothing"]
  /\ cached = {} /\ disk = {}
  /\ reserved = chunk

-------------------------------------------------------------------------------
(* transaction and reserve_request. *)

Begin ==
  /\ pc = "client" /\ pc' = "reserve"
  /\ next < N
  /\ UNCHANGED <<config, next, done, ops, wait_error, status, told, storage>>

StartClockFails ==
  /\ pc = "client" /\ pc' = "failed"
  /\ next < N
  /\ UNCHANGED <<config, next, done, ops, wait_error, status, told, storage>>

Fails == pc' = "returning" /\ status' = "error"

Grown(end) == ((end + chunk - 1) \div chunk) * chunk

\* A failed clock reading fails the reservation even if the space was granted.
Reserve ==
  LET end == (next + 1) * Size
      grow == chunk > 0 /\ end > reserved
  IN
  /\ pc = "reserve"
  /\ \/ /\ reserved' = IF grow THEN Grown(end) ELSE reserved
        /\ pc' = IF kind = "linked" THEN "pair" ELSE "write"
        /\ UNCHANGED status
     \/ /\ grow
        /\ Fails
        /\ reserved' \in {reserved, Grown(end)}
  /\ done' = 0
  /\ UNCHANGED <<config, next, ops, wait_error, told, cached, disk>>

\* Any clock reading of the transaction may fail, even after the flush.
Return ==
  /\ pc = "returning"
  /\ \E clock \in {"ok", "error"} :
       LET answer == IF status = "ok" THEN clock ELSE status
       IN /\ told' = [told EXCEPT ![next] = answer]
          /\ IF answer = "ok" THEN pc' = "client" /\ next' = next + 1
                            ELSE pc' = "failed" /\ UNCHANGED next
  /\ status' = "ok"
  /\ UNCHANGED <<config, done, ops, wait_error, storage>>

\* main goes to cleanup, after a failure or when it is done.
Close ==
  /\ pc \in {"client", "failed"} /\ pc' = "closed"
  /\ UNCHANGED <<config, next, done, ops, wait_error, status, told, storage>>

-------------------------------------------------------------------------------
(* The kernel. *)

\* A written prefix enters the page cache.  A linked flush starts once the whole
\* write is done; a failed write cancels it, a short one may.
CompleteWrite(k) ==
  /\ state["write"] = "flying"
  /\ res' = [res EXCEPT !["write"] = k]
  /\ cached' = IF k > 0 THEN cached \cup Span(next, done, k) ELSE cached
  /\ \E flush \in IF state["flush"] # "linked" THEN {state["flush"]}
                  ELSE IF k = Size THEN {"flying"}
                  ELSE IF k < 0 THEN {"canceled"} ELSE {"flying", "canceled"} :
       state' = [state EXCEPT !["write"] = "complete", !["flush"] = flush]
  /\ UNCHANGED <<config, pc, next, done, wait_error, status, told, disk, reserved>>

\* A failed flush may have persisted everything all the same.
CompleteFlush(k) ==
  /\ state["flush"] = "flying"
  /\ state' = [state EXCEPT !["flush"] = "complete"]
  /\ res' = [res EXCEPT !["flush"] = k]
  /\ disk' \in IF k = 0 THEN {cached} ELSE {disk, cached}
  /\ UNCHANGED <<config, pc, next, done, wait_error, status, told, cached, reserved>>

CancelFlush ==
  /\ state["flush"] = "canceled"
  /\ state' = [state EXCEPT !["flush"] = "complete"]
  /\ res' = [res EXCEPT !["flush"] = ECANCELED]
  /\ UNCHANGED <<config, pc, next, done, wait_error, status, told, storage>>

Kernel ==
  \/ \E k \in 0 .. Size - done \cup {EINTR, EIO} : CompleteWrite(k)
  \/ \E k \in {0, EINTR, EIO} : CompleteFlush(k)
  \/ CancelFlush

-------------------------------------------------------------------------------
(* One operation at a time: write_sync, aio_transaction, ring_transaction. *)

Issue(o, from, to) ==
  /\ pc = from /\ pc' = to
  /\ state' = [state EXCEPT ![o] = "flying"]
  /\ wait_error' = FALSE
  /\ UNCHANGED <<config, next, done, res, status, told, storage>>

IssueFails ==
  /\ pc \in {"write", "flush"}
  /\ kind # "sync"
  /\ Fails
  /\ UNCHANGED <<config, next, done, ops, wait_error, told, storage>>

\* aio_suspend fails: completion is still required before the block can die.
SuspendFails ==
  /\ kind = "aio"
  /\ \/ pc = "reap_write" /\ state["write"] = "flying"
     \/ pc = "reap_flush" /\ state["flush"] = "flying"
  /\ wait_error' = TRUE
  /\ UNCHANGED <<config, pc, next, done, ops, status, told, storage>>

\* io_uring_wait_cqe fails: the transaction gives up on what is in flight.
WaitFails ==
  /\ kind \in {"uring", "linked"}
  /\ pc \in {"reap_write", "reap_flush", "reap_pair"}
  /\ Fails
  /\ UNCHANGED <<config, next, done, ops, wait_error, told, storage>>

Collect(o) ==
  /\ state[o] = "complete"
  /\ state' = [state EXCEPT ![o] = "idle"]

ReapWrite ==
  /\ pc = "reap_write"
  /\ Collect("write")
  /\ LET k == res["write"] IN
       \/ k = EINTR /\ pc' = "write" /\ UNCHANGED <<done, status>>
       \/ /\ k > 0 /\ ~wait_error
          /\ done' = done + k
          /\ pc' = IF done + k < Size THEN "write" ELSE "flush"
          /\ UNCHANGED status
       \/ k # EINTR /\ (k <= 0 \/ wait_error) /\ Fails /\ UNCHANGED done
  /\ UNCHANGED <<config, next, res, wait_error, told, storage>>

ReapFlush ==
  /\ pc = "reap_flush"
  /\ Collect("flush")
  /\ LET k == res["flush"] IN
       \/ k = EINTR /\ pc' = "flush" /\ UNCHANGED status
       \/ k = 0 /\ ~wait_error /\ pc' = "returning" /\ UNCHANGED status
       \/ k # EINTR /\ (k # 0 \/ wait_error) /\ Fails
  /\ UNCHANGED <<config, next, done, res, wait_error, told, storage>>

-------------------------------------------------------------------------------
(* ring_linked_transaction. *)

IssuePair ==
  /\ pc = "pair" /\ pc' = "reap_pair"
  /\ state' = [write |-> "flying", flush |-> "linked"]
  /\ UNCHANGED <<config, next, done, res, wait_error, status, told, storage>>

\* Nothing is submitted, or only the write.
IssuePairFails ==
  /\ pc = "pair"
  /\ state' \in {state, [state EXCEPT !["write"] = "flying"]}
  /\ Fails
  /\ UNCHANGED <<config, next, done, res, wait_error, told, storage>>

\* Mutant: the flush's result is not looked at.
DecidePairUnchecked(w, f) ==
  LET hard == (w < 0 /\ w # EINTR) \/ w = 0
      again == w = EINTR \/ w < Size
  IN \/ hard /\ Fails /\ UNCHANGED done
     \/ /\ ~hard /\ again
        /\ pc' = "write"
        /\ done' = IF w > 0 /\ w < Size THEN w ELSE 0
        /\ UNCHANGED status
     \/ ~hard /\ ~again /\ pc' = "returning" /\ UNCHANGED <<done, status>>

\* Both results are in: acknowledge, or write what is missing the plain way.
DecidePair(w, f) ==
  LET hard == \/ w < 0 /\ w # EINTR
              \/ w = 0
              \/ f < 0 /\ f \notin {EINTR, ECANCELED}
      again == w = EINTR \/ w < Size \/ f = EINTR
  IN \/ hard /\ Fails /\ UNCHANGED done
     \/ /\ ~hard /\ again
        /\ pc' = "write"
        /\ done' = IF w > 0 /\ w < Size THEN w ELSE 0
        /\ UNCHANGED status
     \/ ~hard /\ ~again /\ f # 0 /\ Fails /\ UNCHANGED done
     \/ ~hard /\ ~again /\ f = 0 /\ pc' = "returning" /\ UNCHANGED <<done, status>>

\* Mutant: the pair is decided on the write's completion alone.
ReapPairEarly(o) ==
  /\ pc = "reap_pair"
  /\ Collect(o)
  /\ IF o = "write" THEN DecidePair(res["write"], 0)
     ELSE UNCHANGED <<pc, done, status>>
  /\ UNCHANGED <<config, next, res, wait_error, told, storage>>

\* The completions are reaped one by one, in the order they arrive.
ReapPair(o) ==
  /\ pc = "reap_pair"
  /\ Collect(o)
  /\ IF \A p \in Ops \ {o} : state[p] = "idle"
     THEN DecidePair(res["write"], res["flush"])
     ELSE UNCHANGED <<pc, done, status>>
  /\ UNCHANGED <<config, next, res, wait_error, told, storage>>

-------------------------------------------------------------------------------

CallerStep ==
  \/ Reserve \/ Return
  \/ Issue("write", "write", "reap_write")
  \/ Issue("flush", "flush", "reap_flush")
  \/ IssueFails \/ WaitFails \/ ReapWrite \/ ReapFlush
  \/ IssuePair \/ IssuePairFails
  \/ \E o \in Ops : ReapPair(o)

Finished ==
  /\ pc = "closed"
  /\ UNCHANGED vars

Next ==
  \/ Begin \/ StartClockFails \/ CallerStep \/ SuspendFails \/ Close
  \/ Kernel
  \/ Finished

Spec == Init /\ [][Next]_vars

\* What the kernel does once it no longer interrupts or fails an operation.
Progress ==
  \/ \E k \in 1 .. Size - done : CompleteWrite(k)
  \/ CompleteFlush(0)
  \/ CancelFlush

-------------------------------------------------------------------------------
(* Properties. *)

Idle == \A o \in Ops : state[o] = "idle"

TypeOK ==
  /\ kind \in Kinds /\ chunk \in Chunks
  /\ pc \in {"client", "reserve", "write", "reap_write", "flush", "reap_flush",
             "pair", "reap_pair", "returning", "failed", "closed"}
  /\ next \in 0 .. N /\ done \in 0 .. Size
  /\ state \in [Ops -> {"idle", "linked", "flying", "canceled", "complete"}]
  /\ res \in [Ops -> Results]
  /\ wait_error \in BOOLEAN /\ status \in {"ok", "error"}
  /\ told \in [Requests -> {"nothing", "ok", "error"}]
  /\ cached \subseteq 0 .. N * Size - 1 /\ disk \subseteq cached
  /\ reserved \in Nat

\* Operations never overlap: a retry, the remainder of a short linked write, the
\* flush and the next transaction all start with nothing in flight. And sync and aio
\* return, even with an error, only when the kernel has let go of the request's
\* buffer and of the control block.
NothingInFlight ==
  \/ pc \in {"client", "reserve", "write", "flush", "pair"}
  \/ kind \in {"sync", "aio"} /\ pc \in {"returning", "failed", "closed"}
  => Idle

\* Every transaction returns.
TransactionReturns == pc = "reserve" ~> pc \in {"client", "failed"}

\* Each of these engines is a durable queue of capacity one.
Ended == pc = "returning" \/ (next < N /\ told[next] = "error")

Abstract == INSTANCE DurableQueue WITH
  Capacity <- 1,
  admitted <- IF ~Ended /\ pc \in {"client", "failed", "closed"} THEN next ELSE next + 1,
  finished <- IF Ended THEN next + 1 ELSE next,
  stable <- {n \in Requests : Bytes(n) \subseteq disk},
  closed <- pc = "closed"

ImplementsDurableQueue == Abstract!QSpec
===============================================================================
