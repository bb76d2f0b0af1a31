----------------------------- MODULE EnginesProofs -----------------------------
(***************************************************************************)
(* Proofs about Engines, for any number of transactions, any size of a     *)
(* request and any preallocation chunks.  What is proved of MutexWorker    *)
(* holds of the process that picked the worker's engine; the engines of    *)
(* the calling thread have an inductive invariant of their own.            *)
(***************************************************************************)
EXTENDS Engines, MutexWorkerProofs, TLAPS

\* The transaction `dnext` is the queue's: it has begun, and has not returned "ok".
Admitted == pc \notin {"client", "failed", "closed"} \/ Direct!Ended
Operations == state["write"] # "idle" \/ state["flush"] # "idle"

DTypes ==
  /\ kind \in Direct!Kinds
  /\ pc \in {"client", "reserve", "write", "reap_write", "flush", "reap_flush",
             "pair", "reap_pair", "returning", "failed", "closed"}
  /\ dnext \in 0 .. N /\ bytes \in 0 .. Size
  /\ state \in [Direct!Ops -> {"idle", "linked", "flying", "canceled", "complete"}]
  /\ res \in [Direct!Ops -> Direct!Results]
  /\ status \in {"ok", "error"}
  /\ dtold \in [Requests -> {"nothing", "ok", "error"}]

\* Which operations can be in flight where: an acknowledgment leaves none, a linked
\* flush waits exactly as long as its write, and what was given up on is of a
\* transaction that has failed.
Quiet ==
  /\ NothingLeftInFlight
  /\ pc = "returning" /\ status = "ok" => ~Operations
  /\ ~Admitted => ~Operations
  /\ pc = "reap_write" => state["flush"] = "idle" /\ state["write"] \in {"flying", "complete"}
  /\ pc = "reap_flush" => state["write"] = "idle" /\ state["flush"] \in {"flying", "complete"}
  /\ pc = "reap_pair" => /\ state["write"] \in {"flying", "complete", "idle"}
                         /\ state["write"] = "flying" <=> state["flush"] = "linked"
  /\ pc \in {"pair", "reap_pair"} => kind = "linked" /\ bytes = 0
  /\ status = "error" => pc = "returning"

\* What the caller was told: "ok" of every transaction before this one, nothing of
\* the later ones, and of this one at most an error, which is the last answer.
Answers ==
  /\ \A n \in Requests : n < dnext => dtold[n] = "ok"
  /\ \A n \in Requests : n > dnext => dtold[n] = "nothing"
  /\ dnext < N => dtold[dnext] # "ok" /\ (dtold[dnext] = "error" => pc \in {"failed", "closed"})
  /\ pc \notin {"client", "closed"} => dnext < N

\* The file ends with this transaction, if it has begun.
Reached == IF Admitted THEN dnext + 1 ELSE dnext
Bounded ==
  /\ disk \subseteq cached
  /\ cached \subseteq 0 .. Reached * Size - 1

\* What counts as written is in the page cache.
Written ==
  /\ pc \in {"write", "reap_write", "flush", "reap_flush"} =>
       Direct!Span(dnext, 0, bytes) \subseteq cached
  /\ pc \in {"write", "reap_write"} => bytes < Size
  /\ pc \in {"flush", "reap_flush"} => bytes = Size
  /\ pc = "reap_write" /\ state["write"] = "complete" =>
       res["write"] <= Size - bytes /\ Direct!Span(dnext, bytes, res["write"]) \subseteq cached
  /\ pc = "reap_pair" /\ state["write"] # "flying" =>
       Direct!Span(dnext, 0, res["write"]) \subseteq cached

\* Every acknowledged request is on stable storage, and so is the one whose flush
\* has succeeded, as far as it was written when the flush began.
Flushed ==
  /\ \A n \in Requests : n < dnext => Direct!Bytes(n) \subseteq disk
  /\ pc = "reap_flush" /\ state["flush"] = "complete" /\ res["flush"] = 0 =>
       Direct!Bytes(dnext) \subseteq disk
  /\ pc = "reap_pair" /\ state["flush"] \in {"complete", "idle"} /\ res["flush"] = 0 =>
       Direct!Span(dnext, 0, res["write"]) \subseteq disk
  /\ pc = "returning" /\ status = "ok" => Direct!Bytes(dnext) \subseteq disk

DInv == DTypes /\ Quiet /\ Answers /\ Bounded /\ Written /\ Flushed

-------------------------------------------------------------------------------
(* The bytes of a request in the file. *)

LEMMA Places ==
  ASSUME NEW n \in Nat
  PROVE  n * Size \in Nat /\ (n + 1) * Size = n * Size + Size
  BY EngineAssumption

LEMMA LaterPlaces ==
  ASSUME NEW n \in Nat, NEW m \in Nat, n <= m
  PROVE  n * Size <= m * Size
<1> DEFINE d == m - n
<1>1. d \in Nat /\ m = n + d
  OBVIOUS
<1> HIDE DEF d
<1>2. m * Size = n * Size + d * Size /\ d * Size \in Nat /\ n * Size \in Nat
  BY <1>1, EngineAssumption
<1>3. QED
  BY <1>2

\* A part of a request lies inside it.
LEMMA SpanInside ==
  ASSUME NEW n \in Nat, NEW from \in Nat, NEW len \in Int, from + len <= Size
  PROVE  Direct!Span(n, from, len) \subseteq 0 .. (n + 1) * Size - 1
<1> DEFINE B == n * Size
<1>1. B \in Nat /\ (n + 1) * Size = B + Size
  BY Places
<1>2. Direct!Span(n, from, len) = B + from .. B + from + len - 1
  BY DEF Direct!Span
<1> HIDE DEF B
<1>3. QED
  BY <1>1, <1>2, EngineAssumption

LEMMA SpanEmpty ==
  ASSUME NEW n \in Nat, NEW from \in Nat, NEW len \in Int, len <= 0
  PROVE  Direct!Span(n, from, len) = {}
<1> DEFINE B == n * Size
<1>1. B \in Nat
  BY Places
<1>2. Direct!Span(n, from, len) = B + from .. B + from + len - 1
  BY DEF Direct!Span
<1> HIDE DEF B
<1>3. QED
  BY <1>1, <1>2

\* What is written after a prefix extends it.
LEMMA SpanExtended ==
  ASSUME NEW n \in Nat, NEW from \in Nat, NEW len \in Nat
  PROVE  Direct!Span(n, 0, from + len) =
           Direct!Span(n, 0, from) \cup Direct!Span(n, from, len)
<1> DEFINE B == n * Size
<1>1. B \in Nat
  BY Places
<1>2. /\ Direct!Span(n, from, len) = B + from .. B + from + len - 1
      /\ Direct!Span(n, 0, from) = B + 0 .. B + 0 + from - 1
      /\ Direct!Span(n, 0, from + len) = B + 0 .. B + 0 + (from + len) - 1
  BY DEF Direct!Span
<1> HIDE DEF B
<1>3. QED
  BY <1>1, <1>2

\* A file that ends before a request holds not all of it.
LEMMA NotReached ==
  ASSUME NEW n \in Nat, NEW m \in Nat, n <= m, NEW file_bytes,
         file_bytes \subseteq 0 .. n * Size - 1
  PROVE  ~ (Direct!Bytes(m) \subseteq file_bytes)
<1> DEFINE B == m * Size
           L == n * Size
<1>1. B \in Nat /\ L \in Nat /\ L <= B
  BY Places, LaterPlaces
<1>2. Direct!Bytes(m) = B + 0 .. B + 0 + Size - 1
  BY DEF Direct!Bytes, Direct!Span
<1> HIDE DEF B, L
<1>3. B \in Direct!Bytes(m) /\ B \notin 0 .. L - 1
  BY <1>1, <1>2, EngineAssumption
<1>4. file_bytes \subseteq 0 .. L - 1
  BY DEF L
<1>5. QED
  BY <1>3, <1>4

-------------------------------------------------------------------------------
(* The invariant. *)

LEMMA DInitInv == EInit => DInv
  BY EngineAssumption, HandoffAssumption
  DEF EInit, Init, Direct!Init, DInv, DTypes, Quiet, Answers, Bounded, Written, Flushed, Admitted, Reached,
      Operations, NothingLeftInFlight, Direct!NothingInFlight, Direct!Idle, Direct!Ended,
      Direct!Ops, Direct!Results, Direct!Requests, Direct!Kinds, Requests

\* Every step keeps the types.
LEMMA DTypesStep == DInv /\ [Direct!Next]_(Direct!vars) => DTypes'
<1> SUFFICES ASSUME DInv, [Direct!Next]_(Direct!vars) PROVE DTypes'
  OBVIOUS
<1> USE EngineAssumption, HandoffAssumption
    DEF DInv, DTypes, Quiet, Answers, Written, Direct!Ops, Direct!Kinds, Direct!Requests, Requests,
        Direct!Results, Direct!EINTR, Direct!EIO, Direct!ECANCELED, Direct!Collect,
        Direct!vars, Direct!config, Direct!ops, Direct!storage
<1>1. CASE Direct!Begin
  BY <1>1 DEF Direct!Begin
<1>2. CASE Direct!StartClockFails
  BY <1>2 DEF Direct!StartClockFails
<1>3. CASE Direct!Reserve
  BY <1>3 DEF Direct!Reserve, Direct!Fails
<1>4. CASE Direct!Return
  BY <1>4 DEF Direct!Return
<1>5. CASE Direct!Issue("write", "write", "reap_write")
  BY <1>5 DEF Direct!Issue
<1>6. CASE Direct!Issue("flush", "flush", "reap_flush")
  BY <1>6 DEF Direct!Issue
<1>7. CASE Direct!IssueFails
  BY <1>7 DEF Direct!IssueFails, Direct!Fails
<1>8. CASE Direct!WaitFails
  BY <1>8 DEF Direct!WaitFails, Direct!Fails
<1>9. CASE Direct!ReapWrite
  BY <1>9 DEF Direct!ReapWrite, Direct!Fails
<1>10. CASE Direct!ReapFlush
  BY <1>10 DEF Direct!ReapFlush, Direct!Fails
<1>11. CASE Direct!IssuePair
  BY <1>11 DEF Direct!IssuePair
<1>12. CASE Direct!IssuePairFails
  BY <1>12 DEF Direct!IssuePairFails, Direct!Fails
<1>13. CASE \E o \in Direct!Ops : Direct!ReapPair(o)
  BY <1>13 DEF Direct!ReapPair, Direct!DecidePair, Direct!Fails
<1>14. CASE Direct!SuspendFails
  BY <1>14 DEF Direct!SuspendFails
<1>15. CASE Direct!Close
  BY <1>15 DEF Direct!Close
<1>16. CASE \E k \in 0 .. Size - bytes \cup {Direct!EINTR, Direct!EIO} : Direct!CompleteWrite(k)
  BY <1>16 DEF Direct!CompleteWrite
<1>17. CASE \E k \in {0, Direct!EINTR, Direct!EIO} : Direct!CompleteFlush(k)
  BY <1>17 DEF Direct!CompleteFlush
<1>18. CASE Direct!CancelFlush
  BY <1>18 DEF Direct!CancelFlush
<1>19. CASE UNCHANGED Direct!vars
  BY <1>19
<1>20. QED
  BY <1>1, <1>2, <1>3, <1>4, <1>5, <1>6, <1>7, <1>8, <1>9, <1>10, <1>11, <1>12, <1>13, <1>14, <1>15, <1>16, <1>17, <1>18, <1>19
  DEF Direct!Next, Direct!CallerStep, Direct!Kernel, Direct!Finished

\* No step leaves an operation behind where none may be.
LEMMA QuietStep == DInv /\ [Direct!Next]_(Direct!vars) => Quiet'
<1> SUFFICES ASSUME DInv, [Direct!Next]_(Direct!vars) PROVE Quiet'
  OBVIOUS
<1> USE EngineAssumption, HandoffAssumption
    DEF DInv, DTypes, Quiet, Answers, Admitted, Operations, NothingLeftInFlight, Direct!NothingInFlight,
        Direct!Idle, Direct!Ended, Direct!Ops, Direct!Kinds, Direct!Requests, Requests, Direct!Collect,
        Direct!vars, Direct!config, Direct!ops, Direct!storage
<1>1. CASE Direct!Begin
  BY <1>1 DEF Direct!Begin
<1>2. CASE Direct!StartClockFails
  BY <1>2 DEF Direct!StartClockFails
<1>3. CASE Direct!Reserve
  BY <1>3 DEF Direct!Reserve, Direct!Fails
<1>4. CASE Direct!Return
  BY <1>4 DEF Direct!Return
<1>5. CASE Direct!Issue("write", "write", "reap_write")
  BY <1>5 DEF Direct!Issue
<1>6. CASE Direct!Issue("flush", "flush", "reap_flush")
  BY <1>6 DEF Direct!Issue
<1>7. CASE Direct!IssueFails
  BY <1>7 DEF Direct!IssueFails, Direct!Fails
<1>8. CASE Direct!WaitFails
  BY <1>8 DEF Direct!WaitFails, Direct!Fails
<1>9. CASE Direct!ReapWrite
  BY <1>9 DEF Direct!ReapWrite, Direct!Fails
<1>10. CASE Direct!ReapFlush
  BY <1>10 DEF Direct!ReapFlush, Direct!Fails
<1>11. CASE Direct!IssuePair
  BY <1>11 DEF Direct!IssuePair
<1>12. CASE Direct!IssuePairFails
  BY <1>12 DEF Direct!IssuePairFails, Direct!Fails
<1>13. CASE \E o \in Direct!Ops : Direct!ReapPair(o)
  BY <1>13 DEF Direct!ReapPair, Direct!DecidePair, Direct!Fails
<1>14. CASE Direct!SuspendFails
  BY <1>14 DEF Direct!SuspendFails
<1>15. CASE Direct!Close
  BY <1>15 DEF Direct!Close
<1>16. CASE \E k \in 0 .. Size - bytes \cup {Direct!EINTR, Direct!EIO} : Direct!CompleteWrite(k)
  BY <1>16 DEF Direct!CompleteWrite
<1>17. CASE \E k \in {0, Direct!EINTR, Direct!EIO} : Direct!CompleteFlush(k)
  BY <1>17 DEF Direct!CompleteFlush
<1>18. CASE Direct!CancelFlush
  BY <1>18 DEF Direct!CancelFlush
<1>19. CASE UNCHANGED Direct!vars
  BY <1>19
<1>20. QED
  BY <1>1, <1>2, <1>3, <1>4, <1>5, <1>6, <1>7, <1>8, <1>9, <1>10, <1>11, <1>12, <1>13, <1>14, <1>15, <1>16, <1>17, <1>18, <1>19
  DEF Direct!Next, Direct!CallerStep, Direct!Kernel, Direct!Finished

\* Every step keeps the answers in order.
LEMMA AnswersStep == DInv /\ [Direct!Next]_(Direct!vars) => Answers'
<1> SUFFICES ASSUME DInv, [Direct!Next]_(Direct!vars) PROVE Answers'
  OBVIOUS
<1> USE EngineAssumption, HandoffAssumption
    DEF DInv, DTypes, Quiet, Answers, Direct!Requests, Requests, Direct!Collect,
        Direct!vars, Direct!config, Direct!ops, Direct!storage
<1>1. CASE Direct!Begin
  BY <1>1 DEF Direct!Begin
<1>2. CASE Direct!StartClockFails
  BY <1>2 DEF Direct!StartClockFails
<1>3. CASE Direct!Reserve
  BY <1>3 DEF Direct!Reserve, Direct!Fails
<1>4. CASE Direct!Return
  BY <1>4 DEF Direct!Return
<1>5. CASE Direct!Issue("write", "write", "reap_write")
  BY <1>5 DEF Direct!Issue
<1>6. CASE Direct!Issue("flush", "flush", "reap_flush")
  BY <1>6 DEF Direct!Issue
<1>7. CASE Direct!IssueFails
  BY <1>7 DEF Direct!IssueFails, Direct!Fails
<1>8. CASE Direct!WaitFails
  BY <1>8 DEF Direct!WaitFails, Direct!Fails
<1>9. CASE Direct!ReapWrite
  BY <1>9 DEF Direct!ReapWrite, Direct!Fails
<1>10. CASE Direct!ReapFlush
  BY <1>10 DEF Direct!ReapFlush, Direct!Fails
<1>11. CASE Direct!IssuePair
  BY <1>11 DEF Direct!IssuePair
<1>12. CASE Direct!IssuePairFails
  BY <1>12 DEF Direct!IssuePairFails, Direct!Fails
<1>13. CASE \E o \in Direct!Ops : Direct!ReapPair(o)
  BY <1>13 DEF Direct!ReapPair, Direct!DecidePair, Direct!Fails
<1>14. CASE Direct!SuspendFails
  BY <1>14 DEF Direct!SuspendFails
<1>15. CASE Direct!Close
  BY <1>15 DEF Direct!Close
<1>16. CASE \E k \in 0 .. Size - bytes \cup {Direct!EINTR, Direct!EIO} : Direct!CompleteWrite(k)
  BY <1>16 DEF Direct!CompleteWrite
<1>17. CASE \E k \in {0, Direct!EINTR, Direct!EIO} : Direct!CompleteFlush(k)
  BY <1>17 DEF Direct!CompleteFlush
<1>18. CASE Direct!CancelFlush
  BY <1>18 DEF Direct!CancelFlush
<1>19. CASE UNCHANGED Direct!vars
  BY <1>19
<1>20. QED
  BY <1>1, <1>2, <1>3, <1>4, <1>5, <1>6, <1>7, <1>8, <1>9, <1>10, <1>11, <1>12, <1>13, <1>14, <1>15, <1>16, <1>17, <1>18, <1>19
  DEF Direct!Next, Direct!CallerStep, Direct!Kernel, Direct!Finished

\* The file never ends earlier.
LEMMA ReachedStep == DInv /\ [Direct!Next]_(Direct!vars) => Reached' \in Nat /\ Reached <= Reached'
<1> SUFFICES ASSUME DInv, [Direct!Next]_(Direct!vars) PROVE Reached' \in Nat /\ Reached <= Reached'
  OBVIOUS
<1> USE EngineAssumption, HandoffAssumption
    DEF DInv, DTypes, Quiet, Answers, Admitted, Operations, Reached,
        Direct!Ended, Direct!Ops, Direct!Kinds, Direct!Requests, Requests, Direct!Collect,
        Direct!vars, Direct!config, Direct!ops, Direct!storage
<1>1. CASE Direct!Begin
  BY <1>1 DEF Direct!Begin
<1>2. CASE Direct!StartClockFails
  BY <1>2 DEF Direct!StartClockFails
<1>3. CASE Direct!Reserve
  BY <1>3 DEF Direct!Reserve, Direct!Fails
<1>4. CASE Direct!Return
  BY <1>4 DEF Direct!Return
<1>5. CASE Direct!Issue("write", "write", "reap_write")
  BY <1>5 DEF Direct!Issue
<1>6. CASE Direct!Issue("flush", "flush", "reap_flush")
  BY <1>6 DEF Direct!Issue
<1>7. CASE Direct!IssueFails
  BY <1>7 DEF Direct!IssueFails, Direct!Fails
<1>8. CASE Direct!WaitFails
  BY <1>8 DEF Direct!WaitFails, Direct!Fails
<1>9. CASE Direct!ReapWrite
  BY <1>9 DEF Direct!ReapWrite, Direct!Fails
<1>10. CASE Direct!ReapFlush
  BY <1>10 DEF Direct!ReapFlush, Direct!Fails
<1>11. CASE Direct!IssuePair
  BY <1>11 DEF Direct!IssuePair
<1>12. CASE Direct!IssuePairFails
  BY <1>12 DEF Direct!IssuePairFails, Direct!Fails
<1>13. CASE \E o \in Direct!Ops : Direct!ReapPair(o)
  BY <1>13 DEF Direct!ReapPair, Direct!DecidePair, Direct!Fails
<1>14. CASE Direct!SuspendFails
  BY <1>14 DEF Direct!SuspendFails
<1>15. CASE Direct!Close
  BY <1>15 DEF Direct!Close
<1>16. CASE \E k \in 0 .. Size - bytes \cup {Direct!EINTR, Direct!EIO} : Direct!CompleteWrite(k)
  BY <1>16 DEF Direct!CompleteWrite
<1>17. CASE \E k \in {0, Direct!EINTR, Direct!EIO} : Direct!CompleteFlush(k)
  BY <1>17 DEF Direct!CompleteFlush
<1>18. CASE Direct!CancelFlush
  BY <1>18 DEF Direct!CancelFlush
<1>19. CASE UNCHANGED Direct!vars
  BY <1>19
<1>20. QED
  BY <1>1, <1>2, <1>3, <1>4, <1>5, <1>6, <1>7, <1>8, <1>9, <1>10, <1>11, <1>12, <1>13, <1>14, <1>15, <1>16, <1>17, <1>18, <1>19
  DEF Direct!Next, Direct!CallerStep, Direct!Kernel, Direct!Finished

\* The kernel changes the file, and nothing else does: it adds to the page cache what
\* is written of this transaction, and copies the cache to the disk.
LEMMA StorageStep ==
  ASSUME DInv, [Direct!Next]_(Direct!vars)
  PROVE  \/ UNCHANGED <<cached, disk>>
         \/ /\ Admitted /\ dnext' = dnext /\ pc' = pc /\ bytes' = bytes /\ disk' = disk
            /\ state["write"] = "flying" /\ state'["write"] = "complete"
            /\ state["flush"] # "linked" => state'["flush"] = state["flush"]
            /\ state["flush"] = "linked" => state'["flush"] \in {"flying", "canceled"}
            /\ res'["flush"] = res["flush"]
            /\ res'["write"] \in 0 .. Size - bytes \cup {Direct!EINTR, Direct!EIO}
            /\ cached' = cached \cup Direct!Span(dnext, bytes, res'["write"])
         \/ /\ Admitted /\ dnext' = dnext /\ pc' = pc /\ bytes' = bytes /\ cached' = cached
            /\ state["flush"] = "flying" /\ state' = [state EXCEPT !["flush"] = "complete"]
            /\ res'["write"] = res["write"]
            /\ disk' \in {disk, cached} /\ (res'["flush"] = 0 => disk' = cached)
<1> USE DEF DInv, DTypes, Quiet, Operations, Direct!Ops, Direct!Results, Direct!EINTR, Direct!EIO,
            Direct!ECANCELED, Direct!vars, Direct!config, Direct!ops, Direct!storage
<1>1. CASE \E k \in 0 .. Size - bytes \cup {Direct!EINTR, Direct!EIO} : Direct!CompleteWrite(k)
  <2>1. PICK k \in 0 .. Size - bytes \cup {Direct!EINTR, Direct!EIO} : Direct!CompleteWrite(k)
    BY <1>1
  <2>2. k <= 0 => Direct!Span(dnext, bytes, k) = {}
    BY SpanEmpty, HandoffAssumption, EngineAssumption
  <2>3. QED
    BY <2>1, <2>2, EngineAssumption DEF Direct!CompleteWrite
<1>2. CASE \E k \in {0, Direct!EINTR, Direct!EIO} : Direct!CompleteFlush(k)
  BY <1>2 DEF Direct!CompleteFlush
<1>3. CASE Direct!Begin \/ Direct!StartClockFails \/ Direct!Reserve \/ Direct!Return \/ Direct!Close
           \/ Direct!SuspendFails \/ Direct!IssueFails \/ Direct!WaitFails \/ Direct!CancelFlush
  BY <1>3 DEF Direct!Begin, Direct!StartClockFails, Direct!Reserve, Direct!Return, Direct!Close,
              Direct!SuspendFails, Direct!IssueFails, Direct!WaitFails, Direct!CancelFlush
<1>4. CASE \/ Direct!Issue("write", "write", "reap_write") \/ Direct!Issue("flush", "flush", "reap_flush")
           \/ Direct!ReapWrite \/ Direct!ReapFlush \/ Direct!IssuePair \/ Direct!IssuePairFails
           \/ \E o \in Direct!Ops : Direct!ReapPair(o)
  BY <1>4 DEF Direct!Issue, Direct!ReapWrite, Direct!ReapFlush, Direct!IssuePair,
              Direct!IssuePairFails, Direct!ReapPair
<1>5. CASE UNCHANGED Direct!vars
  BY <1>5
<1>6. QED
  BY <1>1, <1>2, <1>3, <1>4, <1>5
  DEF Direct!Next, Direct!CallerStep, Direct!Kernel, Direct!Finished

LEMMA BoundedStep == DInv /\ [Direct!Next]_(Direct!vars) => Bounded'
<1> SUFFICES ASSUME DInv, [Direct!Next]_(Direct!vars) PROVE Bounded'
  OBVIOUS
<1>1. /\ Reached \in Nat /\ dnext \in Nat /\ bytes \in Nat /\ Reached <= Reached'
      /\ Admitted => Reached = dnext + 1
  BY ReachedStep, HandoffAssumption DEF DInv, DTypes, Reached
<1>2. Reached' \in Nat
  BY ReachedStep
<1>3. cached' \subseteq 0 .. Reached * Size - 1
  <2>1. CASE cached' = cached
    BY <2>1 DEF DInv, Bounded
  <2>2. CASE /\ Admitted
             /\ res'["write"] \in 0 .. Size - bytes \cup {Direct!EINTR, Direct!EIO}
             /\ cached' = cached \cup Direct!Span(dnext, bytes, res'["write"])
    <3>1. res'["write"] \in Int /\ bytes + res'["write"] <= Size
      BY <2>2, EngineAssumption DEF DInv, DTypes, Direct!EINTR, Direct!EIO
    <3>2. Direct!Span(dnext, bytes, res'["write"]) \subseteq 0 .. (dnext + 1) * Size - 1
      BY <1>1, <3>1, SpanInside
    <3>3. QED
      BY <1>1, <2>2, <3>2 DEF DInv, Bounded
  <2>3. QED
    BY <2>1, <2>2, StorageStep
<1>4. Reached * Size <= Reached' * Size /\ Reached * Size \in Nat /\ Reached' * Size \in Nat
  BY <1>1, <1>2, LaterPlaces, Places
<1>5. cached' \subseteq 0 .. Reached' * Size - 1
  BY <1>3, <1>4
<1>6. disk' \subseteq cached'
  BY StorageStep DEF DInv, Bounded
<1>7. QED
  BY <1>5, <1>6 DEF Bounded

\* Every step keeps what is written in the cache.
LEMMA WrittenStep == DInv /\ [Direct!Next]_(Direct!vars) => Written'
<1> SUFFICES ASSUME DInv, [Direct!Next]_(Direct!vars) PROVE Written'
  OBVIOUS
<1> USE EngineAssumption, HandoffAssumption
    DEF DInv, DTypes, Quiet, Answers, Written, Operations, Direct!Ops, Direct!Kinds,
        Direct!Results, Direct!EINTR, Direct!EIO, Direct!ECANCELED, Direct!Collect,
        Direct!vars, Direct!config, Direct!ops, Direct!storage
<1>1. CASE Direct!Begin
  BY <1>1 DEF Direct!Begin
<1>2. CASE Direct!StartClockFails
  BY <1>2 DEF Direct!StartClockFails
<1>3. CASE Direct!Reserve
  <2>1. Direct!Span(dnext, 0, 0) = {}
    BY SpanEmpty
  <2>2. QED
    BY <1>3, <2>1 DEF Direct!Reserve, Direct!Fails
<1>4. CASE Direct!Return
  BY <1>4 DEF Direct!Return
<1>5. CASE Direct!Issue("write", "write", "reap_write")
  BY <1>5 DEF Direct!Issue
<1>6. CASE Direct!Issue("flush", "flush", "reap_flush")
  BY <1>6 DEF Direct!Issue
<1>7. CASE Direct!IssueFails
  BY <1>7 DEF Direct!IssueFails, Direct!Fails
<1>8. CASE Direct!WaitFails
  BY <1>8 DEF Direct!WaitFails, Direct!Fails
<1>9. CASE Direct!ReapWrite
  <2>1. CASE res["write"] > 0
    <3>1. Direct!Span(dnext, 0, bytes + res["write"]) =
            Direct!Span(dnext, 0, bytes) \cup Direct!Span(dnext, bytes, res["write"])
      BY <2>1, SpanExtended
    <3>2. QED
      BY <1>9, <2>1, <3>1 DEF Direct!ReapWrite, Direct!Fails
  <2>2. CASE res["write"] <= 0
    BY <1>9, <2>2 DEF Direct!ReapWrite, Direct!Fails
  <2>3. QED
    BY <2>1, <2>2
<1>10. CASE Direct!ReapFlush
  BY <1>10 DEF Direct!ReapFlush, Direct!Fails
<1>11. CASE Direct!IssuePair
  BY <1>11 DEF Direct!IssuePair
<1>12. CASE Direct!IssuePairFails
  BY <1>12 DEF Direct!IssuePairFails, Direct!Fails
<1>13. CASE \E o \in Direct!Ops : Direct!ReapPair(o)
  <2>1. PICK o \in Direct!Ops : Direct!ReapPair(o)
    BY <1>13
  <2>2. UNCHANGED <<cached, dnext, res>> /\ bytes = 0
    BY <2>1 DEF Direct!ReapPair
  <2>3. state["write"] # "flying" => Direct!Span(dnext, 0, res["write"]) \subseteq cached
    BY <2>1 DEF Direct!ReapPair
  <2>4. Direct!Span(dnext, 0, 0) = {}
    BY SpanEmpty
  <2>5. CASE \A p \in Direct!Ops \ {o} : state[p] = "idle"
    <3>1. state["write"] # "flying"
      BY <2>1, <2>5 DEF Direct!ReapPair
    <3>2. Direct!DecidePair(res["write"], res["flush"])
      BY <2>1, <2>5 DEF Direct!ReapPair
    <3>3. QED
      BY <2>2, <2>3, <2>4, <3>1, <3>2 DEF Direct!DecidePair, Direct!Fails
  <2>6. CASE ~ \A p \in Direct!Ops \ {o} : state[p] = "idle"
    <3>1. pc' = pc /\ (state'["write"] # "flying" => state["write"] # "flying")
      BY <2>1, <2>6 DEF Direct!ReapPair
    <3>2. pc = "reap_pair"
      BY <2>1 DEF Direct!ReapPair
    <3>3. QED
      BY <2>2, <2>3, <3>1, <3>2
  <2>7. QED
    BY <2>5, <2>6
<1>14. CASE Direct!SuspendFails
  BY <1>14 DEF Direct!SuspendFails
<1>15. CASE Direct!Close
  BY <1>15 DEF Direct!Close
<1>16. CASE \E k \in 0 .. Size - bytes \cup {Direct!EINTR, Direct!EIO} : Direct!CompleteWrite(k)
  <2>1. PICK k \in 0 .. Size - bytes \cup {Direct!EINTR, Direct!EIO} : Direct!CompleteWrite(k)
    BY <1>16
  <2>2. k <= 0 => Direct!Span(dnext, bytes, k) = {}
    BY SpanEmpty
  <2>3. QED
    BY <2>1, <2>2 DEF Direct!CompleteWrite
<1>17. CASE \E k \in {0, Direct!EINTR, Direct!EIO} : Direct!CompleteFlush(k)
  BY <1>17 DEF Direct!CompleteFlush
<1>18. CASE Direct!CancelFlush
  BY <1>18 DEF Direct!CancelFlush
<1>19. CASE UNCHANGED Direct!vars
  BY <1>19
<1>20. QED
  BY <1>1, <1>2, <1>3, <1>4, <1>5, <1>6, <1>7, <1>8, <1>9, <1>10, <1>11, <1>12, <1>13, <1>14, <1>15, <1>16, <1>17, <1>18, <1>19
  DEF Direct!Next, Direct!CallerStep, Direct!Kernel, Direct!Finished

\* Every step keeps the acknowledged requests on the disk.
LEMMA FlushedStep == DInv /\ [Direct!Next]_(Direct!vars) => Flushed'
<1> SUFFICES ASSUME DInv, [Direct!Next]_(Direct!vars) PROVE Flushed'
  OBVIOUS
<1> USE EngineAssumption, HandoffAssumption
    DEF DInv, DTypes, Quiet, Answers, Bounded, Written, Flushed, Operations, Direct!Bytes, Direct!Ops,
        Direct!Requests, Requests, Direct!Results, Direct!EINTR, Direct!EIO, Direct!ECANCELED,
        Direct!Collect, Direct!vars, Direct!config, Direct!ops, Direct!storage
<1>1. CASE Direct!Begin
  BY <1>1 DEF Direct!Begin
<1>2. CASE Direct!StartClockFails
  BY <1>2 DEF Direct!StartClockFails
<1>3. CASE Direct!Reserve
  BY <1>3 DEF Direct!Reserve, Direct!Fails
<1>4. CASE Direct!Return
  BY <1>4 DEF Direct!Return
<1>5. CASE Direct!Issue("write", "write", "reap_write")
  BY <1>5 DEF Direct!Issue
<1>6. CASE Direct!Issue("flush", "flush", "reap_flush")
  BY <1>6 DEF Direct!Issue
<1>7. CASE Direct!IssueFails
  BY <1>7 DEF Direct!IssueFails, Direct!Fails
<1>8. CASE Direct!WaitFails
  BY <1>8 DEF Direct!WaitFails, Direct!Fails
<1>9. CASE Direct!ReapWrite
  BY <1>9 DEF Direct!ReapWrite, Direct!Fails
<1>10. CASE Direct!ReapFlush
  BY <1>10 DEF Direct!ReapFlush, Direct!Fails
<1>11. CASE Direct!IssuePair
  BY <1>11 DEF Direct!IssuePair
<1>12. CASE Direct!IssuePairFails
  BY <1>12 DEF Direct!IssuePairFails, Direct!Fails
<1>13. CASE \E o \in Direct!Ops : Direct!ReapPair(o)
  <2>1. PICK o \in Direct!Ops : Direct!ReapPair(o)
    BY <1>13
  <2>2. UNCHANGED <<disk, dnext, res>> /\ pc = "reap_pair" /\ status = "ok" /\ state[o] = "complete"
    BY <2>1 DEF Direct!ReapPair
  <2>3. CASE \A p \in Direct!Ops \ {o} : state[p] = "idle"
    <3>1. Direct!DecidePair(res["write"], res["flush"])
      BY <2>1, <2>3 DEF Direct!ReapPair
    <3>2. state["flush"] \in {"complete", "idle"}
      BY <2>2, <2>3
    <3>3. pc' = "returning" /\ status' = "ok" => res["write"] = Size /\ res["flush"] = 0
      BY <2>2, <3>1 DEF Direct!DecidePair, Direct!Fails
    <3>4. pc' \in {"returning", "write"}
      BY <3>1 DEF Direct!DecidePair, Direct!Fails
    <3>5. QED
      BY <2>2, <3>2, <3>3, <3>4
  <2>4. CASE ~ \A p \in Direct!Ops \ {o} : state[p] = "idle"
    <3>1. UNCHANGED <<pc, status>>
      BY <2>1, <2>4 DEF Direct!ReapPair
    <3>2. state'["flush"] \in {"complete", "idle"} => state["flush"] \in {"complete", "idle"}
      BY <2>1 DEF Direct!ReapPair
    <3>3. QED
      BY <2>2, <3>1, <3>2
  <2>5. QED
    BY <2>3, <2>4
<1>14. CASE Direct!SuspendFails
  BY <1>14 DEF Direct!SuspendFails
<1>15. CASE Direct!Close
  BY <1>15 DEF Direct!Close
<1>16. CASE \E k \in 0 .. Size - bytes \cup {Direct!EINTR, Direct!EIO} : Direct!CompleteWrite(k)
  BY <1>16 DEF Direct!CompleteWrite
<1>17. CASE \E k \in {0, Direct!EINTR, Direct!EIO} : Direct!CompleteFlush(k)
  <2>1. PICK k \in {0, Direct!EINTR, Direct!EIO} : Direct!CompleteFlush(k)
    BY <1>17
  <2>2. disk \subseteq disk' /\ (k = 0 => disk' = cached)
    BY <2>1 DEF Direct!CompleteFlush
  <2>3. QED
    BY <2>1, <2>2 DEF Direct!CompleteFlush
<1>18. CASE Direct!CancelFlush
  BY <1>18 DEF Direct!CancelFlush
<1>19. CASE UNCHANGED Direct!vars
  BY <1>19
<1>20. QED
  BY <1>1, <1>2, <1>3, <1>4, <1>5, <1>6, <1>7, <1>8, <1>9, <1>10, <1>11, <1>12, <1>13, <1>14, <1>15, <1>16, <1>17, <1>18, <1>19
  DEF Direct!Next, Direct!CallerStep, Direct!Kernel, Direct!Finished

-------------------------------------------------------------------------------
(* The theorems. *)

\* Whatever engine was picked, the process takes steps of both, or stutters in one.
LEMMA Steps ==
  [ENext]_engineVars => [Next]_vars /\ [Direct!Next]_(Direct!vars)
  BY DEF ENext, WorkerEngine, DirectEngine, engineVars, directVars, Direct!vars, Direct!config,
         Direct!ops, Direct!storage, vars

THEOREM WorkerRuns == ESpec => Spec
<1>1. EInit => Init
  BY DEF EInit
<1>2. QED
  BY <1>1, Steps, PTL DEF ESpec, Spec

THEOREM DirectRuns == ESpec => Direct!Spec
<1>1. EInit => Direct!Init
  BY DEF EInit
<1>2. QED
  BY <1>1, Steps, PTL DEF ESpec, Direct!Spec

THEOREM DirectInvariance == ESpec => []DInv
<1>1. DInv /\ [ENext]_engineVars => DInv'
  <2>1. DInv /\ [Direct!Next]_(Direct!vars) => DInv'
    BY DTypesStep, QuietStep, AnswersStep, BoundedStep, WrittenStep, FlushedStep DEF DInv
  <2>2. QED
    BY <2>1, Steps
<1>2. QED
  BY <1>1, DInitInv, PTL DEF ESpec

\* Operations never overlap, and sync and aio let go of the request's buffer and of
\* the control block before they return, an error included.
THEOREM BuffersAreReleased == ESpec => []NothingLeftInFlight
<1>1. DInv => NothingLeftInFlight
  BY DEF DInv, Quiet
<1>2. QED
  BY <1>1, DirectInvariance, PTL

-------------------------------------------------------------------------------
(* The refinement: the queue's requests that are stable are those whose every byte *)
(* is on the disk.                                                                 *)

Stable == {n \in Direct!Requests : Direct!Bytes(n) \subseteq disk}

LEMMA DirectStutter ==
  ASSUME UNCHANGED <<dnext, disk, dtold>>, Admitted' <=> Admitted, Direct!Ended' <=> Direct!Ended,
         pc' = "closed" <=> pc = "closed"
  PROVE  UNCHANGED Direct!Abstract!qvars
  BY DEF Direct!Abstract!qvars, Admitted

\* The transaction is on its way, and goes on or ends.
LEMMA Finishes ==
  ASSUME DInv, UNCHANGED <<dnext, disk, dtold>>,
         pc \in {"reserve", "write", "reap_write", "flush", "reap_flush", "pair", "reap_pair"},
         pc' = "returning"
  PROVE  Direct!Abstract!QNext
<1>1. /\ Admitted /\ Admitted' /\ ~Direct!Ended /\ Direct!Ended' /\ dnext \in Nat
      /\ pc # "closed" /\ pc' # "closed"
  BY HandoffAssumption DEF DInv, DTypes, Answers, Admitted, Direct!Ended
<1>2. Direct!Abstract!Finish
  BY <1>1 DEF Direct!Abstract!Finish
<1>3. QED
  BY <1>2 DEF Direct!Abstract!QNext

\* The transaction that ends is answered for.
LEMMA Tells ==
  ASSUME DInv, pc = "returning", dnext < N, disk' = disk, dtold[dnext] = "nothing",
         NEW answer \in {"ok", "error"}, dtold' = [dtold EXCEPT ![dnext] = answer],
         answer = "ok" => /\ Direct!Bytes(dnext) \subseteq disk /\ pc' = "client"
                          /\ dnext' = dnext + 1 /\ ~Direct!Ended',
         answer = "error" => pc' = "failed" /\ dnext' = dnext /\ Direct!Ended'
  PROVE  Direct!Abstract!QNext
<1>1. dnext \in Direct!Requests /\ dnext \in Direct!Abstract!QRequests /\ dnext \in Nat
  BY HandoffAssumption DEF DInv, DTypes, Direct!Requests, Direct!Abstract!QRequests
<1>2. Direct!Ended
  BY DEF Direct!Ended
<1>3. Direct!Abstract!Tell(dnext, answer)
  BY <1>1, <1>2 DEF Direct!Abstract!Tell
<1>4. QED
  BY <1>1, <1>3 DEF Direct!Abstract!QNext

\* The later requests are not in the file yet.
LEMMA LaterNotWritten ==
  ASSUME DInv, Admitted
  PROVE  \A n \in Direct!Requests : n > dnext => ~ (Direct!Bytes(n) \subseteq cached)
<1>1. dnext + 1 \in Nat /\ cached \subseteq 0 .. (dnext + 1) * Size - 1
  BY HandoffAssumption DEF DInv, DTypes, Bounded, Reached
<1>2. \A n \in Direct!Requests : n > dnext => n \in Nat /\ dnext + 1 <= n
  BY HandoffAssumption DEF DInv, DTypes, Direct!Requests
<1>3. QED
  BY <1>1, <1>2, NotReached

LEMMA DirectStepRefines ==
  ASSUME DInv, DInv'
  PROVE  [Direct!Next]_(Direct!vars) => [Direct!Abstract!QNext]_(Direct!Abstract!qvars)
<1> SUFFICES ASSUME [Direct!Next]_(Direct!vars)
             PROVE  Direct!Abstract!QNext \/ UNCHANGED Direct!Abstract!qvars
  OBVIOUS
<1> USE EngineAssumption, HandoffAssumption
    DEF DInv, DTypes, Quiet, Answers, Bounded, Flushed, Admitted, Direct!Ended, Operations,
        Direct!Requests, Requests, Direct!Collect, Direct!vars, Direct!config, Direct!ops, Direct!storage
<1>1. CASE Direct!Begin
  <2>1. ~Admitted /\ Admitted' /\ ~Direct!Ended /\ ~Direct!Ended' /\ dnext < N
    BY <1>1 DEF Direct!Begin
  <2>2. Direct!Abstract!Admit
    BY <1>1, <2>1 DEF Direct!Begin, Direct!Abstract!Admit
  <2>3. QED
    BY <2>2 DEF Direct!Abstract!QNext
<1>2. CASE Direct!StartClockFails
  BY <1>2, DirectStutter DEF Direct!StartClockFails
<1>3. CASE Direct!Reserve
  BY <1>3, Finishes, DirectStutter DEF Direct!Reserve, Direct!Fails
<1>4. CASE Direct!Return
  <2>1. PICK answer \in {"ok", "error"} :
          /\ dtold' = [dtold EXCEPT ![dnext] = answer]
          /\ answer = "ok" => status = "ok" /\ pc' = "client" /\ dnext' = dnext + 1
          /\ answer = "error" => pc' = "failed" /\ dnext' = dnext
    BY <1>4 DEF Direct!Return
  <2>2. pc = "returning" /\ dnext < N /\ disk' = disk /\ dtold[dnext] = "nothing"
    BY <1>4 DEF Direct!Return
  <2>3. answer = "ok" => Direct!Bytes(dnext) \subseteq disk
    BY <2>1, <2>2
  <2>4. /\ answer = "ok" => ~Admitted' /\ ~Direct!Ended'
        /\ answer = "error" => Admitted' /\ Direct!Ended'
    BY <2>1, <2>2
  <2>5. QED
    BY <2>1, <2>2, <2>3, <2>4, Tells
<1>5. CASE Direct!Issue("write", "write", "reap_write")
  BY <1>5, DirectStutter DEF Direct!Issue
<1>6. CASE Direct!Issue("flush", "flush", "reap_flush")
  BY <1>6, DirectStutter DEF Direct!Issue
<1>7. CASE Direct!IssueFails
  BY <1>7, Finishes, DirectStutter DEF Direct!IssueFails, Direct!Fails
<1>8. CASE Direct!WaitFails
  BY <1>8, Finishes, DirectStutter DEF Direct!WaitFails, Direct!Fails
<1>9. CASE Direct!ReapWrite
  BY <1>9, Finishes, DirectStutter DEF Direct!ReapWrite, Direct!Fails
<1>10. CASE Direct!ReapFlush
  BY <1>10, Finishes, DirectStutter DEF Direct!ReapFlush, Direct!Fails
<1>11. CASE Direct!IssuePair
  BY <1>11, DirectStutter DEF Direct!IssuePair
<1>12. CASE Direct!IssuePairFails
  BY <1>12, Finishes, DirectStutter DEF Direct!IssuePairFails, Direct!Fails
<1>13. CASE \E o \in Direct!Ops : Direct!ReapPair(o)
  <2>1. PICK o \in Direct!Ops : Direct!ReapPair(o)
    BY <1>13
  <2>2. UNCHANGED <<disk, dnext, dtold>> /\ pc = "reap_pair" /\ pc' \in {"reap_pair", "write", "returning"}
    BY <2>1 DEF Direct!ReapPair, Direct!DecidePair, Direct!Fails
  <2>3. QED
    BY <2>2, Finishes, DirectStutter
<1>14. CASE Direct!SuspendFails
  BY <1>14, DirectStutter DEF Direct!SuspendFails
<1>15. CASE Direct!Close
  <2>1. /\ Direct!Ended <=> Direct!Ended'
        /\ Admitted <=> Direct!Ended
        /\ Admitted' <=> Direct!Ended'
        /\ dnext' = dnext /\ disk' = disk /\ dtold' = dtold /\ pc # "closed" /\ pc' = "closed"
    BY <1>15 DEF Direct!Close
  <2>2. Direct!Abstract!Close
    BY <2>1 DEF Direct!Abstract!Close
  <2>3. QED
    BY <2>2 DEF Direct!Abstract!QNext
<1>16. CASE \E k \in 0 .. Size - bytes \cup {Direct!EINTR, Direct!EIO} : Direct!CompleteWrite(k)
  BY <1>16, DirectStutter DEF Direct!CompleteWrite
<1>17. CASE \E k \in {0, Direct!EINTR, Direct!EIO} : Direct!CompleteFlush(k)
  <2>1. /\ Admitted /\ UNCHANGED <<pc, dnext, dtold>> /\ disk' \in {disk, cached} /\ dnext < N
    BY <1>17 DEF Direct!CompleteFlush
  <2>2. CASE disk' = disk
    BY <2>1, <2>2, DirectStutter
  <2>3. CASE disk' = cached
    <3>1. \A n \in Direct!Requests : n > dnext => ~ (Direct!Bytes(n) \subseteq cached)
      BY <2>1, LaterNotWritten
    <3>2. \A n \in Direct!Requests : n < dnext => Direct!Bytes(n) \subseteq cached
      BY <2>1
    <3>3. \A n \in Direct!Requests : Direct!Bytes(n) \subseteq disk =>
            Direct!Bytes(n) \subseteq cached
      BY DEF Bounded
    <3>4. \/ Stable' = Stable
          \/ Stable' = Stable \cup {dnext}
      BY <2>1, <2>3, <3>1, <3>2, <3>3 DEF Stable
    <3>5. CASE Stable' = Stable
      BY <2>1, <3>5 DEF Stable, Direct!Abstract!qvars
    <3>6. CASE Stable' = Stable \cup {dnext}
      <4>1. Direct!Abstract!Persist
        BY <2>1, <3>6 DEF Stable, Direct!Abstract!Persist
      <4>2. QED
        BY <4>1 DEF Direct!Abstract!QNext
    <3>7. QED
      BY <3>4, <3>5, <3>6
  <2>4. QED
    BY <2>1, <2>2, <2>3
<1>18. CASE Direct!CancelFlush
  BY <1>18, DirectStutter DEF Direct!CancelFlush
<1>19. CASE UNCHANGED Direct!vars
  BY <1>19, DirectStutter
<1>20. QED
  BY <1>1, <1>2, <1>3, <1>4, <1>5, <1>6, <1>7, <1>8, <1>9, <1>10, <1>11, <1>12, <1>13, <1>14, <1>15, <1>16, <1>17, <1>18, <1>19
  DEF Direct!Next, Direct!CallerStep, Direct!Kernel, Direct!Finished

\* The engines of the calling thread implement the durable queue of capacity one: 0
\* is returned only for a request whose every byte is on stable storage.
THEOREM DirectRefinement == ESpec => DirectIsDurableQueue
<1>1. EInit => Direct!Abstract!QInit
  <2> SUFFICES ASSUME EInit PROVE Direct!Abstract!QInit
    OBVIOUS
  <2>1. \A n \in Direct!Requests : ~ (Direct!Bytes(n) \subseteq {})
    BY NotReached, HandoffAssumption DEF Direct!Requests
  <2>2. QED
    BY <2>1, HandoffAssumption
    DEF EInit, Direct!Init, Direct!Abstract!QInit, Direct!Abstract!QRequests, Direct!Requests, Direct!Ended
<1>2. DInv /\ DInv' /\ [ENext]_engineVars => [Direct!Abstract!QNext]_(Direct!Abstract!qvars)
  BY Steps, DirectStepRefines
<1>3. QED
  BY <1>1, <1>2, DirectInvariance, PTL
  DEF ESpec, DirectIsDurableQueue, Direct!ImplementsDurableQueue, Direct!Abstract!QSpec

\* Whichever engine is picked, what the caller is told is true of the disk, and the
\* worker's request lives while it is worked on.
THEOREM EveryEngineIsDurable ==
  ESpec => ImplementsDurableQueue /\ DirectIsDurableQueue /\ []WorkIsAwaited
  BY WorkerRuns, Refinement, BufferIsAlive, DirectRefinement, PTL
===============================================================================
