--------------------------- MODULE MutexWorkerProofs ---------------------------
(***************************************************************************)
(* Proofs about MutexWorker, for any number of transactions.               *)
(***************************************************************************)
EXTENDS MutexWorker, TLAPS

Working == wpc \in {"io", "relock", "finish"}

\* While the caller waits its request is pending, being worked on, or done:
\* exactly one of the three; otherwise it is none of them.
Phase ==
  /\ Waiting => /\ pending \/ Working \/ done
                /\ done => ~pending /\ ~Working
                /\ pending => ~Working
  /\ ~Waiting => ~pending /\ ~Working

\* The request in each of those places is the caller's.
Handed ==
  /\ cpc \in {"lock_submit", "submit"} \/ Waiting => next < N
  /\ pending => request = next
  /\ Working => work = next

\* A result that says ok is about durable data, wherever it has got to.
Results ==
  /\ wpc \in {"relock", "finish"} /\ result = "ok" => work \in file
  /\ Waiting /\ done /\ worker_error = "ok" => next \in file
  /\ \A n \in Requests : n >= next => told[n] = "nothing"

\* stop is set only when the caller has left its last transaction.
Stopping ==
  /\ stop => cpc \in {"stopped", "join", "joined"}
  /\ wpc = "exited" => stop

IInv == TypeOK /\ Phase /\ Handed /\ Results /\ Stopping /\ AckedIsDurable

LEMMA InitIInv == Init => IInv
<1> USE HandoffAssumption DEF Init, Requests
<1>1. Init => TypeOK
  <2>1. Init => pending \in BOOLEAN /\ done \in BOOLEAN /\ stop \in BOOLEAN
    BY Zenon
  <2>2. QED
    BY <2>1 DEF TypeOK, None
<1>2. Init => Phase /\ Handed /\ Stopping
  BY DEF Phase, Handed, Stopping, Waiting, Working
<1>3. Init => Results /\ AckedIsDurable
  BY DEF Results, AckedIsDurable, Waiting
<1>4. QED
  BY <1>1, <1>2, <1>3 DEF IInv

\* Every action keeps the types and the mutex discipline.
LEMMA TypeStep == IInv /\ [Next]_vars => TypeOK'
<1> SUFFICES ASSUME IInv PROVE [Next]_vars => TypeOK'
  OBVIOUS
<1>0. SUFFICES ASSUME [Next]_vars PROVE TypeOK'
  OBVIOUS
<1> USE HandoffAssumption DEF IInv, TypeOK, Phase, Handed, Waiting, Working, Requests, None, vars, shared, callerVars, workerVars
<1>1. CASE CallTransaction
  BY <1>1 DEF CallTransaction
<1>2. CASE StartClockFails
  BY <1>2 DEF StartClockFails
<1>3. CASE CallDestroy
  BY <1>3 DEF CallDestroy
<1>4. CASE CallerLocks("lock_submit", "submit")
  BY <1>4 DEF CallerLocks
<1>5. CASE Submit
  <2>1. pending' \in BOOLEAN /\ done' \in BOOLEAN /\ stop' \in BOOLEAN
    BY <1>5, Zenon DEF Submit
  <2>2. request' \in Requests
    BY <1>5 DEF Submit
  <2>3. wpc' \in {wpc, "lock"} /\ (wpc # wpc' => wpc = "asleep")
    BY <1>5 DEF Submit, SignalWorker
  <2>4. QED
    BY <1>5, <2>1, <2>2, <2>3 DEF Submit
<1>6. CASE CallerUnlocks("submitted", "lock_wait")
  BY <1>6 DEF CallerUnlocks
<1>7. CASE CallerLocks("lock_wait", "check")
  BY <1>7 DEF CallerLocks
<1>8. CASE AwaitDone
  BY <1>8 DEF AwaitDone
<1>9. CASE Collect
  BY <1>9 DEF Collect
<1>10. CASE CallerLocks("lock_stop", "stop")
  BY <1>10 DEF CallerLocks
<1>11. CASE Stop
  BY <1>11 DEF Stop, SignalWorker
<1>12. CASE CallerUnlocks("stopped", "join")
  BY <1>12 DEF CallerUnlocks
<1>13. CASE Join
  BY <1>13 DEF Join
<1>14. CASE CallerSpurious
  BY <1>14 DEF CallerSpurious
<1>15. CASE WorkerLocks("lock", "check")
  BY <1>15 DEF WorkerLocks
<1>16. CASE AwaitRequest
  BY <1>16 DEF AwaitRequest
<1>17. CASE Exit
  BY <1>17 DEF Exit
<1>18. CASE TakeRequest
  BY <1>18 DEF TakeRequest
<1>19. CASE PerformIO
  <2>1. work \in Requests
    BY <1>19 DEF PerformIO
  <2>2. file' \subseteq Requests /\ result' \in {"ok", "error"}
    BY <1>19, <2>1 DEF PerformIO
  <2>3. QED
    BY <1>19, <2>2 DEF PerformIO
<1>20. CASE WorkerLocks("relock", "finish")
  BY <1>20 DEF WorkerLocks
<1>21. CASE FinishRequest
  BY <1>21 DEF FinishRequest
<1>22. CASE WorkerSpurious
  BY <1>22 DEF WorkerSpurious
<1>23. CASE UNCHANGED vars
  BY <1>23 DEF vars
<1>24. QED
  BY <1>0, <1>1, <1>2, <1>3, <1>4, <1>5, <1>6, <1>7, <1>8, <1>9, <1>10, <1>11, <1>12, <1>13, <1>14, <1>15, <1>16, <1>17, <1>18, <1>19, <1>20, <1>21, <1>22, <1>23
  DEF Next, CallerStep, WorkerStep, Finished

\* The request moves from pending to working to done.
LEMMA PhaseStep == IInv /\ [Next]_vars => Phase'
<1> SUFFICES ASSUME IInv PROVE [Next]_vars => Phase'
  OBVIOUS
<1>0. SUFFICES ASSUME [Next]_vars PROVE Phase'
  OBVIOUS
<1> USE HandoffAssumption DEF IInv, TypeOK, Phase, Stopping, Waiting, Working, Requests, vars, shared, callerVars, workerVars
<1>1. CASE CallTransaction
  BY <1>1 DEF CallTransaction
<1>2. CASE StartClockFails
  BY <1>2 DEF StartClockFails
<1>3. CASE CallDestroy
  BY <1>3 DEF CallDestroy
<1>4. CASE CallerLocks("lock_submit", "submit")
  BY <1>4 DEF CallerLocks
<1>5. CASE Submit
  BY <1>5 DEF Submit, SignalWorker
<1>6. CASE CallerUnlocks("submitted", "lock_wait")
  BY <1>6 DEF CallerUnlocks
<1>7. CASE CallerLocks("lock_wait", "check")
  BY <1>7 DEF CallerLocks
<1>8. CASE AwaitDone
  BY <1>8 DEF AwaitDone
<1>9. CASE Collect
  BY <1>9 DEF Collect
<1>10. CASE CallerLocks("lock_stop", "stop")
  BY <1>10 DEF CallerLocks
<1>11. CASE Stop
  BY <1>11 DEF Stop, SignalWorker
<1>12. CASE CallerUnlocks("stopped", "join")
  BY <1>12 DEF CallerUnlocks
<1>13. CASE Join
  BY <1>13 DEF Join
<1>14. CASE CallerSpurious
  BY <1>14 DEF CallerSpurious
<1>15. CASE WorkerLocks("lock", "check")
  BY <1>15 DEF WorkerLocks
<1>16. CASE AwaitRequest
  BY <1>16 DEF AwaitRequest
<1>17. CASE Exit
  BY <1>17 DEF Exit
<1>18. CASE TakeRequest
  BY <1>18 DEF TakeRequest
<1>19. CASE PerformIO
  BY <1>19 DEF PerformIO
<1>20. CASE WorkerLocks("relock", "finish")
  BY <1>20 DEF WorkerLocks
<1>21. CASE FinishRequest
  BY <1>21 DEF FinishRequest
<1>22. CASE WorkerSpurious
  BY <1>22 DEF WorkerSpurious
<1>23. CASE UNCHANGED vars
  BY <1>23 DEF vars
<1>24. QED
  BY <1>0, <1>1, <1>2, <1>3, <1>4, <1>5, <1>6, <1>7, <1>8, <1>9, <1>10, <1>11, <1>12, <1>13, <1>14, <1>15, <1>16, <1>17, <1>18, <1>19, <1>20, <1>21, <1>22, <1>23
  DEF Next, CallerStep, WorkerStep, Finished

\* The request stays the caller's.
LEMMA HandedStep == IInv /\ [Next]_vars => Handed'
<1> SUFFICES ASSUME IInv PROVE [Next]_vars => Handed'
  OBVIOUS
<1>0. SUFFICES ASSUME [Next]_vars PROVE Handed'
  OBVIOUS
<1> USE HandoffAssumption DEF IInv, TypeOK, Phase, Handed, Waiting, Working, Requests, vars, shared, callerVars, workerVars
<1>1. CASE CallTransaction
  BY <1>1 DEF CallTransaction
<1>2. CASE StartClockFails
  BY <1>2 DEF StartClockFails
<1>3. CASE CallDestroy
  BY <1>3 DEF CallDestroy
<1>4. CASE CallerLocks("lock_submit", "submit")
  BY <1>4 DEF CallerLocks
<1>5. CASE Submit
  BY <1>5 DEF Submit, SignalWorker
<1>6. CASE CallerUnlocks("submitted", "lock_wait")
  BY <1>6 DEF CallerUnlocks
<1>7. CASE CallerLocks("lock_wait", "check")
  BY <1>7 DEF CallerLocks
<1>8. CASE AwaitDone
  BY <1>8 DEF AwaitDone
<1>9. CASE Collect
  BY <1>9 DEF Collect
<1>10. CASE CallerLocks("lock_stop", "stop")
  BY <1>10 DEF CallerLocks
<1>11. CASE Stop
  BY <1>11 DEF Stop, SignalWorker
<1>12. CASE CallerUnlocks("stopped", "join")
  BY <1>12 DEF CallerUnlocks
<1>13. CASE Join
  BY <1>13 DEF Join
<1>14. CASE CallerSpurious
  BY <1>14 DEF CallerSpurious
<1>15. CASE WorkerLocks("lock", "check")
  BY <1>15 DEF WorkerLocks
<1>16. CASE AwaitRequest
  BY <1>16 DEF AwaitRequest
<1>17. CASE Exit
  BY <1>17 DEF Exit
<1>18. CASE TakeRequest
  BY <1>18 DEF TakeRequest
<1>19. CASE PerformIO
  BY <1>19 DEF PerformIO
<1>20. CASE WorkerLocks("relock", "finish")
  BY <1>20 DEF WorkerLocks
<1>21. CASE FinishRequest
  BY <1>21 DEF FinishRequest
<1>22. CASE WorkerSpurious
  BY <1>22 DEF WorkerSpurious
<1>23. CASE UNCHANGED vars
  BY <1>23 DEF vars
<1>24. QED
  BY <1>0, <1>1, <1>2, <1>3, <1>4, <1>5, <1>6, <1>7, <1>8, <1>9, <1>10, <1>11, <1>12, <1>13, <1>14, <1>15, <1>16, <1>17, <1>18, <1>19, <1>20, <1>21, <1>22, <1>23
  DEF Next, CallerStep, WorkerStep, Finished

\* The result stays about durable data.
LEMMA ResultsStep == IInv /\ [Next]_vars => Results'
<1> SUFFICES ASSUME IInv PROVE [Next]_vars => Results'
  OBVIOUS
<1>0. SUFFICES ASSUME [Next]_vars PROVE Results'
  OBVIOUS
<1> USE HandoffAssumption DEF IInv, TypeOK, Phase, Handed, Results, Waiting, Working, Requests, vars, shared, callerVars, workerVars
<1>1. CASE CallTransaction
  BY <1>1 DEF CallTransaction
<1>2. CASE StartClockFails
  BY <1>2 DEF StartClockFails
<1>3. CASE CallDestroy
  BY <1>3 DEF CallDestroy
<1>4. CASE CallerLocks("lock_submit", "submit")
  BY <1>4 DEF CallerLocks
<1>5. CASE Submit
  BY <1>5 DEF Submit, SignalWorker
<1>6. CASE CallerUnlocks("submitted", "lock_wait")
  BY <1>6 DEF CallerUnlocks
<1>7. CASE CallerLocks("lock_wait", "check")
  BY <1>7 DEF CallerLocks
<1>8. CASE AwaitDone
  BY <1>8 DEF AwaitDone
<1>9. CASE Collect
  BY <1>9 DEF Collect
<1>10. CASE CallerLocks("lock_stop", "stop")
  BY <1>10 DEF CallerLocks
<1>11. CASE Stop
  BY <1>11 DEF Stop, SignalWorker
<1>12. CASE CallerUnlocks("stopped", "join")
  BY <1>12 DEF CallerUnlocks
<1>13. CASE Join
  BY <1>13 DEF Join
<1>14. CASE CallerSpurious
  BY <1>14 DEF CallerSpurious
<1>15. CASE WorkerLocks("lock", "check")
  BY <1>15 DEF WorkerLocks
<1>16. CASE AwaitRequest
  BY <1>16 DEF AwaitRequest
<1>17. CASE Exit
  BY <1>17 DEF Exit
<1>18. CASE TakeRequest
  BY <1>18 DEF TakeRequest
<1>19. CASE PerformIO
  BY <1>19 DEF PerformIO
<1>20. CASE WorkerLocks("relock", "finish")
  BY <1>20 DEF WorkerLocks
<1>21. CASE FinishRequest
  BY <1>21 DEF FinishRequest
<1>22. CASE WorkerSpurious
  BY <1>22 DEF WorkerSpurious
<1>23. CASE UNCHANGED vars
  BY <1>23 DEF vars
<1>24. QED
  BY <1>0, <1>1, <1>2, <1>3, <1>4, <1>5, <1>6, <1>7, <1>8, <1>9, <1>10, <1>11, <1>12, <1>13, <1>14, <1>15, <1>16, <1>17, <1>18, <1>19, <1>20, <1>21, <1>22, <1>23
  DEF Next, CallerStep, WorkerStep, Finished

\* stop comes last.
LEMMA StoppingStep == IInv /\ [Next]_vars => Stopping'
<1> SUFFICES ASSUME IInv PROVE [Next]_vars => Stopping'
  OBVIOUS
<1>0. SUFFICES ASSUME [Next]_vars PROVE Stopping'
  OBVIOUS
<1> USE HandoffAssumption DEF IInv, TypeOK, Stopping, Waiting, vars, shared, callerVars, workerVars
<1>1. CASE CallTransaction
  BY <1>1 DEF CallTransaction
<1>2. CASE StartClockFails
  BY <1>2 DEF StartClockFails
<1>3. CASE CallDestroy
  BY <1>3 DEF CallDestroy
<1>4. CASE CallerLocks("lock_submit", "submit")
  BY <1>4 DEF CallerLocks
<1>5. CASE Submit
  BY <1>5 DEF Submit, SignalWorker
<1>6. CASE CallerUnlocks("submitted", "lock_wait")
  BY <1>6 DEF CallerUnlocks
<1>7. CASE CallerLocks("lock_wait", "check")
  BY <1>7 DEF CallerLocks
<1>8. CASE AwaitDone
  BY <1>8 DEF AwaitDone
<1>9. CASE Collect
  BY <1>9 DEF Collect
<1>10. CASE CallerLocks("lock_stop", "stop")
  BY <1>10 DEF CallerLocks
<1>11. CASE Stop
  BY <1>11 DEF Stop, SignalWorker
<1>12. CASE CallerUnlocks("stopped", "join")
  BY <1>12 DEF CallerUnlocks
<1>13. CASE Join
  BY <1>13 DEF Join
<1>14. CASE CallerSpurious
  BY <1>14 DEF CallerSpurious
<1>15. CASE WorkerLocks("lock", "check")
  BY <1>15 DEF WorkerLocks
<1>16. CASE AwaitRequest
  BY <1>16 DEF AwaitRequest
<1>17. CASE Exit
  BY <1>17 DEF Exit
<1>18. CASE TakeRequest
  BY <1>18 DEF TakeRequest
<1>19. CASE PerformIO
  BY <1>19 DEF PerformIO
<1>20. CASE WorkerLocks("relock", "finish")
  BY <1>20 DEF WorkerLocks
<1>21. CASE FinishRequest
  BY <1>21 DEF FinishRequest
<1>22. CASE WorkerSpurious
  BY <1>22 DEF WorkerSpurious
<1>23. CASE UNCHANGED vars
  BY <1>23 DEF vars
<1>24. QED
  BY <1>0, <1>1, <1>2, <1>3, <1>4, <1>5, <1>6, <1>7, <1>8, <1>9, <1>10, <1>11, <1>12, <1>13, <1>14, <1>15, <1>16, <1>17, <1>18, <1>19, <1>20, <1>21, <1>22, <1>23
  DEF Next, CallerStep, WorkerStep, Finished

\* What the caller is told ok about is durable.
LEMMA AckedStep == IInv /\ [Next]_vars => AckedIsDurable'
<1> SUFFICES ASSUME IInv PROVE [Next]_vars => AckedIsDurable'
  OBVIOUS
<1>0. SUFFICES ASSUME [Next]_vars PROVE AckedIsDurable'
  OBVIOUS
<1> USE HandoffAssumption DEF IInv, TypeOK, AckedIsDurable, Handed, Results, Waiting, Requests, vars, shared, callerVars, workerVars
<1>1. CASE CallTransaction
  BY <1>1 DEF CallTransaction
<1>2. CASE StartClockFails
  BY <1>2 DEF StartClockFails
<1>3. CASE CallDestroy
  BY <1>3 DEF CallDestroy
<1>4. CASE CallerLocks("lock_submit", "submit")
  BY <1>4 DEF CallerLocks
<1>5. CASE Submit
  BY <1>5 DEF Submit, SignalWorker
<1>6. CASE CallerUnlocks("submitted", "lock_wait")
  BY <1>6 DEF CallerUnlocks
<1>7. CASE CallerLocks("lock_wait", "check")
  BY <1>7 DEF CallerLocks
<1>8. CASE AwaitDone
  BY <1>8 DEF AwaitDone
<1>9. CASE Collect
  BY <1>9 DEF Collect
<1>10. CASE CallerLocks("lock_stop", "stop")
  BY <1>10 DEF CallerLocks
<1>11. CASE Stop
  BY <1>11 DEF Stop, SignalWorker
<1>12. CASE CallerUnlocks("stopped", "join")
  BY <1>12 DEF CallerUnlocks
<1>13. CASE Join
  BY <1>13 DEF Join
<1>14. CASE CallerSpurious
  BY <1>14 DEF CallerSpurious
<1>15. CASE WorkerLocks("lock", "check")
  BY <1>15 DEF WorkerLocks
<1>16. CASE AwaitRequest
  BY <1>16 DEF AwaitRequest
<1>17. CASE Exit
  BY <1>17 DEF Exit
<1>18. CASE TakeRequest
  BY <1>18 DEF TakeRequest
<1>19. CASE PerformIO
  BY <1>19 DEF PerformIO
<1>20. CASE WorkerLocks("relock", "finish")
  BY <1>20 DEF WorkerLocks
<1>21. CASE FinishRequest
  BY <1>21 DEF FinishRequest
<1>22. CASE WorkerSpurious
  BY <1>22 DEF WorkerSpurious
<1>23. CASE UNCHANGED vars
  BY <1>23 DEF vars
<1>24. QED
  BY <1>0, <1>1, <1>2, <1>3, <1>4, <1>5, <1>6, <1>7, <1>8, <1>9, <1>10, <1>11, <1>12, <1>13, <1>14, <1>15, <1>16, <1>17, <1>18, <1>19, <1>20, <1>21, <1>22, <1>23
  DEF Next, CallerStep, WorkerStep, Finished

\* The strengthened invariant holds in every reachable state.
THEOREM Invariance == Spec => []IInv
<1>1. IInv /\ [Next]_vars => IInv'
  BY TypeStep, PhaseStep, HandedStep, ResultsStep, StoppingStep, AckedStep DEF IInv
<1>2. QED
  BY InitIInv, <1>1, PTL DEF Spec

\* The engine's variables keep their types and the mutex is held where it should be.
THEOREM TypeCorrect == Spec => []TypeOK
<1>1. IInv => TypeOK
  BY DEF IInv
<1>2. QED
  BY Invariance, <1>1, PTL

\* transaction returns 0 only about durable data, for any number of transactions.
THEOREM Durability == Spec => []AckedIsDurable
<1>1. IInv => AckedIsDurable
  BY DEF IInv
<1>2. QED
  BY Invariance, <1>1, PTL

\* The worker uses a request only while its caller is inside the transaction.
THEOREM BufferIsAlive == Spec => []WorkIsAwaited
<1>1. IInv => WorkIsAwaited
  BY DEF IInv, Phase, Handed, Working, WorkIsAwaited
<1>2. QED
  BY Invariance, <1>1, PTL

-------------------------------------------------------------------------------
(* The engine implements the durable queue of capacity one. *)

\* A step that leaves the mapped state alone is a stutter of the queue.
LEMMA Stutter ==
  ASSUME UNCHANGED <<next, file, told>>,
         Waiting' = Waiting,
         Waiting => done' = done,
         (wpc' = "exited") = (wpc = "exited")
  PROVE  UNCHANGED Abstract!qvars
  BY DEF Abstract!qvars

LEMMA StepRefines ==
  ASSUME IInv, IInv'
  PROVE  [Next]_vars => [Abstract!QNext]_(Abstract!qvars)
<1>0. SUFFICES ASSUME [Next]_vars
               PROVE  Abstract!QNext \/ UNCHANGED Abstract!qvars
  OBVIOUS
<1> USE HandoffAssumption DEF vars, shared, callerVars, workerVars
<1>1. CASE CallTransaction
  BY <1>1, Stutter DEF CallTransaction, Waiting
<1>2. CASE StartClockFails
  BY <1>2, Stutter DEF StartClockFails, Waiting
<1>3. CASE CallDestroy
  BY <1>3, Stutter DEF CallDestroy, Waiting
<1>4. CASE CallerLocks("lock_submit", "submit")
  BY <1>4, Stutter DEF CallerLocks, Waiting
<1>5. CASE Submit
  <2>1. ~Waiting /\ Waiting' /\ ~done' /\ next < N /\ next \in Nat
    BY <1>5 DEF Submit, Waiting, IInv, TypeOK, Handed
  <2>2. wpc # "exited" /\ wpc' # "exited"
    BY <1>5 DEF Submit, SignalWorker, IInv, Stopping, TypeOK
  <2>3. Abstract!Admit
    BY <1>5, <2>1, <2>2 DEF Submit, Abstract!Admit
  <2>4. QED
    BY <2>3 DEF Abstract!QNext
<1>6. CASE CallerUnlocks("submitted", "lock_wait")
  BY <1>6, Stutter DEF CallerUnlocks, Waiting
<1>7. CASE CallerLocks("lock_wait", "check")
  BY <1>7, Stutter DEF CallerLocks, Waiting
<1>8. CASE AwaitDone
  BY <1>8, Stutter DEF AwaitDone, Waiting
<1>9. CASE Collect
  <2>1. /\ Waiting /\ done /\ next < N /\ next \in Nat /\ next \in Requests
        /\ ~Waiting' /\ told[next] = "nothing"
        /\ worker_error = "ok" => next \in file
    BY <1>9 DEF Collect, IInv, TypeOK, Handed, Results, Waiting, Requests
  <2>2. PICK timing \in {"ok", "error"} :
          told' = [told EXCEPT ![next] = IF worker_error = "ok" THEN timing ELSE worker_error]
    BY <1>9 DEF Collect
  <2>3. PICK answer \in {"ok", "error"} :
          /\ told' = [told EXCEPT ![next] = answer]
          /\ answer = "ok" => worker_error = "ok"
    BY <2>2 DEF IInv, TypeOK
  <2>4. next' = next + 1 /\ UNCHANGED <<done, file, wpc>>
    BY <1>9 DEF Collect
  <2>5. answer = "ok" => next \in file
    BY <2>1, <2>3
  <2>6. Abstract!Tell(next, answer)
    BY <2>1, <2>3, <2>4, <2>5 DEF Abstract!Tell
  <2>7. next \in Abstract!QRequests
    BY <2>1 DEF Abstract!QRequests, Requests
  <2>8. QED
    BY <2>3, <2>6, <2>7 DEF Abstract!QNext
<1>10. CASE CallerLocks("lock_stop", "stop")
  BY <1>10, Stutter DEF CallerLocks, Waiting
<1>11. CASE Stop
  BY <1>11, Stutter DEF Stop, SignalWorker, Waiting
<1>12. CASE CallerUnlocks("stopped", "join")
  BY <1>12, Stutter DEF CallerUnlocks, Waiting
<1>13. CASE Join
  BY <1>13, Stutter DEF Join, Waiting
<1>14. CASE CallerSpurious
  BY <1>14, Stutter DEF CallerSpurious, Waiting
<1>15. CASE WorkerLocks("lock", "check")
  BY <1>15, Stutter DEF WorkerLocks, Waiting
<1>16. CASE AwaitRequest
  BY <1>16, Stutter DEF AwaitRequest, Waiting
<1>17. CASE Exit
  <2>1. ~Waiting /\ ~Waiting' /\ wpc # "exited" /\ wpc' = "exited"
    BY <1>17 DEF Exit, IInv, TypeOK, Stopping, Waiting
  <2>2. Abstract!Close
    BY <1>17, <2>1 DEF Exit, Abstract!Close
  <2>3. QED
    BY <2>2 DEF Abstract!QNext
<1>18. CASE TakeRequest
  BY <1>18, Stutter DEF TakeRequest, Waiting
<1>19. CASE PerformIO
  <2>1. /\ Waiting /\ ~done /\ work = next /\ next < N /\ next \in Nat
        /\ Waiting' /\ wpc' # "exited" /\ wpc # "exited"
    BY <1>19 DEF PerformIO, IInv, TypeOK, Phase, Handed, Waiting, Working
  <2>2. CASE file' = file
    BY <1>19, <2>1, <2>2, Stutter DEF PerformIO
  <2>3. CASE file' = file \cup {work}
    <3>1. \E n \in 0 .. next : n < next + 1 /\ file' = file \cup {n}
      BY <2>1, <2>3
    <3>2. Abstract!Persist
      BY <1>19, <2>1, <3>1 DEF PerformIO, Abstract!Persist
    <3>3. QED
      BY <3>2 DEF Abstract!QNext
  <2>4. QED
    BY <1>19, <2>2, <2>3 DEF PerformIO
<1>20. CASE WorkerLocks("relock", "finish")
  BY <1>20, Stutter DEF WorkerLocks, Waiting
<1>21. CASE FinishRequest
  <2>1. /\ Waiting /\ ~done /\ next \in Nat
        /\ Waiting' /\ done' /\ wpc' # "exited" /\ wpc # "exited"
    BY <1>21 DEF FinishRequest, IInv, TypeOK, Phase, Waiting, Working
  <2>2. Abstract!Finish
    BY <1>21, <2>1 DEF FinishRequest, Abstract!Finish
  <2>3. QED
    BY <2>2 DEF Abstract!QNext
<1>22. CASE WorkerSpurious
  BY <1>22, Stutter DEF WorkerSpurious, Waiting
<1>23. CASE UNCHANGED vars
  BY <1>23, Stutter DEF Waiting
<1> HIDE DEF vars
<1>24. QED
  BY <1>0, <1>1, <1>2, <1>3, <1>4, <1>5, <1>6, <1>7, <1>8, <1>9, <1>10, <1>11, <1>12, <1>13, <1>14, <1>15, <1>16, <1>17, <1>18, <1>19, <1>20, <1>21, <1>22, <1>23
  DEF Next, CallerStep, WorkerStep, Finished

\* The mutex engine implements the durable queue of capacity one.
THEOREM Refinement == Spec => ImplementsDurableQueue
<1>1. Init => Abstract!QInit
  BY HandoffAssumption DEF Init, Abstract!QInit, Abstract!QRequests, Requests, Waiting
<1>2. IInv /\ IInv' /\ [Next]_vars => [Abstract!QNext]_(Abstract!qvars)
  BY StepRefines
<1>3. QED
  BY <1>1, <1>2, Invariance, PTL DEF Spec, ImplementsDurableQueue, Abstract!QSpec
===============================================================================
