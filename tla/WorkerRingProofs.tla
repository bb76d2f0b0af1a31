--------------------------- MODULE WorkerRingProofs ---------------------------
(***************************************************************************)
(* Proofs about WorkerRing for every number of slots, requests and         *)
(* completion records, every event width, and every gate.                  *)
(***************************************************************************)
EXTENDS WorkerRing, TLAPS

-------------------------------------------------------------------------------
(* The inductive invariant. *)

Submitting == mode \in {"once", "first", "loop"}
Waiting == mode \in {"poll", "wait"}

\* Admission never overruns the ring, the worker works only on admitted requests.
Counters ==
  /\ completed <= submitted
  /\ submitted <= completed + Slots
  /\ ppc \in {"fill", "publish"} => submitted < completed + Slots
  /\ wpc \in {"take", "io", "report", "finish", "release"} => completed < submitted

\* What the producer is doing to which completion.
ProducerCall ==
  /\ ppc \in {"try", "fill", "publish", "bump", "check", "wake"} => Submitting
  /\ ppc \in {"test", "reap"} => Waiting
  /\ ppc = "register" => mode \in {"first", "poll"}
  /\ ppc \in {"snapshot", "sleep", "asleep", "unregister"} => mode \in {"loop", "wait"}
  /\ \/ ppc \in {"try", "fill"}
     \/ ppc \in {"register", "snapshot", "sleep", "asleep"} /\ Submitting
     => /\ pcomp \in Completions
        /\ submitted < N
        /\ owner[pcomp] = None
        /\ buffer[pcomp] = submitted
  /\ ppc = "publish" =>
        /\ pcomp \in Completions
        /\ submitted < N
  /\ ppc \in {"test", "register", "snapshot", "sleep", "asleep", "unregister", "reap"}
     /\ Waiting => pcomp \in Completions /\ owner[pcomp] # None
  /\ ppc = "reap" \/ (ppc = "unregister" /\ mode = "wait") => done[pcomp]

\* The requests whose slots are filled and not yet done.
FirstLive == IF wpc = "release" THEN completed + 1 ELSE completed
LiveEnd == IF ppc = "publish" THEN submitted + 1 ELSE submitted
Live(n) == FirstLive <= n /\ n < LiveEnd

\* A live request sits in its slot with its own completion and its own data.
LiveSlot(n) ==
  /\ slots[SlotOf(n)].req = n
  /\ slots[SlotOf(n)].comp \in Completions
  /\ owner[slots[SlotOf(n)].comp] = n
  /\ buffer[slots[SlotOf(n)].comp] = n
  /\ ~done[slots[SlotOf(n)].comp]
LiveSlots == \A n \in Requests : Live(n) => LiveSlot(n)

\* An outstanding completion is of a filled request; it is done or still live
\* in its slot; no two are of the same request; nobody was told its result.
Outstandings ==
  \A c \in Completions : owner[c] # None =>
    /\ owner[c] < LiveEnd
    /\ done[c] \/ Live(owner[c])
    /\ done[c] => owner[c] < FirstLive
    /\ told[owner[c]] = "nothing"
    /\ \A d \in Completions : owner[d] = owner[c] => d = c

\* The worker's copy is the slot of the request it is at.
WorkerSlot ==
  /\ wpc \in {"io", "report", "finish"} => slot = slots[SlotOf(completed)]
  /\ wpc \in {"report", "finish"} /\ result = "ok" => file[completed] = completed
  /\ wpc = "finish" => error[slot.comp] = result

\* A published "ok" is true, and so is every "ok" the caller was told.
Results ==
  /\ \A c \in Completions :
       owner[c] # None /\ done[c] /\ error[c] = "ok" => file[owner[c]] = owner[c]
  /\ \A n \in Requests :
       /\ told[n] = "ok" => file[n] = n
       /\ file[n] \in {None, n}
       /\ n >= submitted => told[n] = "nothing"

\* Once stopping is visible the caller has nothing left to do but to join.
\* A caller that reaps first has nothing outstanding then, or the worker was
\* held at its gate and sees all that was admitted.
Stopped ==
  /\ stop => stopping
  /\ wpc = "exited" => stopping
  /\ stopping <=> ppc \in {"stop_bump", "stop_wake", "join", "joined"}
  /\ ppc = "joined" => wpc = "exited"
  /\ gate # "open" => wpc = "gate"
  /\ wpc = "exited" => head = completed
  /\ stopping /\ ReapFirst =>
        Outstanding = {} \/ wpc \in {"gate", "load"} \/ head = submitted

IInv ==
  /\ TypeOK
  /\ Counters
  /\ ProducerCall
  /\ LiveSlots
  /\ Outstandings
  /\ WorkerSlot
  /\ Results
  /\ Stopped

-------------------------------------------------------------------------------
(* Arithmetic of the ring. *)

\* An event word stays below its modulus.
LEMMA BumpType == ASSUME NEW e \in Nat PROVE Bump(e) \in 0 .. EventMod - 1
  BY RingAssumption DEF Bump

\* A request number maps into the ring.
LEMMA SlotType == ASSUME NEW n \in Nat PROVE SlotOf(n) \in 0 .. Slots - 1
  BY RingAssumption DEF SlotOf

\* Two requests less than one lap apart have different slots.
LEMMA SlotDistinct ==
  ASSUME NEW a \in Nat, NEW b \in Nat, a < b, b < a + Slots
  PROVE  SlotOf(a) # SlotOf(b)
<1> SUFFICES ASSUME SlotOf(a) = SlotOf(b) PROVE FALSE
  OBVIOUS
<1> DEFINE qa == a \div Slots
           qb == b \div Slots
<1>1. /\ qa \in Int /\ qb \in Int
      /\ a = (Slots * qa) + (a % Slots)
      /\ b = (Slots * qb) + (b % Slots)
  BY RingAssumption
<1>2. b - a = (Slots * qb) - (Slots * qa)
  BY <1>1, RingAssumption DEF SlotOf
<1>3. b - a = Slots * (qb - qa)
  BY <1>1, <1>2, RingAssumption
<1> HIDE DEF qa, qb
<1>4. PICK k \in Int : k = qb - qa
  BY <1>1
<1>5. CASE k <= 0
  <2>1. Slots * k <= 0
    BY <1>5, RingAssumption
  <2>2. QED
    BY <2>1, <1>3, <1>4
<1>6. CASE k >= 1
  <2>1. Slots * k >= Slots
    BY <1>6, RingAssumption
  <2>2. QED
    BY <2>1, <1>3, <1>4, RingAssumption
<1>7. QED
  BY <1>5, <1>6

-------------------------------------------------------------------------------
(* Each conjunct of the invariant is preserved. *)

\* What the worker holds while it works on a request.
LEMMA WorkerAt ==
  ASSUME IInv, wpc \in {"io", "report", "finish"}
  PROVE  /\ completed \in Requests /\ Live(completed)
         /\ slot = slots[SlotOf(completed)]
         /\ slot.req = completed
         /\ slot.comp \in Completions
         /\ owner[slot.comp] = completed
         /\ buffer[slot.comp] = completed
         /\ ~done[slot.comp]
<1>1. completed \in Requests /\ Live(completed)
  BY RingAssumption DEF IInv, TypeOK, Counters, Live, FirstLive, LiveEnd, Requests
<1>2. slot = slots[SlotOf(completed)]
  BY DEF IInv, WorkerSlot
<1>3. QED
  BY <1>1, <1>2 DEF IInv, LiveSlots, LiveSlot

\* Types.
LEMMA TypeStep ==
  ASSUME IInv
  PROVE  [Next]_vars => TypeOK'
<1>0. SUFFICES ASSUME [Next]_vars PROVE TypeOK'
  OBVIOUS
<1> USE RingAssumption DEF vars, producerVars, workerVars, ring, signals, locals, caller, ioVars, IInv, TypeOK, Counters, ProducerCall, Submitting, Waiting, ProducerPC, WorkerPC, SlotContent, Requests, None, IsFull
<1>1. ASSUME NEW c \in Completions, NEW m \in {"once", "first"}, CallSubmit(c, m),
              UNCHANGED <<workerVars, gate, wpc>>
       PROVE  TypeOK'
  BY <1>1 DEF CallSubmit
<1>2. ASSUME NEW c \in Completions, CallWait(c), UNCHANGED <<workerVars, gate, wpc>>
       PROVE  TypeOK'
  BY <1>2 DEF CallWait
<1>3. CASE CallDestroy /\ UNCHANGED <<workerVars, gate, wpc>>
  BY <1>3 DEF CallDestroy
<1>4. CASE TryFull /\ UNCHANGED <<workerVars, gate, wpc>>
  BY <1>4, SMTT(30) DEF TryFull
<1>5. CASE TryRoom /\ UNCHANGED <<workerVars, gate, wpc>>
  BY <1>5 DEF TryRoom
<1>6. CASE FillSlot /\ UNCHANGED <<workerVars, gate, wpc>>
  <2>1. done' \in [Completions -> BOOLEAN]
    BY <1>6, Zenon DEF FillSlot
  <2>2. [req |-> submitted, comp |-> pcomp] \in SlotContent
    BY <1>6 DEF FillSlot
  <2>3. slots' \in [0 .. Slots - 1 -> SlotContent]
    BY <1>6, <2>2, SlotType DEF FillSlot
  <2>4. QED
    BY <1>6, <2>1, <2>3 DEF FillSlot
<1>7. CASE Publish /\ UNCHANGED <<workerVars, gate, wpc>>
  BY <1>7 DEF Publish
<1>8. CASE BumpRequest /\ UNCHANGED <<workerVars, gate, wpc>>
  <2>1. request_event \in Nat
    OBVIOUS
  <2>2. request_event' \in 0 .. EventMod - 1
    BY <1>8, <2>1, BumpType DEF BumpRequest
  <2>3. QED
    BY <1>8, <2>2 DEF BumpRequest
<1>9. CASE CheckRequestWaiting /\ UNCHANGED <<workerVars, gate, wpc>>
  BY <1>9, SMTT(30) DEF CheckRequestWaiting, AfterSubmit
<1>10. CASE TestDone /\ UNCHANGED <<workerVars, gate, wpc>>
  BY <1>10, SMTT(30) DEF TestDone
<1>11. CASE Register /\ UNCHANGED <<workerVars, gate, wpc>>
  BY <1>11 DEF Register
<1>12. CASE Snapshot /\ UNCHANGED <<workerVars, gate, wpc>>
  BY <1>12 DEF Snapshot
<1>13. CASE FutexWait /\ UNCHANGED <<workerVars, gate, wpc>>
  BY <1>13 DEF FutexWait
<1>14. CASE Unregister /\ UNCHANGED <<workerVars, gate, wpc>>
  <2>1. completion_waiting' \in BOOLEAN
    BY <1>14, Zenon DEF Unregister
  <2>2. QED
    BY <2>1, <1>14 DEF Unregister
<1>15. CASE Reap /\ UNCHANGED <<workerVars, gate, wpc>>
  BY <1>15 DEF Reap
<1>16. CASE StopBump /\ UNCHANGED <<workerVars, gate, wpc>>
  <2>1. request_event \in Nat
    OBVIOUS
  <2>2. request_event' \in 0 .. EventMod - 1
    BY <1>16, <2>1, BumpType DEF StopBump
  <2>3. QED
    BY <1>16, <2>2 DEF StopBump
<1>17. CASE Join /\ UNCHANGED <<workerVars, gate, wpc>>
  BY <1>17 DEF Join
<1>18. CASE SpuriousReturn /\ UNCHANGED <<workerVars, gate, wpc>>
  BY <1>18 DEF SpuriousReturn
<1>19. CASE WakeWorker
  BY <1>19 DEF WakeWorker, AfterSubmit
<1>20. CASE PassGate /\ UNCHANGED <<producerVars, gate, ppc>>
  BY <1>20 DEF PassGate
<1>21. CASE LoadHead /\ UNCHANGED <<producerVars, gate, ppc>>
  BY <1>21 DEF LoadHead
<1>22. CASE Announce /\ UNCHANGED <<producerVars, gate, ppc>>
  BY <1>22 DEF Announce
<1>23. CASE SnapshotRequest /\ UNCHANGED <<producerVars, gate, ppc>>
  BY <1>23 DEF SnapshotRequest
<1>24. CASE RecheckHead /\ UNCHANGED <<producerVars, gate, ppc>>
  BY <1>24 DEF RecheckHead
<1>25. CASE LoadStopping /\ UNCHANGED <<producerVars, gate, ppc>>
  BY <1>25 DEF LoadStopping
<1>26. CASE WorkerFutexWait /\ UNCHANGED <<producerVars, gate, ppc>>
  BY <1>26 DEF WorkerFutexWait
<1>27. CASE UnregisterWorker /\ UNCHANGED <<producerVars, gate, ppc>>
  <2>1. request_waiting' \in BOOLEAN
    BY <1>27, Zenon DEF UnregisterWorker
  <2>2. QED
    BY <2>1, <1>27 DEF UnregisterWorker
<1>28. CASE Take /\ UNCHANGED <<producerVars, gate, ppc>>
  <2>1. SlotOf(completed) \in 0 .. Slots - 1
    <3>1. completed \in Nat
      OBVIOUS
    <3> HIDE DEF IInv
    <3>2. QED
      BY ONLY <3>1, SlotType
  <2>2. slot' \in SlotContent
    BY <1>28, <2>1 DEF Take
  <2>3. QED
    BY <1>28, <2>2 DEF Take
<1>29. CASE PerformIO /\ UNCHANGED <<producerVars, gate, ppc>>
  <2>0. slot.comp \in Completions
    BY <1>29, WorkerAt DEF PerformIO
  <2>1. file' \in [Requests -> Requests \cup {None}]
    <3> HIDE RingAssumption DEF TypeOK, Requests, ProducerPC, WorkerPC, SlotContent
    <3>1. file \in [Requests -> Requests \cup {None}] /\ buffer[slot.comp] \in Requests \cup {None}
      BY <2>0 DEF TypeOK
    <3>2. file' = [file EXCEPT ![slot.req] = buffer[slot.comp]] \/ file' = file
      BY <1>29 DEF PerformIO
    <3>3. QED
      BY <3>1, <3>2
  <2>2. QED
    BY <1>29, <2>1 DEF PerformIO
<1>30. CASE Report /\ UNCHANGED <<producerVars, gate, ppc>>
  <2>1. error' \in [Completions -> {"ok", "error"}]
    BY <1>30 DEF Report
  <2>2. QED
    BY <1>30, <2>1 DEF Report
<1>31. CASE Release /\ UNCHANGED <<producerVars, gate, ppc>>
  BY <1>31 DEF Release
<1>32. CASE BumpCompletion /\ UNCHANGED <<producerVars, gate, ppc>>
  <2>1. completion_event \in Nat
    BY RingAssumption DEF IInv, TypeOK
  <2>2. completion_event' \in 0 .. EventMod - 1
    BY <1>32, <2>1, BumpType DEF BumpCompletion
  <2>3. QED
    BY <1>32, <2>2 DEF BumpCompletion
<1>33. CASE CheckCompletionWaiting /\ UNCHANGED <<producerVars, gate, ppc>>
  BY <1>33 DEF CheckCompletionWaiting
<1>34. CASE WorkerSpuriousReturn /\ UNCHANGED <<producerVars, gate, ppc>>
  BY <1>34 DEF WorkerSpuriousReturn
<1>35. CASE SetDone
  <2>1. done' \in [Completions -> BOOLEAN]
    BY <1>35, Zenon DEF SetDone
  <2>2. QED
    BY <2>1, <1>35 DEF SetDone
<1>36. CASE WakeProducer
  BY <1>36 DEF WakeProducer
<1>37. CASE OpenGate
  BY <1>37 DEF OpenGate
<1>38. CASE UNCHANGED vars
  BY <1>38 DEF TypeOK
<1> HIDE DEF vars, producerVars, workerVars, ring, signals, locals, caller, ioVars, IInv, TypeOK, Counters, ProducerCall, Submitting, Waiting, ProducerPC, WorkerPC, SlotContent, Requests, None, IsFull
<1>39. QED
  BY <1>0, <1>1, <1>2, <1>3, <1>4, <1>5, <1>6, <1>7, <1>8, <1>9, <1>10, <1>11, <1>12, <1>13, <1>14, <1>15, <1>16, <1>17, <1>18, <1>19, <1>20, <1>21, <1>22, <1>23, <1>24, <1>25, <1>26, <1>27, <1>28, <1>29, <1>30, <1>31, <1>32, <1>33, <1>34, <1>35, <1>36, <1>37, <1>38
  DEF Next, Client, ProducerStep, WorkerStep, Interrupts, Finished

\* Counters.
LEMMA CountersStep ==
  ASSUME IInv
  PROVE  [Next]_vars => Counters'
<1>0. SUFFICES ASSUME [Next]_vars PROVE Counters'
  OBVIOUS
<1> USE RingAssumption DEF vars, producerVars, workerVars, ring, signals, locals, caller, ioVars, IInv, TypeOK, Counters, ProducerCall, Submitting, Waiting, IsFull, None
<1>1. ASSUME NEW c \in Completions, NEW m \in {"once", "first"}, CallSubmit(c, m),
              UNCHANGED <<workerVars, gate, wpc>>
       PROVE  Counters'
  BY <1>1 DEF CallSubmit
<1>2. ASSUME NEW c \in Completions, CallWait(c), UNCHANGED <<workerVars, gate, wpc>>
       PROVE  Counters'
  BY <1>2 DEF CallWait
<1>3. CASE CallDestroy /\ UNCHANGED <<workerVars, gate, wpc>>
  BY <1>3 DEF CallDestroy
<1>4. CASE TryFull /\ UNCHANGED <<workerVars, gate, wpc>>
  <2>1. CASE mode = "once"
    BY <1>4, <2>1 DEF TryFull
  <2>2. CASE mode = "first"
    BY <1>4, <2>2 DEF TryFull
  <2>3. CASE mode = "loop"
    BY <1>4, <2>3 DEF TryFull
  <2>4. QED
    BY <1>4, <2>1, <2>2, <2>3 DEF TryFull
<1>5. CASE TryRoom /\ UNCHANGED <<workerVars, gate, wpc>>
  BY <1>5 DEF TryRoom
<1>6. CASE FillSlot /\ UNCHANGED <<workerVars, gate, wpc>>
  BY <1>6 DEF FillSlot
<1>7. CASE Publish /\ UNCHANGED <<workerVars, gate, wpc>>
  BY <1>7 DEF Publish
<1>8. CASE BumpRequest /\ UNCHANGED <<workerVars, gate, wpc>>
  BY <1>8 DEF BumpRequest
<1>9. CASE CheckRequestWaiting /\ UNCHANGED <<workerVars, gate, wpc>>
  BY <1>9 DEF CheckRequestWaiting, AfterSubmit
<1>10. CASE TestDone /\ UNCHANGED <<workerVars, gate, wpc>>
  <2>1. CASE mode = "poll" /\ done[pcomp]
    BY <1>10, <2>1 DEF TestDone
  <2>2. CASE mode = "wait" /\ done[pcomp]
    BY <1>10, <2>2 DEF TestDone
  <2>3. CASE mode = "poll" /\ ~done[pcomp]
    BY <1>10, <2>3 DEF TestDone
  <2>4. CASE mode = "wait" /\ ~done[pcomp]
    BY <1>10, <2>4 DEF TestDone
  <2>5. QED
    BY <1>10, <2>1, <2>2, <2>3, <2>4 DEF TestDone
<1>11. CASE Register /\ UNCHANGED <<workerVars, gate, wpc>>
  BY <1>11 DEF Register
<1>12. CASE Snapshot /\ UNCHANGED <<workerVars, gate, wpc>>
  BY <1>12 DEF Snapshot
<1>13. CASE FutexWait /\ UNCHANGED <<workerVars, gate, wpc>>
  BY <1>13 DEF FutexWait
<1>14. CASE Unregister /\ UNCHANGED <<workerVars, gate, wpc>>
  BY <1>14 DEF Unregister
<1>15. CASE Reap /\ UNCHANGED <<workerVars, gate, wpc>>
  BY <1>15 DEF Reap
<1>16. CASE StopBump /\ UNCHANGED <<workerVars, gate, wpc>>
  BY <1>16 DEF StopBump
<1>17. CASE Join /\ UNCHANGED <<workerVars, gate, wpc>>
  BY <1>17 DEF Join
<1>18. CASE SpuriousReturn /\ UNCHANGED <<workerVars, gate, wpc>>
  BY <1>18 DEF SpuriousReturn
<1>19. CASE WakeWorker
  BY <1>19 DEF WakeWorker, AfterSubmit
<1>20. CASE PassGate /\ UNCHANGED <<producerVars, gate, ppc>>
  BY <1>20 DEF PassGate
<1>21. CASE LoadHead /\ UNCHANGED <<producerVars, gate, ppc>>
  BY <1>21 DEF LoadHead
<1>22. CASE Announce /\ UNCHANGED <<producerVars, gate, ppc>>
  BY <1>22 DEF Announce
<1>23. CASE SnapshotRequest /\ UNCHANGED <<producerVars, gate, ppc>>
  BY <1>23 DEF SnapshotRequest
<1>24. CASE RecheckHead /\ UNCHANGED <<producerVars, gate, ppc>>
  BY <1>24 DEF RecheckHead
<1>25. CASE LoadStopping /\ UNCHANGED <<producerVars, gate, ppc>>
  BY <1>25 DEF LoadStopping
<1>26. CASE WorkerFutexWait /\ UNCHANGED <<producerVars, gate, ppc>>
  BY <1>26 DEF WorkerFutexWait
<1>27. CASE UnregisterWorker /\ UNCHANGED <<producerVars, gate, ppc>>
  BY <1>27 DEF UnregisterWorker
<1>28. CASE Take /\ UNCHANGED <<producerVars, gate, ppc>>
  BY <1>28 DEF Take
<1>29. CASE PerformIO /\ UNCHANGED <<producerVars, gate, ppc>>
  BY <1>29 DEF PerformIO
<1>30. CASE Report /\ UNCHANGED <<producerVars, gate, ppc>>
  BY <1>30 DEF Report
<1>31. CASE Release /\ UNCHANGED <<producerVars, gate, ppc>>
  BY <1>31 DEF Release
<1>32. CASE BumpCompletion /\ UNCHANGED <<producerVars, gate, ppc>>
  BY <1>32 DEF BumpCompletion
<1>33. CASE CheckCompletionWaiting /\ UNCHANGED <<producerVars, gate, ppc>>
  BY <1>33 DEF CheckCompletionWaiting
<1>34. CASE WorkerSpuriousReturn /\ UNCHANGED <<producerVars, gate, ppc>>
  BY <1>34 DEF WorkerSpuriousReturn
<1>35. CASE SetDone
  BY <1>35 DEF SetDone
<1>36. CASE WakeProducer
  BY <1>36 DEF WakeProducer
<1>37. CASE OpenGate
  BY <1>37 DEF OpenGate
<1>38. CASE UNCHANGED vars
  BY <1>38 DEF TypeOK
<1> HIDE DEF vars, producerVars, workerVars, ring, signals, locals, caller, ioVars, IInv, TypeOK, Counters, ProducerCall, Submitting, Waiting, IsFull, None
<1>39. QED
  BY <1>0, <1>1, <1>2, <1>3, <1>4, <1>5, <1>6, <1>7, <1>8, <1>9, <1>10, <1>11, <1>12, <1>13, <1>14, <1>15, <1>16, <1>17, <1>18, <1>19, <1>20, <1>21, <1>22, <1>23, <1>24, <1>25, <1>26, <1>27, <1>28, <1>29, <1>30, <1>31, <1>32, <1>33, <1>34, <1>35, <1>36, <1>37, <1>38
  DEF Next, Client, ProducerStep, WorkerStep, Interrupts, Finished

\* The producer's call.
LEMMA CallStep ==
  ASSUME IInv
  PROVE  [Next]_vars => ProducerCall'
<1>0. SUFFICES ASSUME [Next]_vars PROVE ProducerCall'
  OBVIOUS
<1> USE RingAssumption DEF vars, producerVars, workerVars, ring, signals, locals, caller, ioVars, IInv, TypeOK, Counters, ProducerCall, Submitting, Waiting, IsFull, None
<1>1. ASSUME NEW c \in Completions, NEW m \in {"once", "first"}, CallSubmit(c, m),
              UNCHANGED <<workerVars, gate, wpc>>
       PROVE  ProducerCall'
  BY <1>1 DEF CallSubmit
<1>2. ASSUME NEW c \in Completions, CallWait(c), UNCHANGED <<workerVars, gate, wpc>>
       PROVE  ProducerCall'
  BY <1>2 DEF CallWait
<1>3. CASE CallDestroy /\ UNCHANGED <<workerVars, gate, wpc>>
  BY <1>3 DEF CallDestroy
<1>4. CASE TryFull /\ UNCHANGED <<workerVars, gate, wpc>>
  <2>1. CASE mode = "once"
    BY <1>4, <2>1 DEF TryFull
  <2>2. CASE mode = "first"
    BY <1>4, <2>2 DEF TryFull
  <2>3. CASE mode = "loop"
    BY <1>4, <2>3 DEF TryFull
  <2>4. QED
    BY <1>4, <2>1, <2>2, <2>3 DEF TryFull
<1>5. CASE TryRoom /\ UNCHANGED <<workerVars, gate, wpc>>
  BY <1>5 DEF TryRoom
<1>6. CASE FillSlot /\ UNCHANGED <<workerVars, gate, wpc>>
  BY <1>6 DEF FillSlot
<1>7. CASE Publish /\ UNCHANGED <<workerVars, gate, wpc>>
  BY <1>7 DEF Publish
<1>8. CASE BumpRequest /\ UNCHANGED <<workerVars, gate, wpc>>
  BY <1>8 DEF BumpRequest
<1>9. CASE CheckRequestWaiting /\ UNCHANGED <<workerVars, gate, wpc>>
  BY <1>9 DEF CheckRequestWaiting, AfterSubmit
<1>10. CASE TestDone /\ UNCHANGED <<workerVars, gate, wpc>>
  <2>1. CASE mode = "poll" /\ done[pcomp]
    BY <1>10, <2>1 DEF TestDone
  <2>2. CASE mode = "wait" /\ done[pcomp]
    BY <1>10, <2>2 DEF TestDone
  <2>3. CASE mode = "poll" /\ ~done[pcomp]
    BY <1>10, <2>3 DEF TestDone
  <2>4. CASE mode = "wait" /\ ~done[pcomp]
    BY <1>10, <2>4 DEF TestDone
  <2>5. QED
    BY <1>10, <2>1, <2>2, <2>3, <2>4 DEF TestDone
<1>11. CASE Register /\ UNCHANGED <<workerVars, gate, wpc>>
  BY <1>11 DEF Register
<1>12. CASE Snapshot /\ UNCHANGED <<workerVars, gate, wpc>>
  BY <1>12 DEF Snapshot
<1>13. CASE FutexWait /\ UNCHANGED <<workerVars, gate, wpc>>
  BY <1>13 DEF FutexWait
<1>14. CASE Unregister /\ UNCHANGED <<workerVars, gate, wpc>>
  BY <1>14 DEF Unregister
<1>15. CASE Reap /\ UNCHANGED <<workerVars, gate, wpc>>
  BY <1>15 DEF Reap
<1>16. CASE StopBump /\ UNCHANGED <<workerVars, gate, wpc>>
  BY <1>16 DEF StopBump
<1>17. CASE Join /\ UNCHANGED <<workerVars, gate, wpc>>
  BY <1>17 DEF Join
<1>18. CASE SpuriousReturn /\ UNCHANGED <<workerVars, gate, wpc>>
  BY <1>18 DEF SpuriousReturn
<1>19. CASE WakeWorker
  BY <1>19 DEF WakeWorker, AfterSubmit
<1>20. CASE PassGate /\ UNCHANGED <<producerVars, gate, ppc>>
  BY <1>20 DEF PassGate
<1>21. CASE LoadHead /\ UNCHANGED <<producerVars, gate, ppc>>
  BY <1>21 DEF LoadHead
<1>22. CASE Announce /\ UNCHANGED <<producerVars, gate, ppc>>
  BY <1>22 DEF Announce
<1>23. CASE SnapshotRequest /\ UNCHANGED <<producerVars, gate, ppc>>
  BY <1>23 DEF SnapshotRequest
<1>24. CASE RecheckHead /\ UNCHANGED <<producerVars, gate, ppc>>
  BY <1>24 DEF RecheckHead
<1>25. CASE LoadStopping /\ UNCHANGED <<producerVars, gate, ppc>>
  BY <1>25 DEF LoadStopping
<1>26. CASE WorkerFutexWait /\ UNCHANGED <<producerVars, gate, ppc>>
  BY <1>26 DEF WorkerFutexWait
<1>27. CASE UnregisterWorker /\ UNCHANGED <<producerVars, gate, ppc>>
  BY <1>27 DEF UnregisterWorker
<1>28. CASE Take /\ UNCHANGED <<producerVars, gate, ppc>>
  BY <1>28 DEF Take
<1>29. CASE PerformIO /\ UNCHANGED <<producerVars, gate, ppc>>
  BY <1>29 DEF PerformIO
<1>30. CASE Report /\ UNCHANGED <<producerVars, gate, ppc>>
  BY <1>30 DEF Report
<1>31. CASE Release /\ UNCHANGED <<producerVars, gate, ppc>>
  BY <1>31 DEF Release
<1>32. CASE BumpCompletion /\ UNCHANGED <<producerVars, gate, ppc>>
  BY <1>32 DEF BumpCompletion
<1>33. CASE CheckCompletionWaiting /\ UNCHANGED <<producerVars, gate, ppc>>
  BY <1>33 DEF CheckCompletionWaiting
<1>34. CASE WorkerSpuriousReturn /\ UNCHANGED <<producerVars, gate, ppc>>
  BY <1>34 DEF WorkerSpuriousReturn
<1>35. CASE SetDone
  BY <1>35 DEF SetDone
<1>36. CASE WakeProducer
  BY <1>36 DEF WakeProducer
<1>37. CASE OpenGate
  BY <1>37 DEF OpenGate
<1>38. CASE UNCHANGED vars
  BY <1>38 DEF TypeOK
<1> HIDE DEF vars, producerVars, workerVars, ring, signals, locals, caller, ioVars, IInv, TypeOK, Counters, ProducerCall, Submitting, Waiting, IsFull, None
<1>39. QED
  BY <1>0, <1>1, <1>2, <1>3, <1>4, <1>5, <1>6, <1>7, <1>8, <1>9, <1>10, <1>11, <1>12, <1>13, <1>14, <1>15, <1>16, <1>17, <1>18, <1>19, <1>20, <1>21, <1>22, <1>23, <1>24, <1>25, <1>26, <1>27, <1>28, <1>29, <1>30, <1>31, <1>32, <1>33, <1>34, <1>35, <1>36, <1>37, <1>38
  DEF Next, Client, ProducerStep, WorkerStep, Interrupts, Finished

\* Shutdown.
LEMMA StoppedStep ==
  ASSUME IInv
  PROVE  [Next]_vars => Stopped'
<1>0. SUFFICES ASSUME [Next]_vars PROVE Stopped'
  OBVIOUS
<1> USE RingAssumption DEF vars, producerVars, workerVars, ring, signals, locals, caller, ioVars, IInv, TypeOK, Counters, ProducerCall, Submitting, Waiting, Stopped, Outstanding, None
<1>1. ASSUME NEW c \in Completions, NEW m \in {"once", "first"}, CallSubmit(c, m),
              UNCHANGED <<workerVars, gate, wpc>>
       PROVE  Stopped'
  BY <1>1 DEF CallSubmit
<1>2. ASSUME NEW c \in Completions, CallWait(c), UNCHANGED <<workerVars, gate, wpc>>
       PROVE  Stopped'
  BY <1>2 DEF CallWait
<1>3. CASE CallDestroy /\ UNCHANGED <<workerVars, gate, wpc>>
  BY <1>3 DEF CallDestroy
<1>4. CASE TryFull /\ UNCHANGED <<workerVars, gate, wpc>>
  <2>1. CASE mode = "once"
    BY <1>4, <2>1 DEF TryFull
  <2>2. CASE mode = "first"
    BY <1>4, <2>2 DEF TryFull
  <2>3. CASE mode = "loop"
    BY <1>4, <2>3 DEF TryFull
  <2>4. QED
    BY <1>4, <2>1, <2>2, <2>3 DEF TryFull
<1>5. CASE TryRoom /\ UNCHANGED <<workerVars, gate, wpc>>
  BY <1>5 DEF TryRoom
<1>6. CASE FillSlot /\ UNCHANGED <<workerVars, gate, wpc>>
  BY <1>6 DEF FillSlot
<1>7. CASE Publish /\ UNCHANGED <<workerVars, gate, wpc>>
  BY <1>7 DEF Publish
<1>8. CASE BumpRequest /\ UNCHANGED <<workerVars, gate, wpc>>
  BY <1>8 DEF BumpRequest
<1>9. CASE CheckRequestWaiting /\ UNCHANGED <<workerVars, gate, wpc>>
  BY <1>9 DEF CheckRequestWaiting, AfterSubmit
<1>10. CASE TestDone /\ UNCHANGED <<workerVars, gate, wpc>>
  <2>1. CASE mode = "poll" /\ done[pcomp]
    BY <1>10, <2>1 DEF TestDone
  <2>2. CASE mode = "wait" /\ done[pcomp]
    BY <1>10, <2>2 DEF TestDone
  <2>3. CASE mode = "poll" /\ ~done[pcomp]
    BY <1>10, <2>3 DEF TestDone
  <2>4. CASE mode = "wait" /\ ~done[pcomp]
    BY <1>10, <2>4 DEF TestDone
  <2>5. QED
    BY <1>10, <2>1, <2>2, <2>3, <2>4 DEF TestDone
<1>11. CASE Register /\ UNCHANGED <<workerVars, gate, wpc>>
  BY <1>11 DEF Register
<1>12. CASE Snapshot /\ UNCHANGED <<workerVars, gate, wpc>>
  BY <1>12 DEF Snapshot
<1>13. CASE FutexWait /\ UNCHANGED <<workerVars, gate, wpc>>
  BY <1>13 DEF FutexWait
<1>14. CASE Unregister /\ UNCHANGED <<workerVars, gate, wpc>>
  BY <1>14 DEF Unregister
<1>15. CASE Reap /\ UNCHANGED <<workerVars, gate, wpc>>
  BY <1>15 DEF Reap
<1>16. CASE StopBump /\ UNCHANGED <<workerVars, gate, wpc>>
  BY <1>16 DEF StopBump
<1>17. CASE Join /\ UNCHANGED <<workerVars, gate, wpc>>
  BY <1>17 DEF Join
<1>18. CASE SpuriousReturn /\ UNCHANGED <<workerVars, gate, wpc>>
  BY <1>18 DEF SpuriousReturn
<1>19. CASE WakeWorker
  BY <1>19 DEF WakeWorker, AfterSubmit
<1>20. CASE PassGate /\ UNCHANGED <<producerVars, gate, ppc>>
  BY <1>20 DEF PassGate
<1>21. CASE LoadHead /\ UNCHANGED <<producerVars, gate, ppc>>
  BY <1>21 DEF LoadHead
<1>22. CASE Announce /\ UNCHANGED <<producerVars, gate, ppc>>
  BY <1>22 DEF Announce
<1>23. CASE SnapshotRequest /\ UNCHANGED <<producerVars, gate, ppc>>
  BY <1>23 DEF SnapshotRequest
<1>24. CASE RecheckHead /\ UNCHANGED <<producerVars, gate, ppc>>
  BY <1>24 DEF RecheckHead
<1>25. CASE LoadStopping /\ UNCHANGED <<producerVars, gate, ppc>>
  BY <1>25 DEF LoadStopping
<1>26. CASE WorkerFutexWait /\ UNCHANGED <<producerVars, gate, ppc>>
  BY <1>26 DEF WorkerFutexWait
<1>27. CASE UnregisterWorker /\ UNCHANGED <<producerVars, gate, ppc>>
  BY <1>27 DEF UnregisterWorker
<1>28. CASE Take /\ UNCHANGED <<producerVars, gate, ppc>>
  BY <1>28 DEF Take
<1>29. CASE PerformIO /\ UNCHANGED <<producerVars, gate, ppc>>
  BY <1>29 DEF PerformIO
<1>30. CASE Report /\ UNCHANGED <<producerVars, gate, ppc>>
  BY <1>30 DEF Report
<1>31. CASE Release /\ UNCHANGED <<producerVars, gate, ppc>>
  BY <1>31 DEF Release
<1>32. CASE BumpCompletion /\ UNCHANGED <<producerVars, gate, ppc>>
  BY <1>32 DEF BumpCompletion
<1>33. CASE CheckCompletionWaiting /\ UNCHANGED <<producerVars, gate, ppc>>
  BY <1>33 DEF CheckCompletionWaiting
<1>34. CASE WorkerSpuriousReturn /\ UNCHANGED <<producerVars, gate, ppc>>
  BY <1>34 DEF WorkerSpuriousReturn
<1>35. CASE SetDone
  BY <1>35 DEF SetDone
<1>36. CASE WakeProducer
  BY <1>36 DEF WakeProducer
<1>37. CASE OpenGate
  BY <1>37 DEF OpenGate
<1>38. CASE UNCHANGED vars
  BY <1>38 DEF TypeOK
<1> HIDE DEF vars, producerVars, workerVars, ring, signals, locals, caller, ioVars, IInv, TypeOK, Counters, ProducerCall, Submitting, Waiting, Stopped, Outstanding, None
<1>39. QED
  BY <1>0, <1>1, <1>2, <1>3, <1>4, <1>5, <1>6, <1>7, <1>8, <1>9, <1>10, <1>11, <1>12, <1>13, <1>14, <1>15, <1>16, <1>17, <1>18, <1>19, <1>20, <1>21, <1>22, <1>23, <1>24, <1>25, <1>26, <1>27, <1>28, <1>29, <1>30, <1>31, <1>32, <1>33, <1>34, <1>35, <1>36, <1>37, <1>38
  DEF Next, Client, ProducerStep, WorkerStep, Interrupts, Finished

\* Live slots.
LEMMA LiveStep ==
  ASSUME IInv
  PROVE  [Next]_vars => LiveSlots'
<1>0. SUFFICES ASSUME [Next]_vars PROVE LiveSlots'
  OBVIOUS
<1> USE RingAssumption DEF vars, producerVars, workerVars, ring, signals, locals, caller, ioVars, IInv, TypeOK, Counters, ProducerCall, Submitting, Waiting, Live, FirstLive, LiveEnd, Requests, None, LiveSlots, LiveSlot
<1>1. ASSUME NEW c \in Completions, NEW m \in {"once", "first"}, CallSubmit(c, m),
              UNCHANGED <<workerVars, gate, wpc>>
       PROVE  LiveSlots'
  BY <1>1 DEF CallSubmit
<1>2. ASSUME NEW c \in Completions, CallWait(c), UNCHANGED <<workerVars, gate, wpc>>
       PROVE  LiveSlots'
  BY <1>2 DEF CallWait
<1>3. CASE CallDestroy /\ UNCHANGED <<workerVars, gate, wpc>>
  BY <1>3 DEF CallDestroy
<1>4. CASE TryFull /\ UNCHANGED <<workerVars, gate, wpc>>
  <2>1. CASE mode = "once"
    BY <1>4, <2>1 DEF TryFull
  <2>2. CASE mode = "first"
    BY <1>4, <2>2 DEF TryFull
  <2>3. CASE mode = "loop"
    BY <1>4, <2>3 DEF TryFull
  <2>4. QED
    BY <1>4, <2>1, <2>2, <2>3 DEF TryFull
<1>5. CASE TryRoom /\ UNCHANGED <<workerVars, gate, wpc>>
  BY <1>5 DEF TryRoom
<1>6. CASE FillSlot /\ UNCHANGED <<workerVars, gate, wpc>>
  <2>1. /\ pcomp \in Completions /\ owner[pcomp] = None /\ buffer[pcomp] = submitted
        /\ submitted \in Requests /\ completed \in Nat
        /\ submitted < completed + Slots /\ completed <= submitted
        /\ SlotOf(submitted) \in 0 .. Slots - 1
    BY <1>6, SlotType DEF FillSlot
  <2>2. /\ slots'[SlotOf(submitted)] = [req |-> submitted, comp |-> pcomp]
        /\ \A i \in 0 .. Slots - 1 : i # SlotOf(submitted) => slots'[i] = slots[i]
    BY <1>6, <2>1 DEF FillSlot
  <2>3. SUFFICES ASSUME NEW n \in Requests, Live(n)'
                 PROVE  LiveSlot(n)'
    BY DEF LiveSlots
  <2>4. CASE n = submitted
    BY <1>6, <2>1, <2>2, <2>4 DEF FillSlot, LiveSlot, SlotOf
  <2>5. CASE n # submitted
    <3>1. Live(n) /\ n < submitted /\ submitted < n + Slots
      BY <1>6, <2>1, <2>3, <2>5 DEF FillSlot
    <3>2. LiveSlot(n)
      BY <3>1 DEF LiveSlots
    <3>3. SlotOf(n) # SlotOf(submitted) /\ SlotOf(n) \in 0 .. Slots - 1
      BY <3>1, <2>1, SlotDistinct, SlotType
    <3>4. slots'[SlotOf(n)] = slots[SlotOf(n)]
      BY <3>3, <2>2
    <3>5. slots[SlotOf(n)].comp # pcomp
      BY <3>2, <2>1 DEF LiveSlot
    <3>6. QED
      BY <1>6, <3>2, <3>4, <3>5, <2>1 DEF FillSlot, LiveSlot, SlotOf
  <2>6. QED
    BY <2>4, <2>5
<1>7. CASE Publish /\ UNCHANGED <<workerVars, gate, wpc>>
  BY <1>7 DEF Publish
<1>8. CASE BumpRequest /\ UNCHANGED <<workerVars, gate, wpc>>
  BY <1>8 DEF BumpRequest
<1>9. CASE CheckRequestWaiting /\ UNCHANGED <<workerVars, gate, wpc>>
  BY <1>9 DEF CheckRequestWaiting, AfterSubmit
<1>10. CASE TestDone /\ UNCHANGED <<workerVars, gate, wpc>>
  <2>1. CASE mode = "poll" /\ done[pcomp]
    BY <1>10, <2>1 DEF TestDone
  <2>2. CASE mode = "wait" /\ done[pcomp]
    BY <1>10, <2>2 DEF TestDone
  <2>3. CASE mode = "poll" /\ ~done[pcomp]
    BY <1>10, <2>3 DEF TestDone
  <2>4. CASE mode = "wait" /\ ~done[pcomp]
    BY <1>10, <2>4 DEF TestDone
  <2>5. QED
    BY <1>10, <2>1, <2>2, <2>3, <2>4 DEF TestDone
<1>11. CASE Register /\ UNCHANGED <<workerVars, gate, wpc>>
  BY <1>11 DEF Register
<1>12. CASE Snapshot /\ UNCHANGED <<workerVars, gate, wpc>>
  BY <1>12 DEF Snapshot
<1>13. CASE FutexWait /\ UNCHANGED <<workerVars, gate, wpc>>
  BY <1>13 DEF FutexWait
<1>14. CASE Unregister /\ UNCHANGED <<workerVars, gate, wpc>>
  BY <1>14 DEF Unregister
<1>15. CASE Reap /\ UNCHANGED <<workerVars, gate, wpc>>
  BY <1>15 DEF Reap
<1>16. CASE StopBump /\ UNCHANGED <<workerVars, gate, wpc>>
  BY <1>16 DEF StopBump
<1>17. CASE Join /\ UNCHANGED <<workerVars, gate, wpc>>
  BY <1>17 DEF Join
<1>18. CASE SpuriousReturn /\ UNCHANGED <<workerVars, gate, wpc>>
  BY <1>18 DEF SpuriousReturn
<1>19. CASE WakeWorker
  BY <1>19 DEF WakeWorker, AfterSubmit
<1>20. CASE PassGate /\ UNCHANGED <<producerVars, gate, ppc>>
  BY <1>20 DEF PassGate
<1>21. CASE LoadHead /\ UNCHANGED <<producerVars, gate, ppc>>
  BY <1>21 DEF LoadHead
<1>22. CASE Announce /\ UNCHANGED <<producerVars, gate, ppc>>
  BY <1>22 DEF Announce
<1>23. CASE SnapshotRequest /\ UNCHANGED <<producerVars, gate, ppc>>
  BY <1>23 DEF SnapshotRequest
<1>24. CASE RecheckHead /\ UNCHANGED <<producerVars, gate, ppc>>
  BY <1>24 DEF RecheckHead
<1>25. CASE LoadStopping /\ UNCHANGED <<producerVars, gate, ppc>>
  BY <1>25 DEF LoadStopping
<1>26. CASE WorkerFutexWait /\ UNCHANGED <<producerVars, gate, ppc>>
  BY <1>26 DEF WorkerFutexWait
<1>27. CASE UnregisterWorker /\ UNCHANGED <<producerVars, gate, ppc>>
  BY <1>27 DEF UnregisterWorker
<1>28. CASE Take /\ UNCHANGED <<producerVars, gate, ppc>>
  BY <1>28 DEF Take
<1>29. CASE PerformIO /\ UNCHANGED <<producerVars, gate, ppc>>
  BY <1>29 DEF PerformIO
<1>30. CASE Report /\ UNCHANGED <<producerVars, gate, ppc>>
  BY <1>30 DEF Report
<1>31. CASE Release /\ UNCHANGED <<producerVars, gate, ppc>>
  BY <1>31 DEF Release
<1>32. CASE BumpCompletion /\ UNCHANGED <<producerVars, gate, ppc>>
  BY <1>32 DEF BumpCompletion
<1>33. CASE CheckCompletionWaiting /\ UNCHANGED <<producerVars, gate, ppc>>
  BY <1>33 DEF CheckCompletionWaiting
<1>34. CASE WorkerSpuriousReturn /\ UNCHANGED <<producerVars, gate, ppc>>
  BY <1>34 DEF WorkerSpuriousReturn
<1>35. CASE SetDone
  <2>1. wpc = "finish"
    BY <1>35 DEF SetDone
  <2>2. SUFFICES ASSUME NEW n \in Requests, Live(n)'
                 PROVE  LiveSlot(n)'
    BY DEF LiveSlots
  <2>3. Live(n) /\ n # completed
    BY <1>35, <2>1, <2>2 DEF SetDone
  <2>4. LiveSlot(n)
    BY <2>3 DEF LiveSlots
  <2>5. slots[SlotOf(n)].comp # slot.comp
    BY <2>1, <2>3, <2>4, WorkerAt DEF LiveSlot
  <2>6. QED
    BY <1>35, <2>4, <2>5 DEF SetDone, LiveSlot, SlotOf
<1>36. CASE WakeProducer
  BY <1>36 DEF WakeProducer
<1>37. CASE OpenGate
  BY <1>37 DEF OpenGate
<1>38. CASE UNCHANGED vars
  BY <1>38 DEF TypeOK
<1> HIDE DEF vars, producerVars, workerVars, ring, signals, locals, caller, ioVars, IInv, TypeOK, Counters, ProducerCall, Submitting, Waiting, Live, FirstLive, LiveEnd, Requests, None, LiveSlots, LiveSlot
<1>39. QED
  BY <1>0, <1>1, <1>2, <1>3, <1>4, <1>5, <1>6, <1>7, <1>8, <1>9, <1>10, <1>11, <1>12, <1>13, <1>14, <1>15, <1>16, <1>17, <1>18, <1>19, <1>20, <1>21, <1>22, <1>23, <1>24, <1>25, <1>26, <1>27, <1>28, <1>29, <1>30, <1>31, <1>32, <1>33, <1>34, <1>35, <1>36, <1>37, <1>38
  DEF Next, Client, ProducerStep, WorkerStep, Interrupts, Finished

\* Outstanding completions.
LEMMA OutstandingStep ==
  ASSUME IInv
  PROVE  [Next]_vars => Outstandings'
<1>0. SUFFICES ASSUME [Next]_vars PROVE Outstandings'
  OBVIOUS
<1> USE RingAssumption DEF vars, producerVars, workerVars, ring, signals, locals, caller, ioVars, IInv, TypeOK, Counters, ProducerCall, Submitting, Waiting, Live, FirstLive, LiveEnd, Requests, None, Outstandings
<1>1. ASSUME NEW c \in Completions, NEW m \in {"once", "first"}, CallSubmit(c, m),
              UNCHANGED <<workerVars, gate, wpc>>
       PROVE  Outstandings'
  BY <1>1 DEF CallSubmit
<1>2. ASSUME NEW c \in Completions, CallWait(c), UNCHANGED <<workerVars, gate, wpc>>
       PROVE  Outstandings'
  BY <1>2 DEF CallWait
<1>3. CASE CallDestroy /\ UNCHANGED <<workerVars, gate, wpc>>
  BY <1>3 DEF CallDestroy
<1>4. CASE TryFull /\ UNCHANGED <<workerVars, gate, wpc>>
  <2>1. CASE mode = "once"
    BY <1>4, <2>1 DEF TryFull
  <2>2. CASE mode = "first"
    BY <1>4, <2>2 DEF TryFull
  <2>3. CASE mode = "loop"
    BY <1>4, <2>3 DEF TryFull
  <2>4. QED
    BY <1>4, <2>1, <2>2, <2>3 DEF TryFull
<1>5. CASE TryRoom /\ UNCHANGED <<workerVars, gate, wpc>>
  BY <1>5 DEF TryRoom
<1>6. CASE FillSlot /\ UNCHANGED <<workerVars, gate, wpc>>
  <2>1. /\ pcomp \in Completions /\ owner[pcomp] = None /\ buffer[pcomp] = submitted
        /\ submitted \in Requests /\ completed \in Nat
        /\ submitted < completed + Slots /\ completed <= submitted
        /\ SlotOf(submitted) \in 0 .. Slots - 1
    BY <1>6, SlotType DEF FillSlot
  <2>2. /\ slots'[SlotOf(submitted)] = [req |-> submitted, comp |-> pcomp]
        /\ \A i \in 0 .. Slots - 1 : i # SlotOf(submitted) => slots'[i] = slots[i]
    BY <1>6, <2>1 DEF FillSlot
  <2>3. told[submitted] = "nothing"
    BY <2>1 DEF Results
  <2>4. FirstLive <= submitted
    BY <2>1
  <2>5. owner' = [owner EXCEPT ![pcomp] = submitted] /\ done' = [done EXCEPT ![pcomp] = FALSE]
        /\ told' = told /\ wpc' = wpc /\ completed' = completed /\ submitted' = submitted
        /\ LiveEnd' = submitted + 1 /\ LiveEnd = submitted
    BY <1>6 DEF FillSlot
  <2>6. QED
    BY <2>1, <2>3, <2>4, <2>5
<1>7. CASE Publish /\ UNCHANGED <<workerVars, gate, wpc>>
  BY <1>7 DEF Publish
<1>8. CASE BumpRequest /\ UNCHANGED <<workerVars, gate, wpc>>
  BY <1>8 DEF BumpRequest
<1>9. CASE CheckRequestWaiting /\ UNCHANGED <<workerVars, gate, wpc>>
  BY <1>9 DEF CheckRequestWaiting, AfterSubmit
<1>10. CASE TestDone /\ UNCHANGED <<workerVars, gate, wpc>>
  <2>1. CASE mode = "poll" /\ done[pcomp]
    BY <1>10, <2>1 DEF TestDone
  <2>2. CASE mode = "wait" /\ done[pcomp]
    BY <1>10, <2>2 DEF TestDone
  <2>3. CASE mode = "poll" /\ ~done[pcomp]
    BY <1>10, <2>3 DEF TestDone
  <2>4. CASE mode = "wait" /\ ~done[pcomp]
    BY <1>10, <2>4 DEF TestDone
  <2>5. QED
    BY <1>10, <2>1, <2>2, <2>3, <2>4 DEF TestDone
<1>11. CASE Register /\ UNCHANGED <<workerVars, gate, wpc>>
  BY <1>11 DEF Register
<1>12. CASE Snapshot /\ UNCHANGED <<workerVars, gate, wpc>>
  BY <1>12 DEF Snapshot
<1>13. CASE FutexWait /\ UNCHANGED <<workerVars, gate, wpc>>
  BY <1>13 DEF FutexWait
<1>14. CASE Unregister /\ UNCHANGED <<workerVars, gate, wpc>>
  BY <1>14 DEF Unregister
<1>15. CASE Reap /\ UNCHANGED <<workerVars, gate, wpc>>
  BY <1>15 DEF Reap
<1>16. CASE StopBump /\ UNCHANGED <<workerVars, gate, wpc>>
  BY <1>16 DEF StopBump
<1>17. CASE Join /\ UNCHANGED <<workerVars, gate, wpc>>
  BY <1>17 DEF Join
<1>18. CASE SpuriousReturn /\ UNCHANGED <<workerVars, gate, wpc>>
  BY <1>18 DEF SpuriousReturn
<1>19. CASE WakeWorker
  BY <1>19 DEF WakeWorker, AfterSubmit
<1>20. CASE PassGate /\ UNCHANGED <<producerVars, gate, ppc>>
  BY <1>20 DEF PassGate
<1>21. CASE LoadHead /\ UNCHANGED <<producerVars, gate, ppc>>
  BY <1>21 DEF LoadHead
<1>22. CASE Announce /\ UNCHANGED <<producerVars, gate, ppc>>
  BY <1>22 DEF Announce
<1>23. CASE SnapshotRequest /\ UNCHANGED <<producerVars, gate, ppc>>
  BY <1>23 DEF SnapshotRequest
<1>24. CASE RecheckHead /\ UNCHANGED <<producerVars, gate, ppc>>
  BY <1>24 DEF RecheckHead
<1>25. CASE LoadStopping /\ UNCHANGED <<producerVars, gate, ppc>>
  BY <1>25 DEF LoadStopping
<1>26. CASE WorkerFutexWait /\ UNCHANGED <<producerVars, gate, ppc>>
  BY <1>26 DEF WorkerFutexWait
<1>27. CASE UnregisterWorker /\ UNCHANGED <<producerVars, gate, ppc>>
  BY <1>27 DEF UnregisterWorker
<1>28. CASE Take /\ UNCHANGED <<producerVars, gate, ppc>>
  BY <1>28 DEF Take
<1>29. CASE PerformIO /\ UNCHANGED <<producerVars, gate, ppc>>
  BY <1>29 DEF PerformIO
<1>30. CASE Report /\ UNCHANGED <<producerVars, gate, ppc>>
  BY <1>30 DEF Report
<1>31. CASE Release /\ UNCHANGED <<producerVars, gate, ppc>>
  BY <1>31 DEF Release
<1>32. CASE BumpCompletion /\ UNCHANGED <<producerVars, gate, ppc>>
  BY <1>32 DEF BumpCompletion
<1>33. CASE CheckCompletionWaiting /\ UNCHANGED <<producerVars, gate, ppc>>
  BY <1>33 DEF CheckCompletionWaiting
<1>34. CASE WorkerSpuriousReturn /\ UNCHANGED <<producerVars, gate, ppc>>
  BY <1>34 DEF WorkerSpuriousReturn
<1>35. CASE SetDone
  <2>1. wpc = "finish"
    BY <1>35 DEF SetDone
  <2>2. done' = [done EXCEPT ![slot.comp] = TRUE] /\ owner' = owner /\ told' = told
        /\ FirstLive' = completed + 1 /\ FirstLive = completed /\ LiveEnd' = LiveEnd
    BY <1>35, <2>1 DEF SetDone
  <2>3. slot.comp \in Completions /\ owner[slot.comp] = completed /\ completed \in Requests
    BY <2>1, WorkerAt
  <2>4. QED
    BY <2>2, <2>3
<1>36. CASE WakeProducer
  BY <1>36 DEF WakeProducer
<1>37. CASE OpenGate
  BY <1>37 DEF OpenGate
<1>38. CASE UNCHANGED vars
  BY <1>38 DEF TypeOK
<1> HIDE DEF vars, producerVars, workerVars, ring, signals, locals, caller, ioVars, IInv, TypeOK, Counters, ProducerCall, Submitting, Waiting, Live, FirstLive, LiveEnd, Requests, None, Outstandings
<1>39. QED
  BY <1>0, <1>1, <1>2, <1>3, <1>4, <1>5, <1>6, <1>7, <1>8, <1>9, <1>10, <1>11, <1>12, <1>13, <1>14, <1>15, <1>16, <1>17, <1>18, <1>19, <1>20, <1>21, <1>22, <1>23, <1>24, <1>25, <1>26, <1>27, <1>28, <1>29, <1>30, <1>31, <1>32, <1>33, <1>34, <1>35, <1>36, <1>37, <1>38
  DEF Next, Client, ProducerStep, WorkerStep, Interrupts, Finished

\* The worker's slot.
LEMMA WorkerSlotStep ==
  ASSUME IInv
  PROVE  [Next]_vars => WorkerSlot'
<1>0. SUFFICES ASSUME [Next]_vars PROVE WorkerSlot'
  OBVIOUS
<1> USE RingAssumption DEF vars, producerVars, workerVars, ring, signals, locals, caller, ioVars, IInv, TypeOK, Counters, ProducerCall, Submitting, Waiting, Live, FirstLive, LiveEnd, Requests, None, WorkerSlot
<1>1. ASSUME NEW c \in Completions, NEW m \in {"once", "first"}, CallSubmit(c, m),
              UNCHANGED <<workerVars, gate, wpc>>
       PROVE  WorkerSlot'
  BY <1>1 DEF CallSubmit
<1>2. ASSUME NEW c \in Completions, CallWait(c), UNCHANGED <<workerVars, gate, wpc>>
       PROVE  WorkerSlot'
  BY <1>2 DEF CallWait
<1>3. CASE CallDestroy /\ UNCHANGED <<workerVars, gate, wpc>>
  BY <1>3 DEF CallDestroy
<1>4. CASE TryFull /\ UNCHANGED <<workerVars, gate, wpc>>
  <2>1. CASE mode = "once"
    BY <1>4, <2>1 DEF TryFull
  <2>2. CASE mode = "first"
    BY <1>4, <2>2 DEF TryFull
  <2>3. CASE mode = "loop"
    BY <1>4, <2>3 DEF TryFull
  <2>4. QED
    BY <1>4, <2>1, <2>2, <2>3 DEF TryFull
<1>5. CASE TryRoom /\ UNCHANGED <<workerVars, gate, wpc>>
  BY <1>5 DEF TryRoom
<1>6. CASE FillSlot /\ UNCHANGED <<workerVars, gate, wpc>>
  <2>1. /\ pcomp \in Completions /\ owner[pcomp] = None /\ buffer[pcomp] = submitted
        /\ submitted \in Requests /\ completed \in Nat
        /\ submitted < completed + Slots /\ completed <= submitted
        /\ SlotOf(submitted) \in 0 .. Slots - 1
    BY <1>6, SlotType DEF FillSlot
  <2>2. /\ slots'[SlotOf(submitted)] = [req |-> submitted, comp |-> pcomp]
        /\ \A i \in 0 .. Slots - 1 : i # SlotOf(submitted) => slots'[i] = slots[i]
    BY <1>6, <2>1 DEF FillSlot
  <2>3. CASE wpc \in {"io", "report", "finish"}
    <3>1. completed < submitted
      BY <2>3
    <3>2. SlotOf(completed) # SlotOf(submitted) /\ SlotOf(completed) \in 0 .. Slots - 1
      BY <3>1, <2>1, SlotDistinct, SlotType
    <3>3. slots'[SlotOf(completed)] = slots[SlotOf(completed)]
      BY <3>2, <2>2
    <3>4. QED
      BY <1>6, <3>3 DEF FillSlot, SlotOf
  <2>4. CASE wpc \notin {"io", "report", "finish"}
    BY <1>6, <2>4 DEF FillSlot
  <2>5. QED
    BY <2>3, <2>4
<1>7. CASE Publish /\ UNCHANGED <<workerVars, gate, wpc>>
  BY <1>7 DEF Publish
<1>8. CASE BumpRequest /\ UNCHANGED <<workerVars, gate, wpc>>
  BY <1>8 DEF BumpRequest
<1>9. CASE CheckRequestWaiting /\ UNCHANGED <<workerVars, gate, wpc>>
  BY <1>9 DEF CheckRequestWaiting, AfterSubmit
<1>10. CASE TestDone /\ UNCHANGED <<workerVars, gate, wpc>>
  <2>1. CASE mode = "poll" /\ done[pcomp]
    BY <1>10, <2>1 DEF TestDone
  <2>2. CASE mode = "wait" /\ done[pcomp]
    BY <1>10, <2>2 DEF TestDone
  <2>3. CASE mode = "poll" /\ ~done[pcomp]
    BY <1>10, <2>3 DEF TestDone
  <2>4. CASE mode = "wait" /\ ~done[pcomp]
    BY <1>10, <2>4 DEF TestDone
  <2>5. QED
    BY <1>10, <2>1, <2>2, <2>3, <2>4 DEF TestDone
<1>11. CASE Register /\ UNCHANGED <<workerVars, gate, wpc>>
  BY <1>11 DEF Register
<1>12. CASE Snapshot /\ UNCHANGED <<workerVars, gate, wpc>>
  BY <1>12 DEF Snapshot
<1>13. CASE FutexWait /\ UNCHANGED <<workerVars, gate, wpc>>
  BY <1>13 DEF FutexWait
<1>14. CASE Unregister /\ UNCHANGED <<workerVars, gate, wpc>>
  BY <1>14 DEF Unregister
<1>15. CASE Reap /\ UNCHANGED <<workerVars, gate, wpc>>
  BY <1>15 DEF Reap
<1>16. CASE StopBump /\ UNCHANGED <<workerVars, gate, wpc>>
  BY <1>16 DEF StopBump
<1>17. CASE Join /\ UNCHANGED <<workerVars, gate, wpc>>
  BY <1>17 DEF Join
<1>18. CASE SpuriousReturn /\ UNCHANGED <<workerVars, gate, wpc>>
  BY <1>18 DEF SpuriousReturn
<1>19. CASE WakeWorker
  BY <1>19 DEF WakeWorker, AfterSubmit
<1>20. CASE PassGate /\ UNCHANGED <<producerVars, gate, ppc>>
  BY <1>20 DEF PassGate
<1>21. CASE LoadHead /\ UNCHANGED <<producerVars, gate, ppc>>
  BY <1>21 DEF LoadHead
<1>22. CASE Announce /\ UNCHANGED <<producerVars, gate, ppc>>
  BY <1>22 DEF Announce
<1>23. CASE SnapshotRequest /\ UNCHANGED <<producerVars, gate, ppc>>
  BY <1>23 DEF SnapshotRequest
<1>24. CASE RecheckHead /\ UNCHANGED <<producerVars, gate, ppc>>
  BY <1>24 DEF RecheckHead
<1>25. CASE LoadStopping /\ UNCHANGED <<producerVars, gate, ppc>>
  BY <1>25 DEF LoadStopping
<1>26. CASE WorkerFutexWait /\ UNCHANGED <<producerVars, gate, ppc>>
  BY <1>26 DEF WorkerFutexWait
<1>27. CASE UnregisterWorker /\ UNCHANGED <<producerVars, gate, ppc>>
  BY <1>27 DEF UnregisterWorker
<1>28. CASE Take /\ UNCHANGED <<producerVars, gate, ppc>>
  <2>1. QED
    BY <1>28 DEF Take, SlotOf
<1>29. CASE PerformIO /\ UNCHANGED <<producerVars, gate, ppc>>
  <2>1. completed \in Requests /\ slot.req = completed /\ buffer[slot.comp] = completed
        /\ slot = slots[SlotOf(completed)]
    BY <1>29, WorkerAt DEF PerformIO
  <2>2. result' = "ok" => file'[completed] = completed
    BY <1>29, <2>1 DEF PerformIO
  <2>3. QED
    BY <1>29, <2>1, <2>2 DEF PerformIO, SlotOf
<1>30. CASE Report /\ UNCHANGED <<producerVars, gate, ppc>>
  <2>1. slot.comp \in Completions /\ slot = slots[SlotOf(completed)]
    BY <1>30, WorkerAt DEF Report
  <2>2. error'[slot.comp] = result
    BY <1>30, <2>1 DEF Report
  <2>3. QED
    BY <1>30, <2>1, <2>2 DEF Report, SlotOf
<1>31. CASE Release /\ UNCHANGED <<producerVars, gate, ppc>>
  BY <1>31 DEF Release
<1>32. CASE BumpCompletion /\ UNCHANGED <<producerVars, gate, ppc>>
  BY <1>32 DEF BumpCompletion
<1>33. CASE CheckCompletionWaiting /\ UNCHANGED <<producerVars, gate, ppc>>
  BY <1>33 DEF CheckCompletionWaiting
<1>34. CASE WorkerSpuriousReturn /\ UNCHANGED <<producerVars, gate, ppc>>
  BY <1>34 DEF WorkerSpuriousReturn
<1>35. CASE SetDone
  BY <1>35 DEF SetDone
<1>36. CASE WakeProducer
  BY <1>36 DEF WakeProducer
<1>37. CASE OpenGate
  BY <1>37 DEF OpenGate
<1>38. CASE UNCHANGED vars
  BY <1>38 DEF TypeOK
<1> HIDE DEF vars, producerVars, workerVars, ring, signals, locals, caller, ioVars, IInv, TypeOK, Counters, ProducerCall, Submitting, Waiting, Live, FirstLive, LiveEnd, Requests, None, WorkerSlot
<1>39. QED
  BY <1>0, <1>1, <1>2, <1>3, <1>4, <1>5, <1>6, <1>7, <1>8, <1>9, <1>10, <1>11, <1>12, <1>13, <1>14, <1>15, <1>16, <1>17, <1>18, <1>19, <1>20, <1>21, <1>22, <1>23, <1>24, <1>25, <1>26, <1>27, <1>28, <1>29, <1>30, <1>31, <1>32, <1>33, <1>34, <1>35, <1>36, <1>37, <1>38
  DEF Next, Client, ProducerStep, WorkerStep, Interrupts, Finished

\* Results.
LEMMA ResultsStep ==
  ASSUME IInv
  PROVE  [Next]_vars => Results'
<1>0. SUFFICES ASSUME [Next]_vars PROVE Results'
  OBVIOUS
<1> USE RingAssumption DEF vars, producerVars, workerVars, ring, signals, locals, caller, ioVars, IInv, TypeOK, Counters, ProducerCall, Submitting, Waiting, Live, FirstLive, LiveEnd, Requests, None, Results
<1>1. ASSUME NEW c \in Completions, NEW m \in {"once", "first"}, CallSubmit(c, m),
              UNCHANGED <<workerVars, gate, wpc>>
       PROVE  Results'
  BY <1>1 DEF CallSubmit
<1>2. ASSUME NEW c \in Completions, CallWait(c), UNCHANGED <<workerVars, gate, wpc>>
       PROVE  Results'
  BY <1>2 DEF CallWait
<1>3. CASE CallDestroy /\ UNCHANGED <<workerVars, gate, wpc>>
  BY <1>3 DEF CallDestroy
<1>4. CASE TryFull /\ UNCHANGED <<workerVars, gate, wpc>>
  <2>1. CASE mode = "once"
    BY <1>4, <2>1 DEF TryFull
  <2>2. CASE mode = "first"
    BY <1>4, <2>2 DEF TryFull
  <2>3. CASE mode = "loop"
    BY <1>4, <2>3 DEF TryFull
  <2>4. QED
    BY <1>4, <2>1, <2>2, <2>3 DEF TryFull
<1>5. CASE TryRoom /\ UNCHANGED <<workerVars, gate, wpc>>
  BY <1>5 DEF TryRoom
<1>6. CASE FillSlot /\ UNCHANGED <<workerVars, gate, wpc>>
  BY <1>6 DEF FillSlot
<1>7. CASE Publish /\ UNCHANGED <<workerVars, gate, wpc>>
  BY <1>7 DEF Publish
<1>8. CASE BumpRequest /\ UNCHANGED <<workerVars, gate, wpc>>
  BY <1>8 DEF BumpRequest
<1>9. CASE CheckRequestWaiting /\ UNCHANGED <<workerVars, gate, wpc>>
  BY <1>9 DEF CheckRequestWaiting, AfterSubmit
<1>10. CASE TestDone /\ UNCHANGED <<workerVars, gate, wpc>>
  <2>1. CASE mode = "poll" /\ done[pcomp]
    BY <1>10, <2>1 DEF TestDone
  <2>2. CASE mode = "wait" /\ done[pcomp]
    BY <1>10, <2>2 DEF TestDone
  <2>3. CASE mode = "poll" /\ ~done[pcomp]
    BY <1>10, <2>3 DEF TestDone
  <2>4. CASE mode = "wait" /\ ~done[pcomp]
    BY <1>10, <2>4 DEF TestDone
  <2>5. QED
    BY <1>10, <2>1, <2>2, <2>3, <2>4 DEF TestDone
<1>11. CASE Register /\ UNCHANGED <<workerVars, gate, wpc>>
  BY <1>11 DEF Register
<1>12. CASE Snapshot /\ UNCHANGED <<workerVars, gate, wpc>>
  BY <1>12 DEF Snapshot
<1>13. CASE FutexWait /\ UNCHANGED <<workerVars, gate, wpc>>
  BY <1>13 DEF FutexWait
<1>14. CASE Unregister /\ UNCHANGED <<workerVars, gate, wpc>>
  BY <1>14 DEF Unregister
<1>15. CASE Reap /\ UNCHANGED <<workerVars, gate, wpc>>
  <2>1. pcomp \in Completions /\ owner[pcomp] \in Requests /\ done[pcomp]
    BY <1>15 DEF Reap
  <2>2. error[pcomp] = "ok" => file[owner[pcomp]] = owner[pcomp]
    BY <2>1 DEF Results
  <2>3. told' = [told EXCEPT ![owner[pcomp]] = error[pcomp]]
        /\ owner' = [owner EXCEPT ![pcomp] = None]
        /\ file' = file /\ error' = error /\ done' = done /\ submitted' = submitted
    BY <1>15 DEF Reap
  <2>4. owner[pcomp] < submitted
    BY <1>15, <2>1 DEF Reap, Outstandings
  <2>5. QED
    BY <2>1, <2>2, <2>3, <2>4
<1>16. CASE StopBump /\ UNCHANGED <<workerVars, gate, wpc>>
  BY <1>16 DEF StopBump
<1>17. CASE Join /\ UNCHANGED <<workerVars, gate, wpc>>
  BY <1>17 DEF Join
<1>18. CASE SpuriousReturn /\ UNCHANGED <<workerVars, gate, wpc>>
  BY <1>18 DEF SpuriousReturn
<1>19. CASE WakeWorker
  BY <1>19 DEF WakeWorker, AfterSubmit
<1>20. CASE PassGate /\ UNCHANGED <<producerVars, gate, ppc>>
  BY <1>20 DEF PassGate
<1>21. CASE LoadHead /\ UNCHANGED <<producerVars, gate, ppc>>
  BY <1>21 DEF LoadHead
<1>22. CASE Announce /\ UNCHANGED <<producerVars, gate, ppc>>
  BY <1>22 DEF Announce
<1>23. CASE SnapshotRequest /\ UNCHANGED <<producerVars, gate, ppc>>
  BY <1>23 DEF SnapshotRequest
<1>24. CASE RecheckHead /\ UNCHANGED <<producerVars, gate, ppc>>
  BY <1>24 DEF RecheckHead
<1>25. CASE LoadStopping /\ UNCHANGED <<producerVars, gate, ppc>>
  BY <1>25 DEF LoadStopping
<1>26. CASE WorkerFutexWait /\ UNCHANGED <<producerVars, gate, ppc>>
  BY <1>26 DEF WorkerFutexWait
<1>27. CASE UnregisterWorker /\ UNCHANGED <<producerVars, gate, ppc>>
  BY <1>27 DEF UnregisterWorker
<1>28. CASE Take /\ UNCHANGED <<producerVars, gate, ppc>>
  BY <1>28 DEF Take
<1>29. CASE PerformIO /\ UNCHANGED <<producerVars, gate, ppc>>
  <2>1. completed \in Requests /\ slot.req = completed /\ buffer[slot.comp] = completed
    BY <1>29, WorkerAt DEF PerformIO
  <2>2. file' = [file EXCEPT ![completed] = completed] \/ file' = file
    BY <1>29, <2>1 DEF PerformIO
  <2>3. owner' = owner /\ done' = done /\ error' = error /\ told' = told /\ submitted' = submitted
    BY <1>29 DEF PerformIO
  <2>4. QED
    BY <2>1, <2>2, <2>3
<1>30. CASE Report /\ UNCHANGED <<producerVars, gate, ppc>>
  <2>1. slot.comp \in Completions /\ ~done[slot.comp]
    BY <1>30, WorkerAt DEF Report
  <2>2. error' = [error EXCEPT ![slot.comp] = result] /\ owner' = owner /\ done' = done
        /\ file' = file /\ told' = told /\ submitted' = submitted
    BY <1>30 DEF Report
  <2>3. QED
    BY <2>1, <2>2
<1>31. CASE Release /\ UNCHANGED <<producerVars, gate, ppc>>
  BY <1>31 DEF Release
<1>32. CASE BumpCompletion /\ UNCHANGED <<producerVars, gate, ppc>>
  BY <1>32 DEF BumpCompletion
<1>33. CASE CheckCompletionWaiting /\ UNCHANGED <<producerVars, gate, ppc>>
  BY <1>33 DEF CheckCompletionWaiting
<1>34. CASE WorkerSpuriousReturn /\ UNCHANGED <<producerVars, gate, ppc>>
  BY <1>34 DEF WorkerSpuriousReturn
<1>35. CASE SetDone
  <2>1. slot.comp \in Completions /\ owner[slot.comp] = completed
    BY <1>35, WorkerAt DEF SetDone
  <2>2. error[slot.comp] = "ok" => file[completed] = completed
    BY <1>35 DEF SetDone, WorkerSlot
  <2>3. done' = [done EXCEPT ![slot.comp] = TRUE] /\ owner' = owner /\ error' = error
        /\ file' = file /\ told' = told /\ submitted' = submitted
    BY <1>35 DEF SetDone
  <2>4. QED
    BY <2>1, <2>2, <2>3
<1>36. CASE WakeProducer
  BY <1>36 DEF WakeProducer
<1>37. CASE OpenGate
  BY <1>37 DEF OpenGate
<1>38. CASE UNCHANGED vars
  BY <1>38 DEF TypeOK
<1> HIDE DEF vars, producerVars, workerVars, ring, signals, locals, caller, ioVars, IInv, TypeOK, Counters, ProducerCall, Submitting, Waiting, Live, FirstLive, LiveEnd, Requests, None, Results
<1>39. QED
  BY <1>0, <1>1, <1>2, <1>3, <1>4, <1>5, <1>6, <1>7, <1>8, <1>9, <1>10, <1>11, <1>12, <1>13, <1>14, <1>15, <1>16, <1>17, <1>18, <1>19, <1>20, <1>21, <1>22, <1>23, <1>24, <1>25, <1>26, <1>27, <1>28, <1>29, <1>30, <1>31, <1>32, <1>33, <1>34, <1>35, <1>36, <1>37, <1>38
  DEF Next, Client, ProducerStep, WorkerStep, Interrupts, Finished

-------------------------------------------------------------------------------
(* The theorems. *)

LEMMA InitIInv == Init => IInv
<1> SUFFICES ASSUME Init PROVE IInv
  OBVIOUS
<1> USE RingAssumption DEF Init, None, Requests
<1>1. TypeOK
  <2>1. done \in [Completions -> BOOLEAN]
    BY Zenon
  <2>2. slots \in [0 .. Slots - 1 -> SlotContent] /\ slot \in SlotContent
    BY DEF SlotContent
  <2>3. /\ request_waiting \in BOOLEAN /\ completion_waiting \in BOOLEAN
        /\ stopping \in BOOLEAN /\ full \in BOOLEAN /\ stop \in BOOLEAN
    BY Zenon
  <2>4. QED
    BY <2>1, <2>2, <2>3 DEF TypeOK, ProducerPC, WorkerPC
<1>2. Counters /\ ProducerCall /\ WorkerSlot
  BY DEF Counters, ProducerCall, WorkerSlot, Submitting, Waiting
<1>3. LiveSlots
  BY DEF LiveSlots, Live, FirstLive, LiveEnd
<1>4. Outstandings /\ Results
  BY DEF Outstandings, Results
<1>5. Stopped
  BY DEF Stopped, Outstanding
<1>6. QED
  BY <1>1, <1>2, <1>3, <1>4, <1>5 DEF IInv

\* The inductive invariant holds of every reachable state.
THEOREM Invariance == Spec => []IInv
<1>1. IInv /\ [Next]_vars => IInv'
  BY TypeStep, CountersStep, CallStep, LiveStep, OutstandingStep, WorkerSlotStep,
     ResultsStep, StoppedStep DEF IInv
<1>2. QED
  BY InitIInv, <1>1, PTL DEF Spec

\* Every variable keeps its type.
THEOREM TypeCorrect == Spec => []TypeOK
<1>1. IInv => TypeOK
  BY DEF IInv
<1>2. QED
  BY <1>1, Invariance, PTL

\* The producer never writes the slot the worker is copying.
THEOREM SlotRaceFreedom == Spec => []NoSlotRace
<1>1. IInv => NoSlotRace
  <2> SUFFICES ASSUME IInv, ppc = "fill", wpc = "take"
               PROVE  SlotOf(submitted) # SlotOf(completed)
    BY DEF NoSlotRace
  <2>1. /\ submitted \in Nat /\ completed \in Nat
        /\ completed < submitted /\ submitted < completed + Slots
    BY RingAssumption DEF IInv, TypeOK, Counters
  <2>2. QED
    BY <2>1, SlotDistinct
<1>2. QED
  BY <1>1, Invariance, PTL

\* The worker works on live requests only: completion and buffer stay the
\* caller's until done.
THEOREM LiveRequests == Spec => []RequestIsLive
<1>1. IInv => RequestIsLive
  BY WorkerAt DEF RequestIsLive
<1>2. QED
  BY <1>1, Invariance, PTL

\* A released slot belongs to a request whose completion is done.
THEOREM ReleaseAfterDone == Spec => []ReleasedIsDone
<1>1. IInv => ReleasedIsDone
  <2> SUFFICES ASSUME IInv, NEW c \in Completions, owner[c] # None, owner[c] < completed
               PROVE  done[c]
    BY DEF ReleasedIsDone, Outstanding
  <2>1. owner[c] \in Requests /\ (done[c] \/ Live(owner[c]))
    BY DEF IInv, TypeOK, Outstandings
  <2>2. ~Live(owner[c])
    BY <2>1, RingAssumption DEF IInv, TypeOK, Live, FirstLive, Requests
  <2>3. QED
    BY <2>1, <2>2
<1>2. QED
  BY <1>1, Invariance, PTL

\* What the caller was told is durable is durable, in its own record.
THEOREM Durability == Spec => []AckedIsDurable
<1>1. IInv => AckedIsDurable
  BY DEF IInv, Results, AckedIsDurable
<1>2. QED
  BY <1>1, Invariance, PTL

\* A stopped worker of a caller that reaps first has processed everything.
LEMMA DrainedNow ==
  ASSUME ReapFirst, IInv, wpc = "exited"
  PROVE  completed = submitted
<1> SUFFICES ASSUME completed # submitted PROVE FALSE
  OBVIOUS
<1>1. completed \in Requests /\ Live(completed)
  BY RingAssumption DEF IInv, TypeOK, Counters, Live, FirstLive, LiveEnd, Requests
<1>2. LiveSlot(completed)
  BY <1>1 DEF IInv, LiveSlots
<1>3. slots[SlotOf(completed)].comp \in Outstanding
  BY <1>1, <1>2 DEF LiveSlot, Outstanding, None, Requests
<1>4. Outstanding = {}
  BY DEF IInv, Stopped
<1>5. QED
  BY <1>3, <1>4

\* For a caller that reaps before it destroys, shutdown leaves no admitted
\* request behind.  Without that discipline it does not hold.
THEOREM ShutdownDrains == ASSUME ReapFirst PROVE Spec => []DrainedAtExit
<1>1. IInv => DrainedAtExit
  BY DrainedNow DEF DrainedAtExit
<1>2. QED
  BY <1>1, Invariance, PTL

-------------------------------------------------------------------------------
(* The ring implements the durable queue. *)

\* A step that leaves the mapped state alone is a stutter of the queue.
LEMMA Stutter ==
  ASSUME UNCHANGED <<submitted, file, told>>,
         FirstLive' = FirstLive,
         ppc' = "joined" <=> ppc = "joined"
  PROVE  UNCHANGED Queue!qvars
  BY DEF Queue!qvars, FirstLive

LEMMA StepRefines ==
  ASSUME ReapFirst, IInv, IInv'
  PROVE  [Next]_vars => [Queue!QNext]_(Queue!qvars)
<1>0. SUFFICES ASSUME [Next]_vars
               PROVE  Queue!QNext \/ UNCHANGED Queue!qvars
  OBVIOUS
<1> USE DEF vars, producerVars, workerVars, ring, signals, locals, caller, ioVars
<1>1. CASE Publish /\ UNCHANGED <<workerVars, gate, wpc>>
  <2>1. Queue!Admit
    BY <1>1, RingAssumption
    DEF Publish, Queue!Admit, IInv, TypeOK, Counters, ProducerCall
  <2>2. QED
    BY <2>1 DEF Queue!QNext
<1>2. CASE PerformIO /\ UNCHANGED <<producerVars, gate, ppc>>
  <2>1. /\ completed \in Requests /\ slot.req = completed /\ buffer[slot.comp] = completed
        /\ completed < submitted /\ wpc = "io" /\ wpc' = "report"
    BY <1>2, WorkerAt DEF PerformIO, IInv, Counters
  <2>2. CASE file' = file
    BY <1>2, <2>1, <2>2, Stutter DEF PerformIO, FirstLive
  <2>3. CASE file' = [file EXCEPT ![completed] = completed]
    <3>1. {n \in Requests : file'[n] = n} = {n \in Requests : file[n] = n} \cup {completed}
      BY <2>1, <2>3 DEF IInv, TypeOK
    <3>2. FirstLive = completed /\ completed \in 0 .. FirstLive
      BY <2>1 DEF FirstLive, Requests
    <3>3. /\ \E n \in 0 .. FirstLive :
               /\ n < submitted
               /\ {k \in Requests : file'[k] = k} = {k \in Requests : file[k] = k} \cup {n}
          /\ UNCHANGED <<submitted, told, ppc>> /\ FirstLive' = FirstLive
      BY <1>2, <2>1, <3>1, <3>2 DEF PerformIO, FirstLive
    <3>4. Queue!Persist
      BY <3>3 DEF Queue!Persist, FirstLive
    <3>5. QED
      BY <3>4 DEF Queue!QNext
  <2>4. QED
    BY <1>2, <2>1, <2>2, <2>3 DEF PerformIO
<1>3. CASE SetDone
  <2>1. Queue!Finish
    BY <1>3 DEF SetDone, Queue!Finish, IInv, Counters
  <2>2. QED
    BY <2>1 DEF Queue!QNext
<1>4. CASE Reap /\ UNCHANGED <<workerVars, gate, wpc>>
  <2>1. /\ pcomp \in Completions /\ owner[pcomp] \in Requests /\ done[pcomp]
        /\ error[pcomp] \in {"ok", "error"}
    BY <1>4 DEF Reap, IInv, TypeOK, ProducerCall, Waiting
  <2>2. /\ owner[pcomp] < FirstLive
        /\ told[owner[pcomp]] = "nothing"
        /\ error[pcomp] = "ok" => file[owner[pcomp]] = owner[pcomp]
    BY <2>1, RingAssumption DEF IInv, Outstandings, Results, None, Requests
  <2>3. Queue!Tell(owner[pcomp], error[pcomp])
    BY <1>4, <2>1, <2>2 DEF Reap, Queue!Tell, FirstLive
  <2>4. QED
    BY <2>1, <2>3 DEF Queue!QNext, Queue!QRequests, Requests
<1>5. CASE Join /\ UNCHANGED <<workerVars, gate, wpc>>
  <2>1. completed = submitted
    BY <1>5, DrainedNow DEF Join
  <2>2. Queue!Close
    BY <1>5, <2>1 DEF Join, Queue!Close
  <2>3. QED
    BY <2>2 DEF Queue!QNext
<1>6. CASE /\ \/ TryRoom \/ FillSlot \/ BumpRequest \/ CheckRequestWaiting
              \/ TestDone \/ Register \/ Snapshot \/ FutexWait \/ Unregister \/ StopBump
              \/ SpuriousReturn
           /\ UNCHANGED <<workerVars, gate, wpc>>
  <2>1. ppc # "joined" /\ ppc' # "joined"
    BY <1>6 DEF TryRoom, FillSlot, BumpRequest, CheckRequestWaiting, AfterSubmit,
                TestDone, Register, Snapshot, FutexWait, Unregister, StopBump,
                SpuriousReturn, IInv, ProducerCall, Submitting, Waiting
  <2>2. UNCHANGED <<submitted, completed, file, told, wpc>>
    BY <1>6 DEF TryRoom, FillSlot, BumpRequest, CheckRequestWaiting,
                TestDone, Register, Snapshot, FutexWait, Unregister, StopBump,
                SpuriousReturn
  <2>3. QED
    BY <2>1, <2>2, Stutter DEF FirstLive
<1>7. CASE TryFull /\ UNCHANGED <<workerVars, gate, wpc>>
  <2>1. ppc # "joined" /\ ppc' # "joined"
    BY <1>7 DEF TryFull, IInv, ProducerCall, Submitting
  <2>2. QED
    BY <1>7, <2>1, Stutter DEF TryFull, FirstLive
<1>8. CASE Client
  BY <1>8, Stutter DEF Client, CallSubmit, CallWait, CallDestroy, FirstLive
<1>9. CASE /\ \/ PassGate \/ LoadHead \/ Announce \/ SnapshotRequest \/ RecheckHead
              \/ LoadStopping \/ WorkerFutexWait \/ UnregisterWorker
              \/ Take \/ Report \/ BumpCompletion \/ CheckCompletionWaiting
              \/ WorkerSpuriousReturn
           /\ UNCHANGED <<producerVars, gate, ppc>>
  <2>1. UNCHANGED <<completed, file>> /\ wpc # "release" /\ wpc' # "release"
    BY <1>9 DEF PassGate, LoadHead, Announce, SnapshotRequest, RecheckHead,
                LoadStopping, WorkerFutexWait, UnregisterWorker, Take, Report,
                BumpCompletion, CheckCompletionWaiting, WorkerSpuriousReturn
  <2>2. QED
    BY <1>9, <2>1, Stutter DEF FirstLive
<1>10. CASE Release /\ UNCHANGED <<producerVars, gate, ppc>>
  <2>1. FirstLive = completed + 1 /\ FirstLive' = completed + 1
    BY <1>10 DEF Release, FirstLive
  <2>2. submitted' = submitted /\ told' = told /\ ppc' = ppc /\ file' = file
    BY <1>10 DEF Release
  <2>3. QED
    BY <2>1, <2>2 DEF Queue!qvars, FirstLive
<1>11. CASE WakeWorker \/ WakeProducer \/ OpenGate
  BY <1>11, Stutter DEF WakeWorker, WakeProducer, OpenGate, AfterSubmit, FirstLive
<1>12. CASE UNCHANGED vars
  BY <1>12, Stutter DEF FirstLive
<1>13. QED
  BY <1>0, <1>1, <1>2, <1>3, <1>4, <1>5, <1>6, <1>7, <1>8, <1>9, <1>10, <1>11, <1>12
  DEF Next, ProducerStep, WorkerStep, Interrupts, Finished

\* For a caller that reaps before it destroys, the ring engine implements the
\* abstract durable queue of its own capacity.
THEOREM Refinement == ASSUME ReapFirst PROVE Spec => ImplementsDurableQueue
<1>1. Init => Queue!QInit
  BY RingAssumption DEF Init, Queue!QInit, Queue!QRequests, Requests, None
<1>2. IInv /\ IInv' /\ [Next]_vars => [Queue!QNext]_(Queue!qvars)
  BY StepRefines
<1>3. QED
  BY <1>1, <1>2, Invariance, PTL DEF Spec, ImplementsDurableQueue, Queue!QSpec
===============================================================================
