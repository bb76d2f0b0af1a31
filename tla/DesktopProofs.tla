----------------------------- MODULE DesktopProofs -----------------------------
(***************************************************************************)
(* Proofs about the program of src/main.c around its frames: no key stays  *)
(* down that nobody holds, the pointer has one lock, uploads leave the     *)
(* frames' command buffers alone, the size drawn for is the last one, and  *)
(* the teardown destroys everything in an order it may.                    *)
(***************************************************************************)
EXTENDS Desktop, FiniteSetTheorems, SequenceTheorems, WellFoundedInduction, TLAPS

-------------------------------------------------------------------------------
(* The invariant behind NoStuckKey. *)

\* Of the device being read only: a comparison that is under way.
Reading(d) == At("next_event") /\ flags = "sync" /\ dev \in DOMAIN states /\ states[dev] = d

Presses(d, key) == {i \in DOMAIN queue[d] : queue[d][i] = Event(key, 1)}
Releases(d, key) == {i \in DOMAIN queue[d] : queue[d][i] = Event(key, 0)}

\* What libevdev and the kernel's queue together say of a key that is up: libevdev has
\* it up and no press waits, or a release waits that no press comes after.
Consistent(d, key) ==
  \/ key \notin seen[d] /\ Presses(d, key) = {}
  \/ \E r \in Releases(d, key) : \A p \in Presses(d, key) : p < r

Overflowed(d) == \E i \in DOMAIN queue[d] : queue[d][i] = Dropped

\* A keyboard the kernel lost no event of, or that was compared since, is consistent.
QueueTells(d) ==
  d \in gone \/ sync[d] = "needed" \/ Overflowed(d)
    \/ \A key \in Keys : key \in held[d] \/ Consistent(d, key)
QueuesTell == \A d \in Keyboards : QueueTells(d)

\* Differences are handed out, and a comparison is called for, only of the device being
\* read; one that is gone is never compared.
SyncsAreRead ==
  \A d \in Keyboards :
    /\ pend[d] # {} => Reading(d) /\ sync[d] = "running"
    /\ sync[d] = "needed" => d \in gone \/ Reading(d)

\* A flag has a keyboard to answer for it.
FlagsAnswered ==
  \A key \in down : \E d \in Keyboards : d \in gone \/ key \in seen[d] \/ key \in pend[d]

\* Before the keyboards are opened nothing is known of them; then all of them are watched.
Attached ==
  /\ At("input_ctx_create") =>
       /\ states = <<>> /\ down = {}
       /\ \A d \in Keyboards : queue[d] = <<>> /\ seen[d] = {} /\ sync[d] = "none"
  /\ pc \notin {"input_ctx_create", "exit"} => states # <<>> \/ gone = Keyboards

InputInv == InputTypeOK /\ QueuesTell /\ SyncsAreRead /\ FlagsAnswered /\ Attached

THEOREM InputInvSuffices == InputInv => NoStuckKey
<1> SUFFICES ASSUME InputInv, NEW key \in down
             PROVE \E d \in Keyboards : d \in gone \/ key \in held[d] \/ Unread(d)
  BY DEF NoStuckKey
<1>1. PICK d \in Keyboards : d \in gone \/ key \in seen[d] \/ key \in pend[d]
  BY DEF InputInv, FlagsAnswered
<1>2. CASE key \in pend[d]
  BY <1>2, Zenon DEF InputInv, SyncsAreRead, Unread
<1>3. CASE key \in seen[d] /\ d \notin gone /\ sync[d] = "none" /\ key \notin held[d]
  <2>1. key \in Keys
    BY DEF InputInv, InputTypeOK
  <2>2. Overflowed(d) \/ Consistent(d, key)
    BY <1>3, <2>1 DEF InputInv, QueuesTell, QueueTells
  <2>3. ASSUME queue[d] = <<>> PROVE FALSE
    <3>1. DOMAIN queue[d] = {}
      BY <2>3
    <3> QED BY <1>3, <2>2, <3>1, Zenon DEF Overflowed, Consistent, Releases
  <2> QED BY <2>3, Zenon DEF Unread
<1> QED BY <1>1, <1>2, <1>3, Zenon DEF Unread

LEMMA Untouched ==
  ASSUME NEW d \in Keyboards, QueueTells(d), gone \subseteq gone',
         queue'[d] = queue[d], seen'[d] = seen[d], held'[d] = held[d],
         sync[d] = "needed" => sync'[d] = "needed" \/ d \in gone'
  PROVE  QueueTells(d)'
<1>1. Overflowed(d)' = Overflowed(d)
  BY DEF Overflowed
<1>2. \A key \in Keys : Consistent(d, key)' = Consistent(d, key)
  BY DEF Consistent, Presses, Releases
<1> QED BY <1>1, <1>2 DEF QueueTells

LEMMA InputInvInit == DInit => InputInv
<1> SUFFICES ASSUME DInit PROVE InputInv
  OBVIOUS
<1> USE DEF DInit, InputInit
<1>1. InputTypeOK
  <2>1. <<>> \in Seq(Events) /\ <<>> \in Seq(Keyboards)
    OBVIOUS
  <2>2. dev \in Nat \ {0} /\ flags \in {"normal", "sync"}
    OBVIOUS
  <2>9. lock_mouse \in BOOLEAN
    BY Zenon
  <2> QED BY <2>1, <2>2, <2>9 DEF InputTypeOK
<1>2. QueuesTell
  <2> SUFFICES ASSUME NEW d \in Keyboards, NEW key \in Keys PROVE Consistent(d, key)
    BY DEF QueuesTell, QueueTells
  <2>1. DOMAIN queue[d] = {}
    OBVIOUS
  <2> QED BY <2>1 DEF Consistent, Presses
<1>3. SyncsAreRead /\ FlagsAnswered /\ Attached
  BY DEF SyncsAreRead, FlagsAnswered, Attached, At
<1> QED BY <1>1, <1>2, <1>3 DEF InputInv

\* Steps that are no business of the keyboards.
LEMMA OtherSteps ==
  ASSUME InputInv, UNCHANGED inputVars,
         pc' = pc \/ {pc, pc'} \cap {"next_event", "input_ctx_create", "exit"} = {}
  PROVE  InputInv'
<1> USE DEF InputInv, inputVars, kernelVars, evdevVars, ctxVars
<1>1. InputTypeOK'
  BY DEF InputTypeOK
<1>2. QueuesTell'
  BY DEF QueuesTell, QueueTells, Consistent, Presses, Releases, Overflowed
<1>3. SyncsAreRead'
  BY DEF SyncsAreRead, Reading, At
<1>4. FlagsAnswered'
  BY DEF FlagsAnswered
<1>5. Attached'
  BY DEF Attached, At
<1> QED BY <1>1, <1>2, <1>3, <1>4, <1>5

LEMMA InputUpdateSafe == InputInv /\ InputUpdate => InputInv'
<1> SUFFICES ASSUME InputInv, InputUpdate PROVE InputInv'
  OBVIOUS
<1> USE DEF InputInv, InputUpdate, kernelVars, evdevVars
<1>1. InputTypeOK'
  <2>1. dev' \in Nat \ {0} /\ flags' \in {"normal", "sync"}
    OBVIOUS
  <2>9. lock_mouse' \in BOOLEAN
    BY Zenon
  <2> QED BY <2>1, <2>9 DEF InputTypeOK
<1>2. QueuesTell'
  BY DEF QueuesTell, QueueTells, Consistent, Presses, Releases, Overflowed
<1>3. SyncsAreRead'
  BY DEF SyncsAreRead, Reading, At, GoTo
<1>4. FlagsAnswered'
  BY DEF FlagsAnswered
<1>5. Attached'
  BY DEF Attached, At, GoTo
<1> QED BY <1>1, <1>2, <1>3, <1>4, <1>5

LEMMA InputDoneSafe == InputInv /\ InputDone => InputInv'
<1> SUFFICES ASSUME InputInv, InputDone PROVE InputInv'
  OBVIOUS
<1> USE DEF InputInv, InputDone, kernelVars, evdevVars
<1>1. InputTypeOK'
  <2>1. CASE Enter \in down
    BY <2>1 DEF InputTypeOK
  <2>2. CASE Enter \notin down
    BY <2>2 DEF InputTypeOK
  <2> QED BY <2>1, <2>2
<1>2. QueuesTell'
  BY DEF QueuesTell, QueueTells, Consistent, Presses, Releases, Overflowed
<1>3. SyncsAreRead'
  <2>1. dev \notin DOMAIN states
    BY DEF InputTypeOK
  <2> QED BY <2>1 DEF SyncsAreRead, Reading, At, GoTo
<1>4. FlagsAnswered'
  BY DEF FlagsAnswered
<1>5. Attached'
  BY DEF Attached, At, GoTo
<1> QED BY <1>1, <1>2, <1>3, <1>4, <1>5

LEMMA InputCleanupSafe == InputInv /\ InputCleanup => InputInv'
<1> SUFFICES ASSUME InputInv, InputCleanup PROVE InputInv'
  OBVIOUS
<1> USE DEF InputInv, InputCleanup, kernelVars, evdevVars
<1>1. InputTypeOK'
  BY DEF InputTypeOK
<1>2. QueuesTell'
  BY DEF QueuesTell, QueueTells, Consistent, Presses, Releases, Overflowed
<1>3. SyncsAreRead'
  BY DEF SyncsAreRead, Reading, At, GoTo
<1>4. FlagsAnswered'
  BY DEF FlagsAnswered
<1>5. Attached'
  BY DEF Attached, At, GoTo
<1> QED BY <1>1, <1>2, <1>3, <1>4, <1>5

LEMMA InputRefreshSafe == InputInv /\ InputRefresh => InputInv'
<1> SUFFICES ASSUME InputInv, InputRefresh PROVE InputInv'
  OBVIOUS
<1> USE DEF InputInv, InputRefresh, kernelVars
<1>1. /\ pc = "input_ctx_create" /\ pc' = "window_create"
      /\ \A d \in Keyboards : queue[d] = <<>> /\ sync[d] = "none"
      /\ down = {}
  BY DEF At, GoTo, Attached
<1> DEFINE D == Keyboards \ gone
<1>2. Cardinality(D) \in Nat /\ (Cardinality(D) = 0 <=> D = {})
  <2>1. IsFiniteSet(D)
    BY DesktopAssumption, FS_Difference
  <2> QED BY <2>1, FS_CardinalityType, FS_EmptySet
<1> HIDE DEF D
<1>3. states' \in [1 .. Cardinality(D) -> D]
  BY Zenon DEF Listings, D
<1>8. InputTypeOK'
  <2>1. states' \in Seq(D)
    BY <1>2, <1>3
  <2>2. states' \in Seq(Keyboards)
    BY <2>1 DEF D
  <2> QED BY <2>2 DEF InputTypeOK
<1>4. QueuesTell'
  <2> SUFFICES ASSUME NEW d \in Keyboards, NEW key \in Keys, key \notin held[d]
               PROVE  Consistent(d, key)'
    BY DEF QueuesTell, QueueTells
  <2>1. DOMAIN queue[d] = {}
    BY <1>1
  <2> QED BY <2>1 DEF Consistent, Presses
<1>5. SyncsAreRead'
  BY <1>1 DEF SyncsAreRead
<1>6. FlagsAnswered'
  BY <1>1 DEF FlagsAnswered
<1>7. Attached'
  <2> SUFFICES ASSUME states' = <<>> PROVE gone = Keyboards
    BY <1>1 DEF Attached, At
  <2>1. DOMAIN states' = {}
    OBVIOUS
  <2>2. Cardinality(D) = 0
    BY <1>2, <1>3, <2>1
  <2> QED BY <1>2, <2>2 DEF InputTypeOK, D
<1> QED BY <1>8, <1>4, <1>5, <1>6, <1>7

LEMMA NextDeviceSafe == InputInv /\ NextDevice => InputInv'
<1> SUFFICES ASSUME InputInv, NextDevice PROVE InputInv'
  OBVIOUS
<1> USE DEF InputInv, NextDevice, kernelVars
<1> DEFINE d == states[dev]
<1>1. dev \in Nat \ {0}
  BY DEF InputTypeOK
<1>2. InputTypeOK'
  <2>1. sync' \in [Keyboards -> {"none", "needed", "running"}]
    BY DEF InputTypeOK
  <2> QED BY <1>1, <2>1 DEF InputTypeOK
<1>3. QueuesTell'
  <2> SUFFICES ASSUME NEW x \in Keyboards PROVE QueueTells(x)'
    BY DEF QueuesTell
  <2>1. QueueTells(x)
    BY DEF QueuesTell
  <2>2. sync[x] = "needed" => sync'[x] = "needed"
    BY DEF InputTypeOK
  <2>3. UNCHANGED <<queue, seen, held, gone>>
    OBVIOUS
  <2> QED BY <2>1, <2>2, <2>3, Untouched
<1>4. NothingToRead(d)
  OBVIOUS
<1>5. \A x \in Keyboards : pend[x] = {}
  <2> SUFFICES ASSUME NEW x \in Keyboards, pend[x] # {} PROVE FALSE
    OBVIOUS
  <2>1. flags = "sync" /\ sync[d] = "running" /\ pend[d] # {}
    BY DEF SyncsAreRead, Reading
  <2> QED BY <1>4, <2>1 DEF NothingToRead
<1>6. \A x \in Keyboards : sync[x] = "needed" => x \in gone
  <2> SUFFICES ASSUME NEW x \in Keyboards, sync[x] = "needed", x \notin gone PROVE FALSE
    OBVIOUS
  <2>1. flags = "sync" /\ d = x
    BY DEF SyncsAreRead, Reading
  <2> QED BY <1>4, <2>1 DEF NothingToRead
<1>7. SyncsAreRead'
  BY <1>5, <1>6 DEF SyncsAreRead, InputTypeOK
<1>8. FlagsAnswered'
  BY DEF FlagsAnswered
<1>9. Attached'
  BY DEF Attached, At
<1> QED BY <1>2, <1>3, <1>7, <1>8, <1>9

LEMMA UnplugSafe == ASSUME NEW d \in Keyboards, InputInv, Unplug(d) PROVE InputInv'
<1> USE DEF InputInv, Unplug, evdevVars, ctxVars
<1>1. InputTypeOK'
  <2>1. <<>> \in Seq(Events)
    OBVIOUS
  <2> QED BY <2>1 DEF InputTypeOK
<1>2. QueuesTell'
  <2>1. QueueTells(d)'
    BY DEF QueueTells
  <2>2. ASSUME NEW x \in Keyboards, x # d PROVE QueueTells(x)'
    <3>1. queue'[x] = queue[x] /\ held'[x] = held[x]
      BY <2>2 DEF InputTypeOK
    <3> QED BY <3>1, Untouched DEF QueuesTell
  <2> QED BY <2>1, <2>2, Zenon DEF QueuesTell
<1>3. SyncsAreRead'
  BY DEF SyncsAreRead, Reading, At
<1>4. FlagsAnswered'
  BY DEF FlagsAnswered
<1>5. Attached'
  BY DEF Attached, At, InputTypeOK
<1> QED BY <1>1, <1>2, <1>3, <1>4, <1>5

LEMMA PressSafe ==
  ASSUME NEW d \in Keyboards, NEW key \in KeysOf[d], ~Ending, InputInv, Press(d, key)
  PROVE  InputInv'
<1> USE DEF InputInv
<1> DEFINE value == IF key \in held[d] THEN 0 ELSE 1
<1> DEFINE e == Event(key, value)
<1>1. key \in Keys
  BY DEF Keys
<1>2. /\ d \notin gone /\ gone' = gone
      /\ held' = [held EXCEPT ![d] = Take(@, key, value)]
      /\ UNCHANGED <<seen, sync, pend, states, dev, flags, down, lock_mouse, pc>>
  BY DEF Press, evdevVars, ctxVars
<1>3. CASE states = <<>> /\ UNCHANGED queue
  <2>1. InputTypeOK'
    BY <1>1, <1>2, <1>3 DEF InputTypeOK, Take
  <2>2. /\ pc = "input_ctx_create" /\ seen[d] = {} /\ queue[d] = <<>>
    BY <1>2, <1>3 DEF Attached, At, Ending
  <2>3. DOMAIN queue[d] = {}
    BY <2>2
  <2>4. QueueTells(d)'
    BY <1>2, <1>3, <2>2, <2>3 DEF QueueTells, Consistent, Presses
  <2>5. ASSUME NEW x \in Keyboards, x # d PROVE QueueTells(x)'
    BY <1>2, <1>3, <2>5, Untouched DEF QueuesTell, InputTypeOK
  <2>6. QueuesTell'
    BY <2>4, <2>5, Zenon DEF QueuesTell
  <2>7. SyncsAreRead' /\ FlagsAnswered' /\ Attached'
    BY <1>2, <1>3 DEF SyncsAreRead, Reading, At, FlagsAnswered, Attached
  <2> QED BY <2>1, <2>6, <2>7
<1>4. CASE states # <<>> /\ Enqueue(d, e)
  <2>1. value \in 0 .. 1
    OBVIOUS
  <2>2. e \in Events
    BY <1>1, <2>1 DEF Events
  <2>3. queue[d] \in Seq(Events) /\ Dropped \in Events
    BY DEF InputTypeOK, Events
  <2> HIDE DEF e
  <2>4. InputTypeOK'
    BY <1>1, <1>2, <1>4, <2>2, <2>3 DEF InputTypeOK, Take, Enqueue
  <2>5. QueueTells(d)'
    <3>1. CASE Len(queue[d]) < QueueCap
      <4>1. queue'[d] = Append(queue[d], e)
        BY <1>4, <3>1 DEF Enqueue, InputTypeOK
      <4>5. /\ DOMAIN queue[d] = 1 .. Len(queue[d]) /\ Len(queue[d]) \in Nat
            /\ DOMAIN queue'[d] = 1 .. Len(queue[d]) + 1
            /\ queue'[d][Len(queue[d]) + 1] = e
            /\ \A i \in DOMAIN queue[d] : queue'[d][i] = queue[d][i]
        BY <2>2, <2>3, <4>1
      <4> SUFFICES ASSUME sync[d] # "needed", ~Overflowed(d)',
                          NEW k \in Keys, k \notin held'[d]
                   PROVE  Consistent(d, k)'
        BY <1>2 DEF QueueTells
      <4>2. ~Overflowed(d)
        BY <2>3, <4>1 DEF Overflowed
      <4>3. CASE k = key
        <5>1. key \in held[d]
          BY <1>2, <4>3 DEF Take, InputTypeOK
        <5>2. e = Event(key, 0)
          BY <5>1 DEF e
        <5>3. Len(queue[d]) + 1 \in Releases(d, k)'
          BY <4>3, <4>5, <5>2 DEF Releases
        <5>4. \A p \in Presses(d, k)' : p < Len(queue[d]) + 1
          BY <4>5, <5>2 DEF Presses, Event
        <5> QED BY <5>3, <5>4 DEF Consistent
      <4>4. CASE k # key
        <5>1. k \notin held[d]
          BY <1>2, <4>4 DEF Take, InputTypeOK
        <5>2. Consistent(d, k)
          BY <1>2, <4>2, <5>1 DEF QueuesTell, QueueTells
        <5>3. e # Event(k, 1)
          BY <4>4 DEF e, Event
        <5>4. Presses(d, k)' = Presses(d, k) /\ Releases(d, k) \subseteq Releases(d, k)'
          BY <4>5, <5>3 DEF Presses, Releases
        <5> QED BY <1>2, <5>2, <5>4 DEF Consistent
      <4> QED BY <4>3, <4>4
    <3>2. CASE ~(Len(queue[d]) < QueueCap)
      <4>1. queue'[d] = <<Dropped, e>>
        BY <1>4, <3>2 DEF Enqueue, InputTypeOK
      <4> QED BY <4>1 DEF QueueTells, Overflowed
    <3> QED BY <3>1, <3>2
  <2>6. ASSUME NEW x \in Keyboards, x # d PROVE QueueTells(x)'
    BY <1>2, <1>4, <2>6, Untouched DEF QueuesTell, InputTypeOK, Enqueue
  <2>7. QueuesTell'
    BY <2>5, <2>6, Zenon DEF QueuesTell
  <2>8. SyncsAreRead' /\ FlagsAnswered'
    BY <1>2 DEF SyncsAreRead, Reading, At, FlagsAnswered
  <2>9. Attached'
    BY <1>2, <1>4 DEF Attached, At
  <2> QED BY <2>4, <2>7, <2>8, <2>9
<1> QED BY <1>3, <1>4 DEF Press

LEMMA ReadNormalSafe ==
  ASSUME InputInv, NextEvent, NEW d, d = states[dev], ReadNormal(d)
  PROVE  InputInv'
<1> USE DEF InputInv
<1> DEFINE e == Head(queue[d])
<1>1. /\ pc = "next_event" /\ dev \in DOMAIN states /\ d \in Keyboards /\ flags = "normal"
      /\ d \notin gone /\ queue[d] \in Seq(Events) /\ queue[d] # <<>>
      /\ pend' = [pend EXCEPT ![d] = {}]
      /\ queue' = [queue EXCEPT ![d] = Tail(@)]
      /\ UNCHANGED <<held, gone, states, dev, lock_mouse, pc>>
  BY DEF NextEvent, At, ReadNormal, InputTypeOK
<1>2. /\ DOMAIN queue[d] = 1 .. Len(queue[d]) /\ Len(queue[d]) \in Nat \ {0}
      /\ queue'[d] \in Seq(Events)
      /\ DOMAIN queue'[d] = 1 .. Len(queue[d]) - 1
      /\ \A i \in DOMAIN queue'[d] : queue'[d][i] = queue[d][i + 1]
      /\ e = queue[d][1] /\ e \in Events
  BY <1>1 DEF InputTypeOK
<1>3. \A x \in Keyboards : pend[x] = {} /\ (sync[x] = "needed" => x \in gone)
  BY <1>1 DEF SyncsAreRead, Reading
<1>4. CASE e = Dropped
  <2>1. /\ sync' = [sync EXCEPT ![d] = "needed"] /\ flags' = "sync"
        /\ UNCHANGED <<seen, down>>
    BY <1>4 DEF ReadNormal
  <2>2. InputTypeOK'
    BY <1>1, <1>2, <2>1 DEF InputTypeOK
  <2>3. QueueTells(d)'
    BY <1>1, <2>1 DEF QueueTells, InputTypeOK
  <2>4. ASSUME NEW x \in Keyboards, x # d PROVE QueueTells(x)'
    BY <1>1, <2>1, <2>4, Untouched DEF QueuesTell, InputTypeOK
  <2>5. QueuesTell'
    BY <2>3, <2>4, Zenon DEF QueuesTell
  <2>6. SyncsAreRead'
    BY <1>1, <1>3, <2>1 DEF SyncsAreRead, Reading, At, InputTypeOK
  <2>7. FlagsAnswered' /\ Attached'
    BY <1>1, <1>3, <2>1 DEF FlagsAnswered, Attached, At
  <2> QED BY <2>2, <2>5, <2>6, <2>7
<1>5. CASE e # Dropped
  <2>1. PICK key \in Keys, value \in 0 .. 1 : e = Event(key, value)
    BY <1>2, <1>5 DEF Events
  <2>2. /\ sync' = [sync EXCEPT ![d] = "none"]
        /\ seen' = [seen EXCEPT ![d] = Take(@, key, value)]
        /\ down' = Take(down, key, value)
        /\ flags' = flags
    BY <1>5, <2>1 DEF ReadNormal, Event
  <2>3. InputTypeOK'
    BY <1>1, <1>2, <2>2 DEF InputTypeOK, Take
  <2>4. QueueTells(d)'
    <3> SUFFICES ASSUME ~Overflowed(d)', NEW k \in Keys, k \notin held[d]
                 PROVE  Consistent(d, k)'
      BY <1>1 DEF QueueTells
    <3>1. ~Overflowed(d)
      <4> SUFFICES ASSUME NEW i \in DOMAIN queue[d], queue[d][i] = Dropped PROVE FALSE
        BY DEF Overflowed
      <4>1. i # 1
        BY <1>2, <1>5
      <4>2. i - 1 \in DOMAIN queue'[d] /\ queue'[d][i - 1] = Dropped
        BY <1>2, <4>1
      <4> QED BY <4>2 DEF Overflowed
    <3>2. Consistent(d, k)
      BY <1>1, <1>3, <3>1 DEF QueuesTell, QueueTells
    <3>3. \A p \in Presses(d, k)' : p + 1 \in Presses(d, k)
      BY <1>2 DEF Presses
    <3>4. CASE k \notin seen[d] /\ Presses(d, k) = {}
      <4>1. k # key \/ value = 0
        BY <1>2, <2>1, <3>4 DEF Presses
      <4>2. k \notin seen'[d]
        BY <1>1, <2>2, <3>4, <4>1 DEF Take, InputTypeOK
      <4> QED BY <3>3, <3>4, <4>2 DEF Consistent
    <3>5. ASSUME NEW r \in Releases(d, k), \A p \in Presses(d, k) : p < r
          PROVE  Consistent(d, k)'
      <4>1. CASE r = 1
        <5>1. key = k /\ value = 0
          BY <1>2, <2>1, <4>1 DEF Releases, Event
        <5>2. k \notin seen'[d]
          BY <1>1, <2>2, <5>1 DEF Take, InputTypeOK
        <5>3. Presses(d, k)' = {}
          BY <1>2, <3>3, <3>5, <4>1 DEF Presses
        <5> QED BY <5>2, <5>3 DEF Consistent
      <4>2. CASE r # 1
        <5>1. r - 1 \in Releases(d, k)'
          BY <1>2, <4>2 DEF Releases
        <5>2. ASSUME NEW p \in Presses(d, k)' PROVE p < r - 1
          <6>1. p \in Nat /\ r \in Nat
            BY <1>2 DEF Presses, Releases
          <6>2. p + 1 < r
            BY <3>3, <3>5
          <6> QED BY <6>1, <6>2
        <5> QED BY <5>1, <5>2 DEF Consistent
      <4> QED BY <4>1, <4>2
    <3> QED BY <3>2, <3>4, <3>5 DEF Consistent
  <2>5. ASSUME NEW x \in Keyboards, x # d PROVE QueueTells(x)'
    BY <1>1, <2>2, <2>5, Untouched DEF QueuesTell, InputTypeOK
  <2>6. QueuesTell'
    BY <2>4, <2>5, Zenon DEF QueuesTell
  <2>7. SyncsAreRead'
    BY <1>1, <1>3, <2>2 DEF SyncsAreRead, InputTypeOK
  <2>8. FlagsAnswered'
    <3> SUFFICES ASSUME NEW k \in down'
                 PROVE  \E x \in Keyboards : x \in gone \/ k \in seen'[x]
      BY <1>1 DEF FlagsAnswered
    <3>1. CASE k = key
      BY <1>1, <2>2, <3>1 DEF Take, InputTypeOK
    <3>2. CASE k # key
      <4>1. PICK x \in Keyboards : x \in gone \/ k \in seen[x]
        BY <1>3, <2>2, <3>2 DEF FlagsAnswered, Take
      <4>2. k \in seen[x] => k \in seen'[x]
        BY <1>1, <2>2, <3>2 DEF Take, InputTypeOK
      <4> QED BY <4>1, <4>2
    <3> QED BY <3>1, <3>2
  <2>9. Attached'
    BY <1>1 DEF Attached, At
  <2> QED BY <2>3, <2>6, <2>7, <2>8, <2>9
<1> QED BY <1>4, <1>5

LEMMA CompareSafe ==
  ASSUME InputInv, NextEvent, NEW d, d = states[dev], Compare(d)
  PROVE  InputInv'
<1> USE DEF InputInv
<1>1. /\ pc = "next_event" /\ dev \in DOMAIN states /\ d \in Keyboards
      /\ flags = "sync" /\ sync[d] = "needed"
      /\ sync' = [sync EXCEPT ![d] = "running"] /\ queue' = [queue EXCEPT ![d] = <<>>]
      /\ seen' = [seen EXCEPT ![d] = held[d]]
      /\ pend' = [pend EXCEPT ![d] = (seen[d] \ held[d]) \cup (held[d] \ seen[d])]
      /\ UNCHANGED <<held, gone, states, dev, lock_mouse, pc, down, flags>>
  BY DEF NextEvent, At, Compare, InputTypeOK
<1>2. \A x \in Keyboards : pend[x] = {} /\ (sync[x] = "needed" => x \in gone \/ x = d)
  BY <1>1 DEF SyncsAreRead, Reading
<1>3. InputTypeOK'
  <2>1. <<>> \in Seq(Events)
    OBVIOUS
  <2> QED BY <1>1, <2>1 DEF InputTypeOK
<1>4. QueueTells(d)'
  <2>1. queue'[d] = <<>> /\ seen'[d] = held[d]
    BY <1>1 DEF InputTypeOK
  <2>2. DOMAIN queue'[d] = {}
    BY <2>1
  <2> QED BY <1>1, <2>1, <2>2 DEF QueueTells, Consistent, Presses
<1>5. ASSUME NEW x \in Keyboards, x # d PROVE QueueTells(x)'
  BY <1>1, <1>5, Untouched DEF QueuesTell, InputTypeOK
<1>6. QueuesTell'
  BY <1>4, <1>5, Zenon DEF QueuesTell
<1>7. SyncsAreRead'
  BY <1>1, <1>2 DEF SyncsAreRead, Reading, At, InputTypeOK
<1>8. FlagsAnswered'
  BY <1>1, <1>2 DEF FlagsAnswered, InputTypeOK
<1>9. Attached'
  BY <1>1 DEF Attached, At
<1> QED BY <1>3, <1>6, <1>7, <1>8, <1>9

LEMMA ReadSyncSafe ==
  ASSUME InputInv, NextEvent, NEW d, d = states[dev], ReadSync(d)
  PROVE  InputInv'
<1> USE DEF InputInv
<1>1. PICK key \in pend[d] :
        /\ down' = Take(down, key, IF key \in seen[d] THEN 1 ELSE 0)
        /\ pend' = [pend EXCEPT ![d] = @ \ {key}]
        /\ sync' = [sync EXCEPT ![d] = IF pend[d] = {key} THEN "none" ELSE @]
  BY DEF ReadSync
<1>2. /\ pc = "next_event" /\ dev \in DOMAIN states /\ d \in Keyboards /\ key \in Keys
      /\ flags = "sync" /\ sync[d] = "running"
      /\ UNCHANGED <<held, gone, states, dev, lock_mouse, pc, queue, seen, flags>>
  BY DEF NextEvent, At, ReadSync, InputTypeOK
<1>3. InputTypeOK'
  BY <1>1, <1>2 DEF InputTypeOK, Take
<1>4. QueuesTell'
  <2> SUFFICES ASSUME NEW x \in Keyboards PROVE QueueTells(x)'
    BY DEF QueuesTell
  <2> QED BY <1>1, <1>2, Untouched DEF QueuesTell, InputTypeOK
<1>5. SyncsAreRead'
  BY <1>1, <1>2 DEF SyncsAreRead, Reading, At, InputTypeOK
<1>6. FlagsAnswered'
  BY <1>1, <1>2 DEF FlagsAnswered, InputTypeOK, Take
<1>7. Attached'
  BY <1>2 DEF Attached, At
<1> QED BY <1>3, <1>4, <1>5, <1>6, <1>7

\* The steps of the program's thread.
LEMMA MainSafe == ASSUME InputInv, Main PROVE InputInv'
<1>1. ASSUME InputSteps PROVE InputInv'
  <2>1. CASE NextEvent
    <3> DEFINE d == states[dev]
    <3> QED BY <2>1, ReadNormalSafe, CompareSafe, ReadSyncSafe DEF NextEvent
  <2> QED BY <1>1, <2>1, InputRefreshSafe, InputUpdateSafe, NextDeviceSafe, InputDoneSafe
          DEF InputSteps
<1>2. ASSUME WindowSteps, UNCHANGED inputVars PROVE InputInv'
  BY <1>2, OtherSteps DEF WindowSteps, WindowCreate, Poll, Dispatch, PollDone, At, GoTo
<1>3. ASSUME GpuSteps, UNCHANGED inputVars PROVE InputInv'
  BY <1>3, OtherSteps
     DEF GpuSteps, GraphicsContextCreate, RenderContextCreate, CreateRenderState, At, GoTo
<1>4. ASSUME PointerLock PROVE InputInv'
  BY <1>4, OtherSteps DEF PointerLock, At, GoTo
<1>5. ASSUME FrameRestarts \/ Frame PROVE InputInv'
  BY <1>5, OtherSteps DEF FrameRestarts, Frame, At, GoTo
<1>6. ASSUME Destroy \/ Closed PROVE InputInv'
  BY <1>6, OtherSteps DEF Destroy, Closed, At, GoTo
<1> QED BY <1>1, <1>2, <1>3, <1>4, <1>5, <1>6, InputCleanupSafe DEF Main

LEMMA InputInvStep == InputInv /\ [DNext]_desktopVars => InputInv'
<1> SUFFICES ASSUME InputInv, [DNext]_desktopVars PROVE InputInv'
  OBVIOUS
<1>1. CASE Main
  BY <1>1, MainSafe
<1>2. CASE Kernel
  BY <1>2, PressSafe, UnplugSafe DEF Kernel
<1>3. CASE Server /\ UNCHANGED inputVars
  BY <1>3, OtherSteps DEF Server, AskToClose, Ping, AnswerRoundtrip, Resize
<1>4. CASE UNCHANGED desktopVars
  BY <1>4, OtherSteps DEF desktopVars
<1> QED BY <1>1, <1>2, <1>3, <1>4 DEF DNext

\* No key stays down that nobody holds: with any number of keyboards that share keys,
\* kernel queues of any length, and overflows, comparisons and unpluggings at any time.
THEOREM NoStuckKeys == DSpec => []NoStuckKey
<1> QED BY InputInvInit, InputInvStep, InputInvSuffices, PTL DEF DSpec

-------------------------------------------------------------------------------
(* The command buffers of the frames. *)

\* The library's Max of a set of queue families is one of them.
LEMMA MaxIsMember ==
  ASSUME NEW n \in Nat, NEW S \in SUBSET (1 .. n), S # {}
  PROVE  Max(S) \in S
<1> DEFINE T == {n - x : x \in S}
<1>1. T \subseteq Nat /\ T # {}
  <2>1. \A x \in S : n - x \in Nat
    OBVIOUS
  <2>2. PICK x \in S : TRUE
    OBVIOUS
  <2>3. n - x \in T
    OBVIOUS
  <2> QED BY <2>1, <2>3
<1>2. PICK t \in T : \A u \in T : <<u, t>> \notin OpToRel(<, Nat)
  <2> HIDE DEF T
  <2> QED BY <1>1, WFMin, NatLessThanWellFounded
<1>3. PICK x \in S : t = n - x
  OBVIOUS
<1>4. \A y \in S : x >= y
  <2> SUFFICES ASSUME NEW y \in S, x < y PROVE FALSE
    OBVIOUS
  <2>1. n - y \in T /\ n - y \in Nat /\ t \in Nat /\ n - y < t
    BY <1>3
  <2>2. <<n - y, t>> \in OpToRel(<, Nat)
    BY <2>1 DEF OpToRel
  <2> QED BY <1>2, <2>1, <2>2
<1> QED BY <1>4 DEF Max

Families == DOMAIN families

\* Before the families are chosen there is no pool, then the two differ; the frames'
\* buffers are made with their pool and nothing else is made in it.
GpuInv ==
  /\ families \in Devices
  /\ pools \in [Families -> {"null", "transient", "resettable"}]
  /\ buffers \in [Families -> {"null", "frames", "freed"}]
  /\ pc \in {"input_ctx_create", "window_create", "graphics_context_create"} =>
       pools = [f \in Families |-> "null"]
  /\ pc \notin {"input_ctx_create", "window_create", "graphics_context_create"} =>
       /\ graphics_idx \in Families /\ transfer_idx \in Families
       /\ graphics_idx # transfer_idx
       /\ pc = "render_context_create" => pools[graphics_idx] = "null"
       /\ pc # "render_context_create" => buffers[graphics_idx] = "frames"

\* A card with a family that copies and does not draw.
DedicatedTransfer ==
  \A device \in Devices : \E f \in DOMAIN device : "transfer" \in device[f] /\ "graphics" \notin device[f]

LEMMA GpuInvInit == DInit => GpuInv
  BY DEF DInit, GpuInit, GpuInv, Families

LEMMA GraphicsContextSafe ==
  ASSUME DedicatedTransfer, GpuInv, GraphicsContextCreate PROVE GpuInv'
<1> DEFINE apart == With("transfer") \ With("graphics")
<1>1. PICK n \in Nat : Families = 1 .. n
  BY DesktopAssumption DEF GpuInv, Families
<1>2. With("graphics") \subseteq 1 .. n /\ apart \subseteq 1 .. n
  BY <1>1 DEF With, Families
<1>3. With("graphics") # {} /\ apart # {}
  BY DesktopAssumption DEF With, DedicatedTransfer, GpuInv
<1>4. Max(With("graphics")) \in With("graphics") /\ Max(apart) \in apart
  BY <1>2, <1>3, MaxIsMember
<1>5. graphics_idx' \in With("graphics") /\ transfer_idx' \in apart
  BY <1>3, <1>4 DEF GraphicsContextCreate, FindQueueFamilies
<1>6. graphics_idx' \in Families /\ transfer_idx' \in Families /\ graphics_idx' # transfer_idx'
  BY <1>1, <1>2, <1>5
<1>7. /\ pc = "graphics_context_create" /\ pc' = "render_context_create"
      /\ pools' = [pools EXCEPT ![transfer_idx'] = "transient"]
      /\ UNCHANGED <<families, buffers>>
  BY DEF GraphicsContextCreate, At, GoTo
<1> QED BY <1>6, <1>7 DEF GpuInv, Families

LEMMA GpuInvStep ==
  ASSUME DedicatedTransfer, GpuInv, [DNext]_desktopVars PROVE GpuInv'
<1>1. CASE GraphicsContextCreate
  BY <1>1, GraphicsContextSafe
<1>2. CASE RenderContextCreate
  BY <1>2 DEF RenderContextCreate, GpuInv, Families, At, GoTo
<1>3. CASE CreateRenderState
  BY <1>3 DEF CreateRenderState, BufferCopy, GpuInv, Families, At, GoTo
<1>4. CASE InputSteps /\ UNCHANGED gpuVars
  BY <1>4 DEF InputSteps, InputRefresh, InputUpdate, NextEvent, NextDevice, InputDone, GpuInv,
              Families, gpuVars, At, GoTo
<1>5. CASE WindowSteps /\ UNCHANGED gpuVars
  <2>1. \/ pc = "window_create" /\ pc' = "graphics_context_create"
        \/ /\ pc \in {"window_poll_events", "roundtrip", "dispatch_pending"}
           /\ pc' \in {"roundtrip", "dispatch_pending", "input_update"}
    <3>1. CASE Dispatch
      BY <3>1 DEF Dispatch, GoTo
    <3> QED BY <1>5, <3>1 DEF WindowSteps, WindowCreate, Poll, PollDone, At, GoTo
  <2> QED BY <1>5, <2>1 DEF GpuInv, Families, gpuVars
<1>6. CASE (InputCleanup /\ UNCHANGED gpuVars) \/ PointerLock \/ FrameRestarts \/ Frame \/ Closed
  BY <1>6 DEF InputCleanup, PointerLock, FrameRestarts, Frame, Closed, GpuInv, Families, gpuVars,
              At, GoTo
<1>7. CASE Destroy
  BY <1>7 DEF Destroy, CleanupCommandPool, GpuInv, Families, At
<1>8. CASE (Kernel \/ Server) /\ UNCHANGED gpuVars
  BY <1>8 DEF Kernel, Unplug, Press, Server, AskToClose, Ping, AnswerRoundtrip, Resize, GpuInv,
              Families, gpuVars
<1>9. CASE UNCHANGED desktopVars
  BY <1>9 DEF desktopVars, gpuVars, GpuInv, Families
<1> QED BY <1>1, <1>2, <1>3, <1>4, <1>5, <1>6, <1>7, <1>8, <1>9 DEF DNext, Main, GpuSteps

\* Where the card has a family for copies alone, every frame finds the command buffers
\* that were made for the frames in flight.
THEOREM FrameBuffersAreLive == DedicatedTransfer => (DSpec => []FrameBuffersLive)
<1> SUFFICES ASSUME DedicatedTransfer PROVE DSpec => []FrameBuffersLive
  OBVIOUS
<1>1. GpuInv => FrameBuffersLive
  BY DEF GpuInv, FrameBuffersLive, At
<1>2. GpuInv /\ [DNext]_desktopVars => GpuInv'
  BY GpuInvStep
<1> QED BY <1>1, <1>2, GpuInvInit, PTL DEF DSpec

-------------------------------------------------------------------------------
(* The pointer's constraint. *)

\* What main destroys at its end names the lock at most once, and only when there is one.
Objects == {"pointer_constraints", "relative_pointer", "relative_pointer_manager", "xdg_toplevel",
            "xdg_surface", "xdg_base", "pointer", "keyboard", "seat", "surface", "compositor",
            "display", "x11_window", "screen", "locked_pointer", "slug_buff", "graphics_pool",
            "glyph_pipeline", "rect_pipeline", "swapchain", "vk_surface", "transfer_pool",
            "device", "instance"}
LocksIn(s) == {i \in DOMAIN s : s[i] = "locked_pointer"}

LockInv ==
  /\ locked_pointer \in BOOLEAN /\ constraints \in Nat
  /\ OneConstraint
  /\ doomed \in Seq(Objects)
  /\ pc # "cleanup" => doomed = <<>>
  /\ LocksIn(doomed) # {} => locked_pointer /\ backend = "wayland"
  /\ \A i, j \in LocksIn(doomed) : i = j

LEMMA LocksOfConcat ==
  ASSUME NEW s \in Seq(Objects), NEW t \in Seq(Objects)
  PROVE  /\ s \o t \in Seq(Objects)
         /\ \A i \in LocksIn(s \o t) :
              i \in Nat /\ (i \in LocksIn(s) \/ i - Len(s) \in LocksIn(t))
<1>1. /\ s \o t \in Seq(Objects) /\ Len(s \o t) = Len(s) + Len(t)
      /\ \A i \in 1 .. Len(s) + Len(t) :
           (s \o t)[i] = IF i <= Len(s) THEN s[i] ELSE t[i - Len(s)]
  BY ConcatProperties
<1>2. Len(s) \in Nat /\ Len(t) \in Nat /\ DOMAIN s = 1 .. Len(s) /\ DOMAIN t = 1 .. Len(t)
  OBVIOUS
<1> DEFINE u == s \o t
<1>3. DOMAIN u = 1 .. Len(s) + Len(t)
  BY <1>1
<1> HIDE DEF u
<1>4. ASSUME NEW i \in LocksIn(u)
      PROVE  i \in Nat /\ (i \in LocksIn(s) \/ i - Len(s) \in LocksIn(t))
  <2>1. i \in 1 .. Len(s) + Len(t) /\ u[i] = "locked_pointer"
    BY <1>3 DEF LocksIn
  <2>2. u[i] = IF i <= Len(s) THEN s[i] ELSE t[i - Len(s)]
    BY <1>1, <2>1 DEF u
  <2>3. CASE i <= Len(s)
    BY <1>2, <2>1, <2>2, <2>3 DEF LocksIn
  <2>4. CASE i > Len(s)
    <3>1. i - Len(s) \in 1 .. Len(t) /\ t[i - Len(s)] = "locked_pointer"
      BY <1>2, <2>1, <2>2, <2>4
    <3> QED BY <1>2, <2>1, <3>1 DEF LocksIn
  <2> QED BY <1>2, <2>1, <2>3, <2>4
<1> QED BY <1>1, <1>4 DEF u

LEMMA CleanupLocks ==
  ASSUME locked_pointer \in BOOLEAN
  PROVE  /\ Cleanup \in Seq(Objects)
         /\ LocksIn(Cleanup) # {} => locked_pointer /\ backend = "wayland"
         /\ \A i, j \in LocksIn(Cleanup) : i = j
<1>1. WindowObjects \in Seq(Objects) /\ LocksIn(WindowObjects) = {}
  <2>1. WaylandObjects \in Seq(Objects) /\ LocksIn(WaylandObjects) = {}
    BY DEF WaylandObjects, LocksIn, Objects
  <2>2. X11Objects \in Seq(Objects) /\ LocksIn(X11Objects) = {}
    BY DEF X11Objects, LocksIn, Objects
  <2> QED BY <2>1, <2>2 DEF WindowObjects
<1>2. GpuCleanup \in Seq(Objects) /\ LocksIn(GpuCleanup) = {}
  BY DEF GpuCleanup, LocksIn, Objects
<1>3. CASE locked_pointer /\ backend = "wayland"
  <2> DEFINE lock == <<"locked_pointer">>
  <2>1. lock \in Seq(Objects) /\ \A i \in LocksIn(lock) : i = 1
    BY DEF Objects, LocksIn
  <2>2. CloseOrder = lock \o WindowObjects
    BY <1>3 DEF CloseOrder
  <2> HIDE DEF lock
  <2>3. CloseOrder \in Seq(Objects) /\ \A i \in LocksIn(CloseOrder) : i = 1
    BY <1>1, <2>1, <2>2, LocksOfConcat
  <2>4. /\ Cleanup \in Seq(Objects) /\ Len(GpuCleanup) \in Nat
        /\ \A i \in LocksIn(Cleanup) : i - Len(GpuCleanup) = 1 /\ i \in Nat
    BY <1>2, <2>3, LocksOfConcat DEF Cleanup
  <2>5. \A i, j \in LocksIn(Cleanup) : i = j
    BY <2>4
  <2> QED BY <1>3, <2>4, <2>5
<1>4. CASE ~(locked_pointer /\ backend = "wayland")
  <2>1. CloseOrder = WindowObjects
    BY <1>4 DEF CloseOrder
  <2>2. Cleanup \in Seq(Objects) /\ LocksIn(Cleanup) = {}
    BY <1>1, <1>2, <2>1, LocksOfConcat DEF Cleanup
  <2> QED BY <2>2
<1> QED BY <1>3, <1>4

LEMMA LockInvInit == DInit => LockInv
<1> SUFFICES ASSUME DInit PROVE LockInv
  OBVIOUS
<1>1. locked_pointer = FALSE /\ constraints = 0 /\ doomed = <<>>
  BY DEF DInit, WindowInit
<1>2. locked_pointer \in BOOLEAN
  BY <1>1, Zenon
<1> QED BY <1>1, <1>2 DEF LockInv, OneConstraint, LocksIn

LEMMA LockInvStep ==
  ASSUME LockInv, InputInv, [DNext]_desktopVars PROVE LockInv'
<1> DEFINE Same == UNCHANGED <<locked_pointer, constraints, doomed, backend>>
<1>1. ASSUME Same, pc # "cleanup" PROVE LockInv'
  BY <1>1 DEF LockInv, OneConstraint, LocksIn
<1>2. ASSUME Same, pc' = pc PROVE LockInv'
  BY <1>2 DEF LockInv, OneConstraint, LocksIn
<1>3. CASE InputSteps /\ UNCHANGED <<windowVars, gpuVars, doomed, twice>>
  <2>1. Same
    BY <1>3 DEF windowVars, serverVars, grimVars
  <2> QED BY <1>1, <1>3, <2>1 DEF InputSteps, InputRefresh, InputUpdate, NextEvent, NextDevice,
                                   InputDone, At
<1>4. CASE WindowSteps /\ UNCHANGED <<inputVars, gpuVars, doomed, twice>>
  <2>1. Same /\ pc # "cleanup"
    BY <1>4 DEF WindowSteps, WindowCreate, Poll, Dispatch, PollDone, At, windowVars, serverVars,
                grimVars
  <2> QED BY <1>1, <2>1
<1>5. CASE \/ GpuSteps /\ UNCHANGED <<inputVars, windowVars, doomed, twice>>
           \/ InputCleanup /\ UNCHANGED <<windowVars, gpuVars, doomed, twice>>
           \/ FrameRestarts
  <2>1. Same
    BY <1>5 DEF FrameRestarts, windowVars, serverVars, grimVars
  <2> QED BY <1>1, <1>5, <2>1 DEF GpuSteps, GraphicsContextCreate, RenderContextCreate,
                                   CreateRenderState, InputCleanup, FrameRestarts, At
<1>6. CASE PointerLock
  <2>1. /\ pc = "pointer_lock" /\ doomed = <<>> /\ doomed' = doomed /\ backend' = backend
        /\ LockPointer(lock_mouse) /\ lock_mouse \in BOOLEAN
    BY <1>6 DEF PointerLock, At, LockInv, InputInv, InputTypeOK
  <2>2. CASE backend = "wayland" /\ lock_mouse # locked_pointer
    BY <2>1, <2>2 DEF LockPointer, LockInv, OneConstraint, LocksIn
  <2>3. CASE ~(backend = "wayland" /\ lock_mouse # locked_pointer)
    BY <2>1, <2>3 DEF LockPointer, LockInv, OneConstraint, LocksIn
  <2> QED BY <2>2, <2>3
<1>7. CASE Frame
  <2>1. /\ UNCHANGED <<locked_pointer, constraints, backend>> /\ pc = "start_frame"
        /\ \/ pc' = "cleanup" /\ doomed' = Cleanup
           \/ doomed' = doomed
    BY <1>7 DEF Frame, At, GoTo, grimVars
  <2>2. CASE doomed' = doomed
    BY <1>1, <2>1, <2>2
  <2>3. CASE pc' = "cleanup" /\ doomed' = Cleanup
    BY <2>1, <2>3, CleanupLocks DEF LockInv, OneConstraint, LocksIn
  <2> QED BY <2>1, <2>2, <2>3
<1>8. CASE Destroy
  <2>1. /\ doomed \in Seq(Objects) /\ doomed # <<>> /\ doomed' = Tail(doomed) /\ pc = "cleanup"
        /\ pc' = pc /\ backend' = backend
    BY <1>8 DEF Destroy, At, LockInv
  <2>2. /\ doomed' \in Seq(Objects) /\ Head(doomed) = doomed[1] /\ 1 \in DOMAIN doomed
        /\ \A i \in DOMAIN doomed' : i + 1 \in DOMAIN doomed /\ doomed'[i] = doomed[i + 1] /\ i \in Nat \ {0}
    BY <2>1
  <2>3. \A i \in LocksIn(doomed)' : i + 1 \in LocksIn(doomed) /\ i \in Nat \ {0}
    BY <2>2 DEF LocksIn
  <2>4. CASE Head(doomed) = "locked_pointer"
    <3>1. 1 \in LocksIn(doomed)
      BY <2>2, <2>4 DEF LocksIn
    <3>2. LocksIn(doomed)' = {}
      BY <2>3, <3>1 DEF LockInv
    <3>3. constraints' = constraints - 1 /\ locked_pointer' = FALSE
      BY <1>8, <2>4 DEF Destroy
    <3>4. locked_pointer' \in BOOLEAN
      BY <3>3, Zenon
    <3> QED BY <2>1, <2>2, <3>1, <3>2, <3>3, <3>4 DEF LockInv, OneConstraint
  <2>5. CASE Head(doomed) # "locked_pointer"
    <3>1. UNCHANGED <<constraints, locked_pointer>>
      BY <1>8, <2>5 DEF Destroy
    <3> QED BY <2>1, <2>2, <2>3, <3>1 DEF LockInv, OneConstraint
  <2> QED BY <2>4, <2>5
<1>9. CASE Closed
  BY <1>9 DEF Closed, LockInv, OneConstraint, LocksIn, windowVars, serverVars, grimVars
<1>10. CASE \/ Kernel /\ UNCHANGED <<windowVars, gpuVars, doomed, twice>>
            \/ Server /\ UNCHANGED <<inputVars, gpuVars, doomed, twice>>
  <2>1. Same /\ pc' = pc
    BY <1>10 DEF Kernel, Unplug, Press, Server, AskToClose, Ping, AnswerRoundtrip, Resize,
                 windowVars, serverVars, grimVars
  <2> QED BY <1>2, <2>1
<1>11. CASE UNCHANGED desktopVars
  BY <1>2, <1>11 DEF desktopVars, windowVars, serverVars, grimVars
<1> QED BY <1>3, <1>4, <1>5, <1>6, <1>7, <1>8, <1>9, <1>10, <1>11 DEF DNext, Main

\* The surface never has a second constraint, through any sequence of locks, unlocks and
\* the end of the program, and the window's idea of its lock is the server's.
THEOREM OneLock == DSpec => []OneConstraint
<1>1. LockInv => OneConstraint
  BY DEF LockInv
<1> QED BY <1>1, LockInvInit, LockInvStep, InputInvInit, InputInvStep, PTL DEF DSpec

-------------------------------------------------------------------------------
(* The size of the window. *)

ServerEvents ==
  {<<"ping">>, <<"close">>, <<"done">>, <<"expose">>, <<"notify">>} \cup {<<"configure", n>> : n \in Nat}
Configures(s) == {i \in DOMAIN s : s[i][1] = "configure"}
Dones(s) == {i \in DOMAIN s : s[i][1] = "done"}

\* On Wayland the configures on the wire are those not acknowledged yet, in order.
WireInOrder ==
  /\ \A i \in Configures(wire) : wire[i][2] \in acked + 1 .. Len(asked)
  /\ \A n \in acked + 1 .. Len(asked) : \E i \in Configures(wire) : wire[i][2] = n
  /\ \A i, j \in Configures(wire) : i < j => wire[i][2] < wire[j][2]
  /\ \A i \in DOMAIN wire : wire[i][1] # "expose"

\* The answer to a round trip comes after the configures sent before it began.
AnswerInOrder ==
  /\ syncing => pc = "roundtrip"
  /\ Dones(wire) # {} => pc = "roundtrip" /\ ~syncing
  /\ \A i, j \in Dones(wire) : i = j
  /\ \A d \in Dones(wire), i \in Configures(wire) : wire[i][2] <= poll_at => i < d

\* Once it has arrived the sizes given before the poll are acknowledged, and the window
\* has the last size acknowledged.
SizeAcknowledged ==
  /\ poll_at \in 0 .. Len(asked) /\ acked \in 0 .. Len(asked)
  /\ acked > 0 => width = EffectiveSize(asked[acked])
  /\ pc # "roundtrip" => poll_at <= acked
  /\ pc \in {"input_ctx_create", "window_create"} => ~attached /\ acked = 0

WindowInv ==
  /\ asked \in Seq(Nat) /\ wire \in Seq(ServerEvents)
  /\ backend = "wayland" => WireInOrder /\ AnswerInOrder /\ SizeAcknowledged

\* A step that leaves the window's events alone, and begins no poll.
LEMMA WindowUntouched ==
  ASSUME WindowInv, UNCHANGED <<backend, wire, asked, syncing, poll_at, acked, width>>,
         \/ pc' = pc /\ attached' = attached
         \/ /\ "roundtrip" \notin {pc, pc'} /\ pc' \notin {"input_ctx_create", "window_create"}
         \/ /\ "roundtrip" \notin {pc, pc'} /\ pc \in {"input_ctx_create", "window_create"}
            /\ attached' = attached
  PROVE  WindowInv'
<1> USE DEF WindowInv
<1>1. WireInOrder => WireInOrder'
  BY DEF WireInOrder, Configures
<1>2. AnswerInOrder => AnswerInOrder'
  BY DEF AnswerInOrder, Configures, Dones
<1>3. SizeAcknowledged => SizeAcknowledged'
  BY DEF SizeAcknowledged, EffectiveSize
<1> QED BY <1>1, <1>2, <1>3

\* What the server sends comes last on the wire.
LEMMA Sent ==
  ASSUME WindowInv, NEW event \in ServerEvents, wire' = Append(wire, event)
  PROVE  /\ wire' \in Seq(ServerEvents) /\ Len(wire) \in Nat
         /\ DOMAIN wire = 1 .. Len(wire) /\ DOMAIN wire' = 1 .. Len(wire) + 1
         /\ \A i \in DOMAIN wire : wire'[i] = wire[i]
         /\ wire'[Len(wire) + 1] = event
  BY DEF WindowInv

\* Events of other kinds than configures and answers keep the order.
LEMMA SentOther ==
  ASSUME WindowInv, NEW event \in {<<"ping">>, <<"close">>}, wire' = Append(wire, event),
         UNCHANGED <<backend, asked, syncing, poll_at, acked, width, attached, pc>>
  PROVE  WindowInv'
<1>1. event \in ServerEvents /\ event[1] \notin {"configure", "done", "expose"}
  BY DEF ServerEvents
<1>2. /\ Configures(wire)' = Configures(wire)
      /\ Dones(wire)' = Dones(wire)
  BY <1>1, Sent DEF Configures, Dones
<1>3. WireInOrder => WireInOrder'
  BY <1>1, <1>2, Sent DEF WireInOrder, Configures
<1>4. AnswerInOrder => AnswerInOrder'
  BY <1>1, <1>2, Sent DEF AnswerInOrder, Configures, Dones
<1>5. SizeAcknowledged => SizeAcknowledged'
  BY DEF SizeAcknowledged, EffectiveSize
<1> QED BY <1>1, <1>3, <1>4, <1>5, Sent DEF WindowInv

LEMMA ResizeInOrder ==
  ASSUME WindowInv, NEW size \in Sizes, Resize(size) PROVE WindowInv'
<1>1. /\ asked' = Append(asked, size) /\ asked \in Seq(Nat) /\ size \in Nat
      /\ UNCHANGED <<backend, syncing, poll_at, attached, acked, width, pc>>
  BY DesktopAssumption DEF Resize, Spontaneous, WindowInv, grimVars
<1>2. /\ asked' \in Seq(Nat) /\ Len(asked') = Len(asked) + 1 /\ Len(asked) \in Nat
      /\ \A n \in 1 .. Len(asked) : asked'[n] = asked[n]
  BY <1>1
<1>3. CASE backend = "wayland"
  <2> DEFINE e == <<"configure", Len(asked')>>
  <2>1. /\ wire' = Append(wire, e) /\ attached
    BY <1>3 DEF Resize, Send
  <2>2. e \in ServerEvents /\ e[1] = "configure" /\ e[2] = Len(asked) + 1
    BY <1>2 DEF ServerEvents
  <2> HIDE DEF e
  <2>3. /\ wire' \in Seq(ServerEvents) /\ Len(wire) \in Nat
        /\ DOMAIN wire = 1 .. Len(wire) /\ DOMAIN wire' = 1 .. Len(wire) + 1
        /\ \A i \in DOMAIN wire : wire'[i] = wire[i]
        /\ wire'[Len(wire) + 1] = e
    BY <2>1, <2>2, Sent
  <2> DEFINE last == Len(wire) + 1
  <2>4. /\ Configures(wire)' = Configures(wire) \cup {last}
        /\ Dones(wire)' = Dones(wire)
        /\ Dones(wire) \subseteq 1 .. Len(wire) /\ Configures(wire) \subseteq 1 .. Len(wire)
    BY <2>2, <2>3 DEF Configures, Dones
  <2>5. WireInOrder /\ AnswerInOrder /\ SizeAcknowledged
    BY <1>3 DEF WindowInv
  <2>6. acked \in 0 .. Len(asked) /\ poll_at \in 0 .. Len(asked)
    BY <2>5 DEF SizeAcknowledged
  <2>7. SizeAcknowledged'
    BY <1>1, <1>2, <2>1, <2>5 DEF SizeAcknowledged, EffectiveSize
  <2>8. WireInOrder'
    <3>1. \A i \in Configures(wire)' : wire'[i][2] \in acked + 1 .. Len(asked')
      BY <1>2, <2>2, <2>3, <2>4, <2>5, <2>6 DEF WireInOrder
    <3>5. /\ \A i \in Configures(wire) : i \in 1 .. Len(wire) /\ wire'[i] = wire[i]
          /\ last \in Configures(wire)' /\ wire'[last][2] = Len(asked) + 1
      BY <2>2, <2>3, <2>4
    <3>2. \A n \in acked + 1 .. Len(asked') : \E i \in Configures(wire)' : wire'[i][2] = n
      <4> SUFFICES ASSUME NEW n \in acked + 1 .. Len(asked')
                   PROVE  \E i \in Configures(wire)' : wire'[i][2] = n
        OBVIOUS
      <4>1. CASE n = Len(asked) + 1
        BY <3>5, <4>1
      <4>2. CASE n # Len(asked) + 1
        <5>1. n \in acked + 1 .. Len(asked)
          BY <1>2, <2>6, <4>2
        <5>2. PICK i \in Configures(wire) : wire[i][2] = n
          BY <2>5, <5>1 DEF WireInOrder
        <5> QED BY <2>4, <3>5, <5>2
      <4> QED BY <4>1, <4>2
    <3>3. \A i, j \in Configures(wire)' : i < j => wire'[i][2] < wire'[j][2]
      <4> SUFFICES ASSUME NEW i \in Configures(wire)', NEW j \in Configures(wire)', i < j
                   PROVE  wire'[i][2] < wire'[j][2]
        OBVIOUS
      <4>1. i \in Configures(wire)
        BY <2>3, <2>4
      <4>2. wire'[i] = wire[i] /\ wire[i][2] \in acked + 1 .. Len(asked)
        BY <2>5, <3>5, <4>1 DEF WireInOrder
      <4>3. CASE j = last
        BY <1>2, <2>6, <3>5, <4>2, <4>3
      <4>4. CASE j \in Configures(wire)
        BY <2>5, <3>5, <4>1, <4>2, <4>4 DEF WireInOrder
      <4> QED BY <2>4, <4>3, <4>4
    <3>4. \A i \in DOMAIN wire' : wire'[i][1] # "expose"
      BY <2>2, <2>3, <2>5 DEF WireInOrder
    <3> QED BY <1>1, <3>1, <3>2, <3>3, <3>4 DEF WireInOrder
  <2>9. AnswerInOrder'
    <3>1. \A d \in Dones(wire)', i \in Configures(wire)' : wire'[i][2] <= poll_at => i < d
      BY <2>2, <2>3, <2>4, <2>5, <2>6 DEF AnswerInOrder
    <3> QED BY <1>1, <2>4, <2>5, <3>1 DEF AnswerInOrder
  <2> QED BY <1>1, <1>2, <2>3, <2>7, <2>8, <2>9 DEF WindowInv
<1>4. CASE backend # "wayland"
  <2>1. PICK e \in {<<"notify">>, <<"expose">>} : wire' = Append(wire, e)
    BY <1>4 DEF Resize, Send
  <2>2. wire' \in Seq(ServerEvents)
    BY <2>1, Sent DEF ServerEvents
  <2> QED BY <1>1, <1>2, <1>4, <2>2 DEF WindowInv
<1> QED BY <1>3, <1>4

LEMMA AnswerComesLast ==
  ASSUME WindowInv, AnswerRoundtrip PROVE WindowInv'
<1> DEFINE e == <<"done">>
<1>1. /\ syncing /\ ~syncing' /\ wire' = Append(wire, e)
      /\ UNCHANGED <<backend, asked, poll_at, attached, acked, width, pc>>
  BY DEF AnswerRoundtrip, Send, grimVars
<1>2. e \in ServerEvents /\ e[1] = "done"
  BY DEF ServerEvents
<1> HIDE DEF e
<1>3. /\ wire' \in Seq(ServerEvents) /\ Len(wire) \in Nat
      /\ DOMAIN wire = 1 .. Len(wire) /\ DOMAIN wire' = 1 .. Len(wire) + 1
      /\ \A i \in DOMAIN wire : wire'[i] = wire[i]
      /\ wire'[Len(wire) + 1] = e
  BY <1>1, <1>2, Sent
<1>4. CASE backend = "wayland"
  <2>1. WireInOrder /\ AnswerInOrder /\ SizeAcknowledged
    BY <1>4 DEF WindowInv
  <2>2. /\ Configures(wire)' = Configures(wire)
        /\ Dones(wire)' = {Len(wire) + 1}
        /\ Configures(wire) \subseteq 1 .. Len(wire)
    BY <1>1, <1>2, <1>3, <2>1 DEF Configures, Dones, AnswerInOrder
  <2>3. WireInOrder'
    BY <1>1, <1>2, <1>3, <2>1, <2>2 DEF WireInOrder
  <2>4. AnswerInOrder'
    BY <1>1, <1>3, <2>1, <2>2 DEF AnswerInOrder
  <2>5. SizeAcknowledged'
    BY <1>1, <2>1 DEF SizeAcknowledged, EffectiveSize
  <2> QED BY <1>1, <1>3, <2>3, <2>4, <2>5 DEF WindowInv
<1>5. CASE backend # "wayland"
  BY <1>1, <1>3, <1>5 DEF WindowInv
<1> QED BY <1>4, <1>5

LEMMA PollInOrder == WindowInv /\ Poll => WindowInv'
<1> SUFFICES ASSUME WindowInv, Poll PROVE WindowInv'
  OBVIOUS
<1>1. /\ pc = "window_poll_events" /\ pc' = (IF backend = "wayland" THEN "roundtrip" ELSE "dispatch_pending")
      /\ poll_at' = (IF backend = "wayland" THEN Len(asked) ELSE 0)
      /\ UNCHANGED <<backend, wire, asked, attached, acked, width>>
  BY DEF Poll, At, GoTo, grimVars
<1>2. CASE backend = "wayland"
  <2>1. WireInOrder /\ AnswerInOrder /\ SizeAcknowledged
    BY <1>2 DEF WindowInv
  <2>2. WireInOrder'
    BY <1>1, <2>1 DEF WireInOrder, Configures
  <2>3. Dones(wire)' = {}
    BY <1>1, <2>1 DEF AnswerInOrder, Dones
  <2>4. AnswerInOrder'
    BY <1>1, <1>2, <2>3 DEF AnswerInOrder
  <2>5. Len(asked) \in Nat
    BY DEF WindowInv
  <2>6. SizeAcknowledged'
    BY <1>1, <1>2, <2>1, <2>5 DEF SizeAcknowledged, EffectiveSize
  <2> QED BY <1>1, <2>2, <2>4, <2>6 DEF WindowInv
<1>3. CASE backend # "wayland"
  BY <1>1, <1>3 DEF WindowInv
<1> QED BY <1>2, <1>3

LEMMA DispatchInOrder == WindowInv /\ Dispatch => WindowInv'
<1> SUFFICES ASSUME WindowInv, Dispatch PROVE WindowInv'
  OBVIOUS
<1> DEFINE e == Head(wire)
<1>1. /\ wire' = Tail(wire) /\ wire # <<>> /\ Handle(e) /\ pc \in {"roundtrip", "dispatch_pending"}
      /\ UNCHANGED <<backend, asked, syncing, poll_at, attached>>
      /\ e = <<"done">> => pc' = "dispatch_pending"
      /\ e # <<"done">> /\ backend = "wayland" => pc' = pc
  BY DEF Dispatch, GoTo
<1>2. /\ wire' \in Seq(ServerEvents) /\ Len(wire) \in Nat \ {0} /\ e = wire[1] /\ e \in ServerEvents
      /\ DOMAIN wire = 1 .. Len(wire) /\ DOMAIN wire' = 1 .. Len(wire) - 1
      /\ \A i \in DOMAIN wire' : wire'[i] = wire[i + 1]
  BY <1>1 DEF WindowInv
<1>3. /\ e[1] = "done" <=> e = <<"done">>
      /\ e[1] = "configure" => e[2] \in Nat
  BY <1>2 DEF ServerEvents
<1> HIDE DEF e
<1>4. CASE backend = "wayland"
  <2>1. WireInOrder /\ AnswerInOrder /\ SizeAcknowledged
    BY <1>4 DEF WindowInv
  <2>2. /\ \A i \in Configures(wire)' : i + 1 \in Configures(wire) /\ i \in Nat \ {0}
        /\ \A i \in Dones(wire)' : i + 1 \in Dones(wire) /\ i \in Nat \ {0}
        /\ \A i \in Configures(wire) : i # 1 => i - 1 \in Configures(wire)' /\ i \in Nat
        /\ 1 \in Configures(wire) <=> e[1] = "configure"
        /\ 1 \in Dones(wire) <=> e[1] = "done"
    BY <1>2 DEF Configures, Dones
  <2>3. CASE e[1] = "configure"
    <3> DEFINE n == e[2]
    <3>1. /\ width' = EffectiveSize(asked[n]) /\ acked' = n
      BY <1>1, <2>3 DEF Handle, OnConfigure, EffectiveSize
    <3>2. n \in acked + 1 .. Len(asked) /\ acked \in 0 .. Len(asked) /\ Len(asked) \in Nat
      BY SMTT(20), <1>2, <2>1, <2>2, <2>3 DEF WireInOrder, SizeAcknowledged, WindowInv
    <3>3. \A i \in Configures(wire) : i # 1 => wire[i][2] > n
      BY <1>2, <2>1, <2>2, <2>3 DEF WireInOrder, Configures
    <3>4. n = acked + 1
      <4>1. PICK i \in Configures(wire) : wire[i][2] = acked + 1
        BY <2>1, <3>2 DEF WireInOrder
      <4> QED BY <1>2, <3>2, <3>3, <4>1
    <3>5. pc' = pc /\ Dones(wire) \subseteq Nat
      BY <1>1, <1>2, <1>3, <1>4, <2>3 DEF Dones
    <3> HIDE DEF n
    <3>6. WireInOrder'
      <4>1. \A i \in Configures(wire)' : wire'[i][2] \in acked' + 1 .. Len(asked')
        BY <1>1, <1>2, <2>1, <2>2, <3>1, <3>2, <3>3 DEF WireInOrder, Configures
      <4>2. \A m \in acked' + 1 .. Len(asked') : \E i \in Configures(wire)' : wire'[i][2] = m
        <5> SUFFICES ASSUME NEW m \in acked' + 1 .. Len(asked')
                     PROVE  \E i \in Configures(wire)' : wire'[i][2] = m
          OBVIOUS
        <5>1. m \in acked + 1 .. Len(asked) /\ m # n
          BY <1>1, <3>1, <3>2, <3>4
        <5>2. PICK i \in Configures(wire) : wire[i][2] = m
          BY <2>1, <5>1 DEF WireInOrder
        <5>3. i # 1
          BY <1>2, <5>1, <5>2 DEF n
        <5>4. i - 1 \in Configures(wire)' /\ wire'[i - 1] = wire[i]
          BY <1>2, <2>2, <5>2, <5>3 DEF Configures
        <5> QED BY <5>2, <5>4
      <4>3. \A i, j \in Configures(wire)' : i < j => wire'[i][2] < wire'[j][2]
        BY SMTT(20), <1>2, <2>1, <2>2 DEF WireInOrder, Configures
      <4>4. \A i \in DOMAIN wire' : wire'[i][1] # "expose"
        BY <1>2, <2>1 DEF WireInOrder
      <4> QED BY <4>1, <4>2, <4>3, <4>4 DEF WireInOrder
    <3>7. AnswerInOrder'
      <4>1. \A d \in Dones(wire)', i \in Configures(wire)' : wire'[i][2] <= poll_at => i < d
        BY <1>2, <2>1, <2>2 DEF AnswerInOrder, Configures
      <4>2. \A i, j \in Dones(wire)' : i = j
        BY <2>1, <2>2 DEF AnswerInOrder
      <4>3. Dones(wire)' # {} => Dones(wire) # {}
        BY <2>2
      <4> QED BY <1>1, <2>1, <3>5, <4>1, <4>2, <4>3 DEF AnswerInOrder
    <3>8. SizeAcknowledged'
      BY <1>1, <2>1, <3>1, <3>2, <3>4, <3>5 DEF SizeAcknowledged, EffectiveSize
    <3> QED BY <1>1, <1>2, <3>6, <3>7, <3>8 DEF WindowInv
  <2>4. CASE e[1] # "configure"
    <3>1. e[1] # "expose"
      BY <1>2, <2>1 DEF WireInOrder
    <3>2. UNCHANGED <<width, acked>>
      BY <1>1, <2>4, <3>1 DEF Handle, OnPing, OnClose
    <3>3. WireInOrder'
      <4>1. \A i \in Configures(wire)' : wire'[i][2] \in acked + 1 .. Len(asked)
        BY <1>2, <2>1, <2>2 DEF WireInOrder, Configures
      <4>2. \A m \in acked + 1 .. Len(asked) : \E i \in Configures(wire)' : wire'[i][2] = m
        <5> SUFFICES ASSUME NEW m \in acked + 1 .. Len(asked)
                     PROVE  \E i \in Configures(wire)' : wire'[i][2] = m
          OBVIOUS
        <5>1. PICK i \in Configures(wire) : wire[i][2] = m
          BY <2>1 DEF WireInOrder
        <5>2. i # 1
          BY <2>2, <2>4, <5>1
        <5>3. i - 1 \in Configures(wire)' /\ wire'[i - 1] = wire[i]
          BY <1>2, <2>2, <5>1, <5>2 DEF Configures
        <5> QED BY <5>1, <5>3
      <4>3. \A i, j \in Configures(wire)' : i < j => wire'[i][2] < wire'[j][2]
        BY SMTT(20), <1>2, <2>1, <2>2 DEF WireInOrder, Configures
      <4>4. \A i \in DOMAIN wire' : wire'[i][1] # "expose"
        BY <1>2, <2>1 DEF WireInOrder
      <4> QED BY <1>1, <3>2, <4>1, <4>2, <4>3, <4>4 DEF WireInOrder
    <3>4. CASE e[1] = "done"
      <4>1. pc = "roundtrip" /\ ~syncing /\ Dones(wire)' = {}
        BY <2>1, <2>2, <3>4 DEF AnswerInOrder
      <4>2. AnswerInOrder'
        BY <1>1, <4>1 DEF AnswerInOrder
      <4>3. poll_at <= acked
        <5> SUFFICES ASSUME acked < poll_at PROVE FALSE
          BY <2>1 DEF SizeAcknowledged
        <5>1. poll_at \in acked + 1 .. Len(asked)
          BY <2>1 DEF SizeAcknowledged
        <5>2. PICK i \in Configures(wire) : wire[i][2] = poll_at
          BY <2>1, <5>1 DEF WireInOrder
        <5>3. i < 1
          BY <2>1, <2>2, <3>4, <5>1, <5>2 DEF AnswerInOrder
        <5> QED BY <1>2, <5>2, <5>3 DEF Configures
      <4>4. SizeAcknowledged'
        BY <1>1, <1>3, <2>1, <3>2, <3>4, <4>3 DEF SizeAcknowledged, EffectiveSize
      <4> QED BY <1>1, <1>2, <3>3, <4>2, <4>4 DEF WindowInv
    <3>5. CASE e[1] # "done"
      <4>1. pc' = pc
        BY <1>1, <1>3, <1>4, <3>5
      <4>2. AnswerInOrder'
        <5>1. \A d \in Dones(wire)', i \in Configures(wire)' : wire'[i][2] <= poll_at => i < d
          BY <1>2, <2>1, <2>2 DEF AnswerInOrder, Configures
        <5>2. \A i, j \in Dones(wire)' : i = j
          BY <2>1, <2>2 DEF AnswerInOrder
        <5>3. Dones(wire)' # {} => Dones(wire) # {}
          BY <2>2
        <5> QED BY <1>1, <2>1, <4>1, <5>1, <5>2, <5>3 DEF AnswerInOrder
      <4>3. SizeAcknowledged'
        BY <1>1, <2>1, <3>2, <4>1 DEF SizeAcknowledged, EffectiveSize
      <4> QED BY <1>1, <1>2, <3>3, <4>2, <4>3 DEF WindowInv
    <3> QED BY <3>4, <3>5
  <2> QED BY <2>3, <2>4
<1>5. CASE backend # "wayland"
  BY <1>1, <1>2, <1>5 DEF WindowInv
<1> QED BY <1>4, <1>5

LEMMA WindowInvInit == DInit => WindowInv
<1> SUFFICES ASSUME DInit PROVE WindowInv
  OBVIOUS
<1>1. wire = <<>> /\ asked = <<>> /\ poll_at = 0 /\ acked = 0 /\ syncing = FALSE /\ attached = FALSE
  BY DEF DInit, WindowInit
<1>2. DOMAIN wire = {} /\ Len(asked) = 0
  BY <1>1
<1>3. Configures(wire) = {} /\ Dones(wire) = {}
  BY <1>2 DEF Configures, Dones
<1> QED BY <1>1, <1>2, <1>3 DEF WindowInv, WireInOrder, AnswerInOrder, SizeAcknowledged

LEMMA WindowInvStep == WindowInv /\ [DNext]_desktopVars => WindowInv'
<1> SUFFICES ASSUME WindowInv, [DNext]_desktopVars PROVE WindowInv'
  OBVIOUS
<1> DEFINE Same == UNCHANGED <<backend, wire, asked, syncing, poll_at, acked, width>>
           Early == {"input_ctx_create", "window_create"}
<1>1. CASE InputSteps /\ UNCHANGED <<windowVars, gpuVars, doomed, twice>>
  <2>1. Same /\ attached' = attached
    BY <1>1 DEF windowVars, serverVars, grimVars
  <2>2. pc' = pc \/ ("roundtrip" \notin {pc, pc'} /\ (pc' \in Early => pc \in Early))
    BY <1>1 DEF InputSteps, InputRefresh, InputUpdate, NextEvent, NextDevice, InputDone, At, GoTo
  <2> QED BY <2>1, <2>2, WindowUntouched
<1>2. CASE GpuSteps /\ UNCHANGED <<inputVars, windowVars, doomed, twice>>
  <2>1. Same /\ "roundtrip" \notin {pc, pc'} /\ pc' \notin Early
    BY <1>2 DEF windowVars, serverVars, grimVars, GpuSteps, GraphicsContextCreate,
                RenderContextCreate, CreateRenderState, At, GoTo
  <2> QED BY <2>1, WindowUntouched
<1>3. CASE InputCleanup /\ UNCHANGED <<windowVars, gpuVars, doomed, twice>>
  <2>1. Same /\ "roundtrip" \notin {pc, pc'} /\ pc' \notin Early
    BY <1>3 DEF windowVars, serverVars, grimVars, InputCleanup, At, GoTo
  <2> QED BY <2>1, WindowUntouched
<1>4. CASE PointerLock \/ FrameRestarts \/ Frame \/ Destroy \/ Closed
  <2>1. Same /\ "roundtrip" \notin {pc, pc'} /\ pc' \notin Early
    BY <1>4 DEF windowVars, serverVars, grimVars, PointerLock, FrameRestarts, Frame, Destroy,
                Closed, At, GoTo
  <2> QED BY <2>1, WindowUntouched
<1>5. CASE Kernel /\ UNCHANGED <<windowVars, gpuVars, doomed, twice>>
  <2>1. Same /\ attached' = attached /\ pc' = pc
    BY <1>5 DEF windowVars, serverVars, grimVars, Kernel, Unplug, Press
  <2> QED BY <2>1, WindowUntouched
<1>6. CASE WindowCreate
  <2>1. /\ pc = "window_create" /\ pc' = "graphics_context_create"
        /\ UNCHANGED <<backend, wire, asked, syncing, poll_at, acked>>
    BY <1>6 DEF WindowCreate, At, GoTo, serverVars
  <2>2. WireInOrder => WireInOrder'
    BY <2>1 DEF WireInOrder, Configures
  <2>3. AnswerInOrder => AnswerInOrder'
    BY <2>1 DEF AnswerInOrder, Configures, Dones
  <2>4. SizeAcknowledged => SizeAcknowledged'
    BY <2>1 DEF SizeAcknowledged
  <2> QED BY <2>1, <2>2, <2>3, <2>4 DEF WindowInv
<1>7. CASE PollDone
  <2>1. Same /\ "roundtrip" \notin {pc, pc'} /\ pc' \notin Early
    BY <1>7 DEF windowVars, serverVars, grimVars, PollDone, At, GoTo
  <2> QED BY <2>1, WindowUntouched
<1>8. CASE Server /\ UNCHANGED <<inputVars, gpuVars, doomed, twice>>
  <2>1. CASE AskToClose
    BY <2>1, SentOther DEF AskToClose, Send, grimVars
  <2>2. CASE Ping
    BY <2>2, SentOther DEF Ping, Send, grimVars
  <2> QED BY <1>8, <2>1, <2>2, AnswerComesLast, ResizeInOrder DEF Server
<1>9. CASE UNCHANGED desktopVars
  <2>1. Same /\ attached' = attached /\ pc' = pc
    BY <1>9 DEF desktopVars, windowVars, serverVars, grimVars
  <2> QED BY <2>1, WindowUntouched
<1> QED BY <1>1, <1>2, <1>3, <1>4, <1>5, <1>6, <1>7, <1>8, <1>9, PollInOrder, DispatchInOrder
        DEF DNext, Main, WindowSteps

\* Each turn of the loop draws for the last size the Wayland server gave before the poll
\* began, or a later one, however configures, answers and polls interleave.
THEOREM SizesAreLatest == DSpec => []SizeIsLatest
<1>1. WindowInv => SizeIsLatest
  <2> SUFFICES ASSUME WindowInv, At("input_update"), backend = "wayland", poll_at > 0
               PROVE  \E n \in poll_at .. Len(asked) : width = EffectiveSize(asked[n])
    BY DEF SizeIsLatest
  <2>1. /\ poll_at \in 0 .. Len(asked) /\ acked \in 0 .. Len(asked) /\ poll_at <= acked
        /\ acked > 0 => width = EffectiveSize(asked[acked])
    BY DEF WindowInv, SizeAcknowledged, At
  <2>2. acked \in poll_at .. Len(asked) /\ acked > 0
    BY <2>1 DEF WindowInv
  <2> QED BY <2>1, <2>2
<1> QED BY <1>1, WindowInvInit, WindowInvStep, PTL DEF DSpec

-------------------------------------------------------------------------------
(* The teardown. *)

WaylandSet == {"pointer_constraints", "relative_pointer", "relative_pointer_manager", "xdg_toplevel",
               "xdg_surface", "xdg_base", "pointer", "keyboard", "seat", "surface", "compositor",
               "display"}
WindowSet == IF backend = "wayland" THEN WaylandSet ELSE {"x11_window", "screen", "display"}
ContextSet == {"instance", "vk_surface", "device", "swapchain"}
PipelineSet == {"glyph_pipeline", "rect_pipeline"}
LockSet == IF locked_pointer /\ backend = "wayland" THEN {"locked_pointer"} ELSE {}
Everything == WindowSet \cup ContextSet \cup PipelineSet \cup {"slug_buff"} \cup LockSet
PoolCalls == {"graphics_pool", "transfer_pool"}
PoolsAlive == {pools[f] : f \in DOMAIN families} \ {"null"}

\* The place of each call in the order in which main destroys what there is.
Rank(o) ==
  CASE o = "slug_buff" -> 1 [] o = "graphics_pool" -> 2 [] o = "glyph_pipeline" -> 3
    [] o = "rect_pipeline" -> 4 [] o = "swapchain" -> 5 [] o = "vk_surface" -> 6
    [] o = "transfer_pool" -> 7 [] o = "device" -> 8 [] o = "instance" -> 9
    [] o = "locked_pointer" -> 10
    [] o = "pointer_constraints" -> 11 [] o = "relative_pointer" -> 12
    [] o = "relative_pointer_manager" -> 13 [] o = "xdg_toplevel" -> 14 [] o = "xdg_surface" -> 15
    [] o = "xdg_base" -> 16 [] o = "pointer" -> 17 [] o = "keyboard" -> 18 [] o = "seat" -> 19
    [] o = "surface" -> 20 [] o = "compositor" -> 21 [] o = "display" -> 22
    [] o = "x11_window" -> 11 [] o = "screen" -> 12

Members(s) == {s[i] : i \in DOMAIN s}
Ranked(s) == \A i, j \in DOMAIN s : i < j => Rank(s[i]) < Rank(s[j])

Setup == {"input_ctx_create", "window_create", "graphics_context_create", "render_context_create",
          "create_render_state"}
Looping == {"window_poll_events", "roundtrip", "dispatch_pending", "input_update", "next_event",
            "pointer_lock", "start_frame"}

\* Until the loop ends what exists is what was created.
Created ==
  /\ pc \in Setup \cup Looping \cup {"cleanup", "input_cleanup", "exit"}
  /\ pc \in {"input_ctx_create", "window_create"} => alive = {}
  /\ pc = "graphics_context_create" => alive = WindowSet
  /\ pc = "render_context_create" => alive = WindowSet \cup ContextSet \cup PoolsAlive
  /\ pc = "create_render_state" => alive = WindowSet \cup ContextSet \cup PipelineSet \cup PoolsAlive
  /\ pc \in Looping => alive = Everything \cup PoolsAlive
  /\ pc \in Setup => ~locked_pointer

\* Then what exists waits to be destroyed, each object before what it was made from,
\* and the command pools before the device; only the X11 screen is destroyed twice.
TornDown ==
  /\ pc = "cleanup" => /\ doomed \in Seq(Objects) /\ Ranked(doomed)
                       /\ alive = (Members(doomed) \ PoolCalls) \cup PoolsAlive
                       /\ \A o \in alive : Owners(o) \subseteq alive \cup Misfreed
  /\ pc \in {"input_cleanup", "exit"} => alive = {}
  /\ twice \subseteq Misfreed

\* A pool is its family's and no other's, and is to be destroyed under its name.
PoolsNamed ==
  /\ families \in Devices
  /\ pools \in [DOMAIN families -> {"null", "transient", "resettable"}]
  /\ IF pc \in {"input_ctx_create", "window_create", "graphics_context_create"}
       THEN \A f \in DOMAIN families : pools[f] = "null"
       ELSE {graphics_idx, transfer_idx} \subseteq DOMAIN families
  /\ \A f \in DOMAIN families : pools[f] # "null" =>
       /\ pools[f] = "transient" => f = transfer_idx
       /\ pools[f] = "resettable" => f = graphics_idx
       /\ pc = "cleanup" => \E call \in PoolCalls \cap Members(doomed) : f = PoolOf(call)
       /\ pc \notin {"input_cleanup", "exit"}

TeardownInv == Created /\ TornDown /\ PoolsNamed

LEMMA RankIsNat == \A o \in Objects : Rank(o) \in Nat
  BY DEF Objects, Rank

\* Every object is destroyed before those it was made from, the X11 screen apart.
LEMMA OwnersLater ==
  ASSUME NEW o \in Objects, NEW p \in Owners(o), p \notin Misfreed
  PROVE  p \in Objects /\ Rank(o) < Rank(p)
<1>1. CASE backend = "wayland"
  BY <1>1 DEF Objects, Owners, GpuOwners, WindowOwners, WindowObjects, WaylandObjects, Rank
<1>2. CASE backend # "wayland"
  BY <1>2 DEF Objects, Owners, GpuOwners, WindowOwners, WindowObjects, X11Objects, Rank, Misfreed
<1> QED BY <1>1, <1>2

LEMMA WindowMembers == Members(WindowObjects) = WindowSet
<1>1. Members(WaylandObjects) = WaylandSet
  BY DEF Members, WaylandObjects, WaylandSet
<1>2. Members(X11Objects) = {"x11_window", "screen", "display"}
  BY DEF Members, X11Objects
<1> QED BY <1>1, <1>2 DEF WindowObjects, WindowSet

LEMMA RankedLists ==
  /\ Ranked(WindowObjects) /\ \A o \in Members(WindowObjects) : Rank(o) \in 11 .. 22
  /\ Ranked(GpuCleanup) /\ \A o \in Members(GpuCleanup) : Rank(o) \in 1 .. 9
  /\ Members(GpuCleanup) = ContextSet \cup PipelineSet \cup {"slug_buff"} \cup PoolCalls
<1>1. \A i \in DOMAIN WaylandObjects : i \in 1 .. 12 /\ Rank(WaylandObjects[i]) = i + 10
  BY DEF WaylandObjects, Rank
<1>2. \A i \in DOMAIN GpuCleanup : i \in 1 .. 9 /\ Rank(GpuCleanup[i]) = i
  BY DEF GpuCleanup, Rank
<1>3. /\ DOMAIN X11Objects = 1 .. 3
      /\ Rank(X11Objects[1]) = 11 /\ Rank(X11Objects[2]) = 12 /\ Rank(X11Objects[3]) = 22
  BY DEF X11Objects, Rank
<1>4. Members(GpuCleanup) = ContextSet \cup PipelineSet \cup {"slug_buff"} \cup PoolCalls
  BY DEF GpuCleanup, Members, ContextSet, PipelineSet, PoolCalls
<1> QED BY <1>1, <1>2, <1>3, <1>4 DEF Ranked, Members, WindowObjects

LEMMA RankedConcat ==
  ASSUME NEW s \in Seq(Objects), NEW t \in Seq(Objects), Ranked(s), Ranked(t),
         \A o \in Members(s), p \in Members(t) : Rank(o) < Rank(p)
  PROVE  s \o t \in Seq(Objects) /\ Ranked(s \o t) /\ Members(s \o t) = Members(s) \cup Members(t)
<1>1. /\ s \o t \in Seq(Objects) /\ Len(s \o t) = Len(s) + Len(t)
      /\ \A i \in 1 .. Len(s) + Len(t) :
           (s \o t)[i] = IF i <= Len(s) THEN s[i] ELSE t[i - Len(s)]
  BY ConcatProperties
<1>2. Len(s) \in Nat /\ Len(t) \in Nat /\ DOMAIN s = 1 .. Len(s) /\ DOMAIN t = 1 .. Len(t)
  OBVIOUS
<1> DEFINE u == s \o t
<1>3. /\ DOMAIN u = 1 .. Len(s) + Len(t)
      /\ \A i \in DOMAIN s : i \in DOMAIN u /\ u[i] = s[i]
      /\ \A i \in DOMAIN t : Len(s) + i \in DOMAIN u /\ u[Len(s) + i] = t[i]
      /\ \A i \in DOMAIN u : \/ i \in DOMAIN s
                             \/ i > Len(s) /\ i - Len(s) \in DOMAIN t /\ u[i] = t[i - Len(s)]
  BY <1>1, <1>2
<1> HIDE DEF u
<1>4. Ranked(u)
  <2> SUFFICES ASSUME NEW i \in DOMAIN u, NEW j \in DOMAIN u, i < j PROVE Rank(u[i]) < Rank(u[j])
    BY DEF Ranked
  <2>1. CASE j \in DOMAIN s
    <3>1. i \in DOMAIN s
      BY <1>2, <1>3, <2>1
    <3> QED BY <1>3, <2>1, <3>1 DEF Ranked
  <2>2. CASE i \notin DOMAIN s
    <3>1. /\ i - Len(s) \in DOMAIN t /\ u[i] = t[i - Len(s)]
          /\ j - Len(s) \in DOMAIN t /\ u[j] = t[j - Len(s)]
          /\ i - Len(s) < j - Len(s)
      BY <1>2, <1>3, <2>2
    <3> QED BY <3>1 DEF Ranked
  <2>3. CASE i \in DOMAIN s /\ j \notin DOMAIN s
    <3>1. u[i] \in Members(s) /\ u[j] \in Members(t)
      BY <1>3, <2>3 DEF Members
    <3> QED BY <3>1
  <2> QED BY <2>1, <2>2, <2>3
<1>5. Members(u) = Members(s) \cup Members(t)
  <2>1. Members(u) \subseteq Members(s) \cup Members(t)
    BY <1>3 DEF Members
  <2>2. Members(s) \subseteq Members(u) /\ Members(t) \subseteq Members(u)
    BY <1>3 DEF Members
  <2> QED BY <2>1, <2>2
<1> QED BY <1>1, <1>4, <1>5 DEF u

LEMMA CleanupRanked ==
  /\ Cleanup \in Seq(Objects) /\ Ranked(Cleanup)
  /\ Members(Cleanup) = Everything \cup PoolCalls
<1> DEFINE lock == <<"locked_pointer">>
<1>1. WindowObjects \in Seq(Objects) /\ GpuCleanup \in Seq(Objects) /\ lock \in Seq(Objects)
  <2>1. WaylandObjects \in Seq(Objects)
    BY DEF WaylandObjects, Objects
  <2>2. X11Objects \in Seq(Objects)
    BY DEF X11Objects, Objects
  <2>3. GpuCleanup \in Seq(Objects) /\ lock \in Seq(Objects)
    BY DEF GpuCleanup, Objects
  <2> QED BY <2>1, <2>2, <2>3 DEF WindowObjects
<1>2. Ranked(lock) /\ Members(lock) = {"locked_pointer"} /\ Rank("locked_pointer") = 10
  BY DEF Ranked, Members, Rank
<1> HIDE DEF lock
<1>3. /\ CloseOrder \in Seq(Objects) /\ Ranked(CloseOrder)
      /\ Members(CloseOrder) = LockSet \cup WindowSet
      /\ \A o \in Members(CloseOrder) : Rank(o) \in 10 .. 22
  <2>1. CASE locked_pointer /\ backend = "wayland"
    <3>1. CloseOrder = lock \o WindowObjects
      BY <2>1 DEF CloseOrder, lock
    <3>2. \A o \in Members(lock), p \in Members(WindowObjects) : Rank(o) < Rank(p)
      BY <1>2, RankedLists
    <3>3. /\ lock \o WindowObjects \in Seq(Objects) /\ Ranked(lock \o WindowObjects)
          /\ Members(lock \o WindowObjects) = Members(lock) \cup Members(WindowObjects)
      BY <1>1, <1>2, <3>2, RankedConcat, RankedLists
    <3> QED BY <1>2, <2>1, <3>1, <3>3, RankedLists, WindowMembers DEF LockSet
  <2>2. CASE ~(locked_pointer /\ backend = "wayland")
    <3>1. CloseOrder = WindowObjects /\ LockSet = {}
      BY <2>2 DEF CloseOrder, LockSet
    <3> QED BY <1>1, <3>1, RankedLists, WindowMembers
  <2> QED BY <2>1, <2>2
<1>4. \A o \in Members(GpuCleanup), p \in Members(CloseOrder) : Rank(o) < Rank(p)
  BY <1>3, RankedLists
<1>5. /\ Cleanup \in Seq(Objects) /\ Ranked(Cleanup)
      /\ Members(Cleanup) = Members(GpuCleanup) \cup Members(CloseOrder)
  BY <1>1, <1>3, <1>4, RankedConcat, RankedLists DEF Cleanup
<1> QED BY <1>3, <1>5, RankedLists DEF Everything

\* No pool is made from a pool, and what a pool was made from is destroyed after it.
LEMMA PoolOwners ==
  /\ \A o : Owners(o) \cap {"transient", "resettable"} = {}
  /\ \A o \in {"transient", "resettable"} : Owners(o) = {"device"}
<1>1. CASE backend = "wayland"
  BY <1>1 DEF Owners, GpuOwners, WindowOwners, WindowObjects, WaylandObjects
<1>2. CASE backend # "wayland"
  BY <1>2 DEF Owners, GpuOwners, WindowOwners, WindowObjects, X11Objects
<1> QED BY <1>1, <1>2

\* The next call destroys: nothing that still exists was made from what it destroys.
LEMMA DestroySafe ==
  ASSUME TeardownInv, Destroy PROVE TeardownInv'
<1> DEFINE o == Head(doomed)
           Gone == Destroyed(o)
<1>1. /\ pc = "cleanup" /\ pc' = pc /\ doomed # <<>> /\ doomed' = Tail(doomed)
      /\ alive' = alive \ Gone /\ twice' = twice \cup (Gone \ alive)
      /\ UNCHANGED <<families, graphics_idx, transfer_idx, backend>>
      /\ IF o \in PoolCalls THEN CleanupCommandPool(o) ELSE UNCHANGED pools
  BY DEF Destroy, At, PoolCalls
<1>2. /\ doomed \in Seq(Objects) /\ Ranked(doomed)
      /\ alive = (Members(doomed) \ PoolCalls) \cup PoolsAlive
      /\ \A p \in alive : Owners(p) \subseteq alive \cup Misfreed
      /\ twice \subseteq Misfreed
  BY <1>1 DEF TeardownInv, TornDown
<1>3. /\ families \in Devices /\ pools \in [DOMAIN families -> {"null", "transient", "resettable"}]
      /\ {graphics_idx, transfer_idx} \subseteq DOMAIN families
      /\ \A f \in DOMAIN families : pools[f] # "null" =>
           /\ pools[f] = "transient" => f = transfer_idx
           /\ pools[f] = "resettable" => f = graphics_idx
           /\ \E call \in PoolCalls \cap Members(doomed) : f = PoolOf(call)
  BY <1>1 DEF TeardownInv, PoolsNamed
<1>4. /\ doomed' \in Seq(Objects) /\ o = doomed[1] /\ 1 \in DOMAIN doomed
      /\ \A i \in DOMAIN doomed' : i \in Nat \ {0} /\ i + 1 \in DOMAIN doomed /\ doomed'[i] = doomed[i + 1]
      /\ \A i \in DOMAIN doomed : i # 1 => i - 1 \in DOMAIN doomed' /\ i \in Nat /\ doomed'[i - 1] = doomed[i]
  BY <1>1, <1>2
<1>5. Gone = CASE o \in PoolCalls -> {pools[PoolOf(o)]} \ {"null"}
               [] o = "display" /\ backend = "x11" -> {"display", "screen"}
               [] OTHER -> {o}
  BY DEF Destroyed, PoolCalls
<1> HIDE DEF o, Gone
<1>6. Members(doomed) \subseteq Objects /\ o \in Members(doomed)
  BY <1>2, <1>4 DEF Members
<1>7. /\ Members(doomed)' = Members(doomed) \ {o}
      /\ \A p \in Members(doomed)' : Rank(o) < Rank(p)
  <2>1. \A p \in Members(doomed)' : p \in Members(doomed) /\ Rank(o) < Rank(p)
    BY <1>2, <1>4 DEF Members, Ranked
  <2>2. \A p \in Members(doomed) : p = o \/ p \in Members(doomed)'
    BY <1>4 DEF Members
  <2>3. o \notin Members(doomed)'
    BY <1>6, <2>1, RankIsNat
  <2> QED BY <2>1, <2>2, <2>3
<1>8. Ranked(doomed)'
  BY <1>2, <1>4 DEF Ranked
<1>9. UNCHANGED Misfreed /\ \A p : Owners(p)' = Owners(p)
  BY <1>1 DEF Misfreed, Owners, GpuOwners, WindowOwners, WindowObjects
<1>10. PoolsAlive \subseteq {"transient", "resettable"}
  BY <1>3 DEF PoolsAlive
<1>11. {"transient", "resettable"} \cap Objects = {} /\ PoolCalls \subseteq Objects
  BY DEF Objects, PoolCalls
<1>12. CASE o \in PoolCalls
  <2> DEFINE f == PoolOf(o)
  <2>1. f \in DOMAIN families
    BY <1>3 DEF PoolOf
  <2>2. pools' = [pools EXCEPT ![f] = "null"] /\ Gone = {pools[f]} \ {"null"}
    <3>1. pools' = [pools EXCEPT ![f] = "null"]
      BY <1>1, <1>12 DEF CleanupCommandPool
    <3>2. o # "display"
      BY <1>12 DEF PoolCalls
    <3> QED BY <1>5, <1>12, <3>1, <3>2
  <2> HIDE DEF f
  <2>3. Gone \subseteq PoolsAlive
    BY <2>1, <2>2 DEF PoolsAlive
  <2>4. ASSUME NEW g \in DOMAIN families, pools[g] \in Gone PROVE g = f
    <3>1. pools[g] = pools[f] /\ pools[g] # "null"
      BY <2>2, <2>4
    <3> QED BY <1>3, <2>1, <3>1
  <2>5. PoolsAlive' = PoolsAlive \ Gone
    BY <1>1, <1>3, <2>1, <2>2, <2>4 DEF PoolsAlive
  <2>6. alive' = (Members(doomed)' \ PoolCalls) \cup PoolsAlive'
    BY <1>1, <1>2, <1>6, <1>7, <1>10, <1>11, <1>12, <2>3, <2>5
  <2>7. \A p \in alive' : Owners(p)' \subseteq alive' \cup Misfreed'
    BY <1>1, <1>2, <1>9, <1>10, <2>3, PoolOwners
  <2>8. twice' \subseteq Misfreed'
    BY <1>1, <1>2, <1>9, <2>3
  <2>9. PoolsNamed'
    <3>1. /\ UNCHANGED families /\ pools' \in [DOMAIN families -> {"null", "transient", "resettable"}]
          /\ UNCHANGED <<graphics_idx, transfer_idx>>
      BY <1>1, <1>3, <2>2
    <3>2. ASSUME NEW g \in DOMAIN families, pools'[g] # "null"
          PROVE  /\ pools[g] = pools'[g] /\ g # f
                 /\ \E call \in PoolCalls \cap Members(doomed)' : g = PoolOf(call)'
      <4>1. g # f /\ pools[g] = pools'[g]
        BY <1>3, <2>1, <2>2, <3>2
      <4>2. PICK call \in PoolCalls \cap Members(doomed) : g = PoolOf(call)
        BY <1>3, <3>2, <4>1
      <4>3. call # o
        BY <4>1, <4>2 DEF f
      <4>4. PoolOf(call)' = PoolOf(call)
        BY <1>1 DEF PoolOf
      <4> QED BY <1>7, <4>1, <4>2, <4>3, <4>4
    <3> QED BY <1>1, <1>3, <3>1, <3>2 DEF PoolsNamed
  <2> QED BY <1>1, <1>4, <1>8, <2>6, <2>7, <2>8, <2>9 DEF TeardownInv, TornDown, Created, Setup, Looping
<1>13. CASE o \notin PoolCalls
  <2>1. pools' = pools /\ PoolsAlive' = PoolsAlive
    BY <1>1, <1>13 DEF PoolsAlive
  <2>2. o \in alive /\ o \notin PoolsAlive
    BY <1>2, <1>6, <1>10, <1>11, <1>13
  <2>3. alive' = alive \ {o} /\ Gone \ alive \subseteq Misfreed
    <3>1. CASE o = "display" /\ backend = "x11"
      <4>1. Gone = {"display", "screen"} /\ Misfreed = {"screen"}
        BY <1>5, <1>13, <3>1 DEF Misfreed
      <4>2. "screen" \notin Members(doomed)
        <5>1. Rank("display") = 22 /\ Rank("screen") = 12
          BY DEF Rank
        <5> QED BY <1>7, <3>1, <5>1
      <4>3. "screen" \notin alive
        BY <1>2, <1>10, <4>2
      <4> QED BY <1>1, <2>2, <3>1, <4>1, <4>3
    <3>2. CASE ~(o = "display" /\ backend = "x11")
      <4>1. Gone = {o}
        BY <1>5, <1>13, <3>2
      <4> QED BY <1>1, <2>2, <4>1
    <3> QED BY <3>1, <3>2
  <2>4. alive' = (Members(doomed)' \ PoolCalls) \cup PoolsAlive'
    BY <1>2, <1>7, <2>1, <2>2, <2>3
  <2>5. ASSUME NEW p \in alive, p # o, o \notin Misfreed PROVE o \notin Owners(p)
    <3>1. CASE p \in Members(doomed)
      <4>1. Rank(o) < Rank(p) /\ p \in Objects /\ o \in Objects
        BY <1>6, <1>7, <2>5, <3>1
      <4> QED BY <2>5, <4>1, OwnersLater, RankIsNat
    <3>2. CASE p \in PoolsAlive
      <4>1. PICK g \in DOMAIN families : pools[g] = p /\ pools[g] # "null"
        BY <3>2 DEF PoolsAlive
      <4>2. PICK call \in PoolCalls \cap Members(doomed) : g = PoolOf(call)
        BY <1>3, <4>1
      <4>3. Rank(o) < Rank(call)
        BY <1>7, <1>13, <4>2
      <4>4. Rank("device") = 8 /\ Rank(call) \in {2, 7}
        BY <4>2 DEF Rank, PoolCalls
      <4>5. o # "device"
        BY <4>3, <4>4
      <4> QED BY <1>10, <3>2, <4>5, PoolOwners
    <3> QED BY <1>2, <2>5, <3>1, <3>2
  <2>6. \A p \in alive' : Owners(p)' \subseteq alive' \cup Misfreed'
    BY <1>2, <1>9, <2>3, <2>5
  <2>7. twice' \subseteq Misfreed'
    BY <1>1, <1>2, <1>9, <2>3
  <2>8. PoolsNamed'
    <3>1. UNCHANGED <<families, pools, graphics_idx, transfer_idx>>
      BY <1>1, <2>1
    <3>2. \A call : PoolOf(call)' = PoolOf(call)
      BY <1>1 DEF PoolOf
    <3>3. PoolCalls \cap Members(doomed) = PoolCalls \cap Members(doomed)'
      BY <1>7, <1>13
    <3>4. \A g \in DOMAIN families : pools[g] # "null" =>
            \E call \in PoolCalls \cap Members(doomed)' : g = PoolOf(call)'
      BY <1>3, <3>2, <3>3
    <3> QED BY <1>1, <1>3, <3>1, <3>4 DEF PoolsNamed
  <2> QED BY <1>1, <1>4, <1>8, <2>4, <2>6, <2>7, <2>8 DEF TeardownInv, TornDown, Created, Setup, Looping
<1> QED BY <1>12, <1>13

\* What a step of the loop leaves as it is.
LEMMA AliveUntouched ==
  ASSUME TeardownInv, UNCHANGED <<alive, backend, locked_pointer, gpuVars, doomed, twice>>,
         pc' = pc \/ {pc, pc'} \subseteq Looping
                  \/ {pc, pc'} \subseteq {"input_ctx_create", "window_create"}
                  \/ {pc, pc'} \subseteq {"input_cleanup", "exit"}
  PROVE  TeardownInv'
<1> USE DEF TeardownInv, gpuVars
<1>1. UNCHANGED <<WindowSet, LockSet, Everything, PoolsAlive, Misfreed, Members(doomed)>>
  BY DEF WindowSet, LockSet, Everything, PoolsAlive, Misfreed, Members
<1>2. Created'
  BY <1>1 DEF Created, Setup, Looping
<1>3. TornDown'
  <2>1. UNCHANGED Ranked(doomed) /\ \A o : Owners(o)' = Owners(o)
    BY DEF Ranked, Owners, GpuOwners, WindowOwners, WindowObjects
  <2> QED BY <1>1, <2>1 DEF TornDown, Looping
<1>4. PoolsNamed'
  <2>1. \A call : PoolOf(call)' = PoolOf(call)
    BY DEF PoolOf
  <2>2. (PoolCalls \cap Members(doomed))' = PoolCalls \cap Members(doomed)
    BY <1>1
  <2> QED BY <2>1, <2>2 DEF PoolsNamed, Looping
<1> QED BY <1>2, <1>3, <1>4

LEMMA TeardownInvInit == DInit => TeardownInv
<1> SUFFICES ASSUME DInit PROVE TeardownInv
  OBVIOUS
<1>1. /\ pc = "input_ctx_create" /\ alive = {} /\ locked_pointer = FALSE /\ twice = {}
      /\ pools = [f \in DOMAIN families |-> "null"] /\ families \in Devices
  BY DEF DInit, WindowInit, GpuInit
<1> QED BY <1>1 DEF TeardownInv, Created, TornDown, PoolsNamed, Setup, Looping

\* The families chosen are the device's.
LEMMA FamiliesFound ==
  ASSUME families \in Devices, FindQueueFamilies
  PROVE  {graphics_idx', transfer_idx'} \subseteq DOMAIN families
<1> DEFINE apart == With("transfer") \ With("graphics")
<1>1. PICK n \in Nat : DOMAIN families = 1 .. n
  BY DesktopAssumption
<1>2. With("graphics") \subseteq 1 .. n /\ apart \subseteq 1 .. n
  BY <1>1 DEF With
<1>3. With("graphics") # {}
  BY DesktopAssumption DEF With
<1>4. Max(With("graphics")) \in With("graphics") /\ (apart # {} => Max(apart) \in apart)
  BY <1>2, <1>3, MaxIsMember
<1> QED BY <1>1, <1>2, <1>4 DEF FindQueueFamilies

\* What the set-up creates.
LEMMA SetupSafe ==
  ASSUME TeardownInv, \/ WindowCreate /\ UNCHANGED <<gpuVars, doomed, twice>>
                      \/ GpuSteps /\ UNCHANGED <<windowVars, doomed, twice>>
  PROVE  TeardownInv'
<1> USE DEF TeardownInv
<1>1. UNCHANGED <<WindowSet, LockSet, Misfreed, backend, locked_pointer, families, twice>>
  BY DEF WindowSet, LockSet, Misfreed, WindowCreate, GpuSteps, GraphicsContextCreate,
         RenderContextCreate, CreateRenderState, windowVars, serverVars, grimVars, gpuVars
<1>2. CASE WindowCreate /\ UNCHANGED <<gpuVars, doomed, twice>>
  <2>1. /\ pc = "window_create" /\ pc' = "graphics_context_create"
        /\ alive' = alive \cup Members(WindowObjects)
    BY <1>2 DEF WindowCreate, At, GoTo, Members
  <2>2. Created' /\ TornDown'
    BY <1>1, <2>1, WindowMembers DEF Created, TornDown, Setup, Looping
  <2>3. PoolsNamed'
    BY <1>2, <2>1 DEF PoolsNamed, gpuVars
  <2> QED BY <2>2, <2>3
<1>3. CASE GraphicsContextCreate /\ UNCHANGED <<windowVars, doomed, twice>>
  <2>1. /\ pc = "graphics_context_create" /\ pc' = "render_context_create"
        /\ alive' = alive \cup ContextSet \cup {"transient"}
        /\ pools' = [pools EXCEPT ![transfer_idx'] = "transient"]
    BY <1>3 DEF GraphicsContextCreate, At, GoTo, ContextSet
  <2>2. {graphics_idx', transfer_idx'} \subseteq DOMAIN families
    BY <1>3, FamiliesFound DEF PoolsNamed, GraphicsContextCreate
  <2>3. \A f \in DOMAIN families : pools'[f] = IF f = transfer_idx' THEN "transient" ELSE "null"
    BY <2>1, <2>2 DEF PoolsNamed
  <2>4. PoolsAlive' = {"transient"}
    BY <1>1, <2>2, <2>3 DEF PoolsAlive
  <2>5. Created' /\ TornDown'
    BY <1>1, <2>1, <2>4 DEF Created, TornDown, Setup, Looping
  <2>6. PoolsNamed'
    BY <1>1, <2>1, <2>2, <2>3 DEF PoolsNamed
  <2> QED BY <2>5, <2>6
<1>4. CASE RenderContextCreate /\ UNCHANGED <<windowVars, doomed, twice>>
  <2>1. /\ pc = "render_context_create" /\ pc' = "create_render_state"
        /\ UNCHANGED <<families, graphics_idx, transfer_idx>>
        /\ IF pools[graphics_idx] = "null"
             THEN /\ pools' = [pools EXCEPT ![graphics_idx] = "resettable"]
                  /\ alive' = alive \cup PipelineSet \cup {"resettable"}
             ELSE pools' = pools /\ alive' = alive \cup PipelineSet
    BY <1>4 DEF RenderContextCreate, At, GoTo, PipelineSet
  <2>2. graphics_idx \in DOMAIN families /\ alive = WindowSet \cup ContextSet \cup PoolsAlive
    BY <2>1 DEF PoolsNamed, Created
  <2>3. alive' = WindowSet \cup ContextSet \cup PipelineSet \cup PoolsAlive'
    <3>1. CASE pools[graphics_idx] = "null"
      <4>1. PoolsAlive' = PoolsAlive \cup {"resettable"}
        BY <2>1, <2>2, <3>1 DEF PoolsAlive, PoolsNamed
      <4> QED BY <2>1, <2>2, <3>1, <4>1
    <3>2. CASE pools[graphics_idx] # "null"
      BY <2>1, <2>2, <3>2 DEF PoolsAlive
    <3> QED BY <3>1, <3>2
  <2>4. Created' /\ TornDown'
    BY <1>1, <2>1, <2>3 DEF Created, TornDown, Setup, Looping
  <2>5. PoolsNamed'
    <3>1. CASE pools[graphics_idx] = "null"
      BY <2>1, <2>2, <3>1 DEF PoolsNamed
    <3>2. CASE pools[graphics_idx] # "null"
      BY <2>1, <3>2 DEF PoolsNamed
    <3> QED BY <3>1, <3>2
  <2> QED BY <2>4, <2>5
<1>5. CASE CreateRenderState /\ UNCHANGED <<windowVars, doomed, twice>>
  <2>1. /\ pc = "create_render_state" /\ pc' = "window_poll_events"
        /\ alive' = alive \cup {"slug_buff"}
        /\ UNCHANGED <<families, graphics_idx, transfer_idx, pools>>
    BY <1>5 DEF CreateRenderState, At, GoTo
  <2>2. LockSet = {} /\ Everything' = WindowSet \cup ContextSet \cup PipelineSet \cup {"slug_buff"}
    BY <1>1, <2>1 DEF Created, Setup, LockSet, Everything
  <2>3. PoolsAlive' = PoolsAlive
    BY <2>1 DEF PoolsAlive
  <2>4. Created' /\ TornDown'
    BY <1>1, <2>1, <2>2, <2>3 DEF Created, TornDown, Setup, Looping
  <2>5. PoolsNamed'
    BY <2>1 DEF PoolsNamed
  <2> QED BY <2>4, <2>5
<1> QED BY <1>2, <1>3, <1>4, <1>5 DEF GpuSteps

\* The loop ends with everything there, in whatever state the pointer is.
LEMMA LoopEndsSafe == ASSUME TeardownInv, Frame PROVE TeardownInv'
<1>1. /\ pc = "start_frame" /\ UNCHANGED <<alive, twice, backend, locked_pointer, gpuVars>>
      /\ \/ pc' = "window_poll_events" /\ doomed' = doomed
         \/ pc' = "cleanup" /\ doomed' = Cleanup
  BY DEF Frame, At, GoTo, grimVars
<1>2. CASE pc' = "window_poll_events" /\ doomed' = doomed
  BY <1>1, <1>2, AliveUntouched DEF Looping
<1>3. CASE pc' = "cleanup" /\ doomed' = Cleanup
  <2>1. alive = Everything \cup PoolsAlive
    BY <1>1 DEF TeardownInv, Created, Looping
  <2>2. Created'
    BY <1>1, <1>3 DEF TeardownInv, Created, Setup, Looping
  <2>3. UNCHANGED <<Misfreed, PoolsAlive>> /\ \A o : Owners(o)' = Owners(o)
    BY <1>1 DEF Misfreed, PoolsAlive, gpuVars, Owners, GpuOwners, WindowOwners, WindowObjects
  <2>4. \A o \in Everything : Owners(o) \subseteq Everything
    <3>1. CASE backend = "wayland"
      BY <3>1 DEF Everything, WindowSet, WaylandSet, ContextSet, PipelineSet, LockSet, Owners,
                  GpuOwners, WindowOwners, WindowObjects, WaylandObjects
    <3>2. CASE backend # "wayland"
      BY <3>2 DEF Everything, WindowSet, WaylandSet, ContextSet, PipelineSet, LockSet, Owners,
                  GpuOwners, WindowOwners, WindowObjects, X11Objects
    <3> QED BY <3>1, <3>2
  <2>5. \A o \in PoolsAlive : Owners(o) \subseteq Everything
    <3>1. PoolsAlive \subseteq {"transient", "resettable"}
      BY DEF TeardownInv, PoolsNamed, PoolsAlive
    <3> QED BY <3>1, PoolOwners DEF Everything, ContextSet
  <2>6. PoolCalls \cap Everything = {}
    BY DEF PoolCalls, Everything, WindowSet, WaylandSet, ContextSet, PipelineSet, LockSet
  <2>7. Members(doomed)' = Everything \cup PoolCalls /\ doomed' \in Seq(Objects) /\ Ranked(doomed)'
    BY <1>3, CleanupRanked DEF Members, Ranked
  <2>8. alive' = (Members(doomed)' \ PoolCalls) \cup PoolsAlive'
    <3>1. PoolCalls \cap Members(doomed)' = PoolCalls
      BY <2>7
    <3> QED BY <1>1, <2>1, <2>3, <2>6, <2>7
  <2>9. TornDown'
    BY <1>1, <1>3, <2>1, <2>3, <2>4, <2>5, <2>7, <2>8 DEF TeardownInv, TornDown
  <2>10. PoolsNamed'
    <3>1. UNCHANGED <<families, pools, graphics_idx, transfer_idx>>
      BY <1>1 DEF gpuVars
    <3>2. /\ families \in Devices /\ pools \in [DOMAIN families -> {"null", "transient", "resettable"}]
          /\ {graphics_idx, transfer_idx} \subseteq DOMAIN families
          /\ \A f \in DOMAIN families : pools[f] # "null" =>
               /\ pools[f] = "transient" => f = transfer_idx
               /\ pools[f] = "resettable" => f = graphics_idx
      BY <1>1 DEF TeardownInv, PoolsNamed
    <3>3. PoolOf("graphics_pool")' = graphics_idx /\ PoolOf("transfer_pool")' = transfer_idx
      BY <3>1 DEF PoolOf
    <3>4. \A f \in DOMAIN families : pools[f] # "null" =>
            \E call \in PoolCalls \cap Members(doomed)' : f = PoolOf(call)'
      BY <2>7, <3>2, <3>3 DEF PoolCalls
    <3> QED BY <1>3, <3>1, <3>2, <3>4 DEF PoolsNamed
  <2> QED BY <2>2, <2>9, <2>10 DEF TeardownInv
<1> QED BY <1>1, <1>2, <1>3

\* The lock of the pointer comes and goes with the flag, and is there to be unlocked.
LEMMA PointerLockSafe == ASSUME TeardownInv, LockInv, InputInv, PointerLock PROVE TeardownInv'
<1>1. /\ pc = "pointer_lock" /\ pc' = "start_frame" /\ UNCHANGED <<backend, gpuVars, doomed>>
      /\ locked_pointer' = lock_mouse
      /\ alive' = IF backend = "wayland" /\ lock_mouse THEN alive \cup {"locked_pointer"}
                                                      ELSE alive \ {"locked_pointer"}
      /\ twice' = twice \cup (Unlocked(lock_mouse) \ alive)
  BY DEF PointerLock, LockPointer, At, GoTo
<1>2. alive = Everything \cup PoolsAlive /\ twice \subseteq Misfreed
  BY <1>1 DEF TeardownInv, Created, TornDown, Looping
<1>3. PoolsAlive' = PoolsAlive /\ "locked_pointer" \notin PoolsAlive /\ Misfreed' = Misfreed
  BY <1>1 DEF TeardownInv, PoolsNamed, PoolsAlive, gpuVars, Misfreed
<1>4. alive' = Everything' \cup PoolsAlive'
  <2>1. WindowSet' = WindowSet /\ "locked_pointer" \notin WindowSet
    BY <1>1 DEF WindowSet, WaylandSet
  <2>2. "locked_pointer" \notin ContextSet \cup PipelineSet \cup {"slug_buff"}
    BY DEF ContextSet, PipelineSet
  <2> QED BY <1>1, <1>2, <1>3, <2>1, <2>2 DEF Everything, LockSet
<1>5. Unlocked(lock_mouse) \subseteq alive
  BY <1>2 DEF Unlocked, Everything, LockSet
<1>6. Created' /\ TornDown'
  BY <1>1, <1>2, <1>3, <1>4, <1>5 DEF Created, TornDown, Setup, Looping
<1>7. PoolsNamed'
  BY <1>1 DEF TeardownInv, PoolsNamed, gpuVars
<1> QED BY <1>6, <1>7 DEF TeardownInv

LEMMA TeardownInvStep ==
  ASSUME TeardownInv, LockInv, InputInv, [DNext]_desktopVars PROVE TeardownInv'
<1> DEFINE Same == UNCHANGED <<alive, backend, locked_pointer, gpuVars, doomed, twice>>
<1>1. CASE InputSteps /\ UNCHANGED <<windowVars, gpuVars, doomed, twice>>
  <2>1. Same
    BY <1>1 DEF windowVars, serverVars, grimVars, InputSteps, InputRefresh, InputUpdate, NextEvent,
                NextDevice, InputDone
  <2>2. \/ pc' = pc
        \/ {pc, pc'} \subseteq Looping \/ {pc, pc'} \subseteq {"input_ctx_create", "window_create"}
    BY <1>1 DEF InputSteps, InputRefresh, InputUpdate, NextEvent, NextDevice, InputDone, At, GoTo,
                Looping
  <2> QED BY <2>1, <2>2, AliveUntouched
<1>2. CASE \/ WindowCreate /\ UNCHANGED <<inputVars, gpuVars, doomed, twice>>
           \/ GpuSteps /\ UNCHANGED <<inputVars, windowVars, doomed, twice>>
  BY <1>2, SetupSafe
<1>3. CASE (Poll \/ Dispatch \/ PollDone) /\ UNCHANGED <<inputVars, gpuVars, doomed, twice>>
  <2>1. Same
    BY <1>3 DEF Poll, Dispatch, PollDone, windowVars, serverVars, grimVars
  <2>2. pc' = pc \/ {pc, pc'} \subseteq Looping
    BY <1>3 DEF Poll, Dispatch, PollDone, At, GoTo, Looping
  <2> QED BY <2>1, <2>2, AliveUntouched
<1>4. CASE InputCleanup /\ UNCHANGED <<windowVars, gpuVars, doomed, twice>>
  <2>1. Same /\ {pc, pc'} \subseteq {"input_cleanup", "exit"}
    BY <1>4 DEF InputCleanup, At, GoTo, windowVars, serverVars, grimVars
  <2> QED BY <2>1, AliveUntouched
<1>5. CASE FrameRestarts
  <2>1. Same /\ {pc, pc'} \subseteq Looping
    BY <1>5 DEF FrameRestarts, At, GoTo, Looping, windowVars, serverVars, grimVars
  <2> QED BY <2>1, AliveUntouched
<1>6. CASE Closed
  <2>1. /\ pc = "cleanup" /\ pc' = "input_cleanup" /\ doomed = <<>>
        /\ UNCHANGED <<alive, backend, locked_pointer, gpuVars, doomed, twice>>
    BY <1>6 DEF Closed, At, GoTo, windowVars, serverVars, grimVars
  <2>2. Members(doomed) = {}
    BY <2>1 DEF Members
  <2>3. /\ UNCHANGED <<families, pools, graphics_idx, transfer_idx, Misfreed, twice>>
        /\ \A f \in DOMAIN families : pools[f] = "null"
    BY <1>6, <2>1, <2>2 DEF TeardownInv, PoolsNamed, gpuVars, Closed, Misfreed
  <2>4. alive = {}
    BY <2>1, <2>2, <2>3 DEF TeardownInv, TornDown, PoolsAlive
  <2>5. Created' /\ TornDown'
    BY <2>1, <2>3, <2>4 DEF TeardownInv, Created, TornDown, Setup, Looping
  <2>6. PoolsNamed'
    BY <2>1, <2>3 DEF TeardownInv, PoolsNamed
  <2> QED BY <2>5, <2>6 DEF TeardownInv
<1>7. CASE \/ Kernel /\ UNCHANGED <<windowVars, gpuVars, doomed, twice>>
           \/ Server /\ UNCHANGED <<inputVars, gpuVars, doomed, twice>>
  <2>1. Same /\ pc' = pc
    BY <1>7 DEF Kernel, Unplug, Press, Server, AskToClose, Ping, AnswerRoundtrip, Resize,
                windowVars, serverVars, grimVars
  <2> QED BY <2>1, AliveUntouched
<1>8. CASE UNCHANGED desktopVars
  <2>1. Same /\ pc' = pc
    BY <1>8 DEF desktopVars, windowVars, serverVars, grimVars
  <2> QED BY <2>1, AliveUntouched
<1> QED BY <1>1, <1>2, <1>3, <1>4, <1>5, <1>6, <1>7, <1>8, LoopEndsSafe, PointerLockSafe, DestroySafe
        DEF DNext, Main, WindowSteps

\* Whenever the loop ends, nothing but the X11 screen is destroyed before what was made
\* from it or twice, and nothing is left, whichever card there is and families it has.
THEOREM TeardownsAreClean == DSpec => []TeardownIsClean
<1>1. TeardownInv => TeardownIsClean
  <2> SUFFICES ASSUME TeardownInv PROVE TeardownIsClean
    OBVIOUS
  <2>1. Ending => \A o \in alive : Owners(o) \subseteq alive \cup Misfreed
    BY DEF TeardownInv, TornDown, Ending
  <2>2. (At("exit") => alive = {}) /\ twice \subseteq Misfreed
    BY DEF TeardownInv, TornDown, At
  <2> QED BY <2>1, <2>2 DEF TeardownIsClean
<1> QED BY <1>1, TeardownInvInit, TeardownInvStep, LockInvInit, LockInvStep, InputInvInit,
           InputInvStep, PTL DEF DSpec
===============================================================================
