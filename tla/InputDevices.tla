----------------------------- MODULE InputDevices ------------------------------
(***************************************************************************)
(* lib/grim/os/input_linux.h: the keyboards under /dev/input, read through *)
(* libevdev once per turn of the main loop.  The kernel keeps a bounded    *)
(* queue per reader; one event too many empties it and leaves a SYN_DROPPED*)
(* event, after which libevdev compares its picture of the keys with the   *)
(* kernel's and hands out the differences to a reader that asks for them.  *)
(* Relative and absolute axes, which keep nothing from one turn to the     *)
(* next that a property speaks of, are left out.                           *)
(***************************************************************************)
EXTENDS Naturals, Sequences, FiniteSets, MainThread

CONSTANTS
  KeysOf,       \* [event device with keys -> those of its keys the program looks at]
  Enter,        \* KEY_ENTER, which locks the pointer while it is down
  QueueCap,     \* events the kernel keeps for a reader
  MaxInputs     \* bound: presses, releases and unpluggings

Keyboards == DOMAIN KeysOf
Keys == UNION {KeysOf[d] : d \in Keyboards}

VARIABLES
  \* the kernel
  held,         \* [Keyboards -> SUBSET Keys]: keys physically down
  queue,        \* [Keyboards -> Seq]: events not yet read
  gone,         \* keyboards that were unplugged
  inputs,       \* presses, releases and unpluggings so far
  \* libevdev
  seen,         \* [Keyboards -> SUBSET Keys]: keys it takes to be down
  sync,         \* [Keyboards -> "none", "needed" or "running"]
  pend,         \* [Keyboards -> SUBSET Keys]: differences still to hand out
  \* the program
  states,       \* the devices watched, in the order readdir gave
  dev,          \* index of the device being read
  flags,        \* "normal" or "sync": LIBEVDEV_READ_FLAG_*
  down,         \* the key_* flags of InputContext, one set for all devices
  lock_mouse

kernelVars == <<held, queue, gone, inputs>>
evdevVars == <<seen, sync, pend>>
ctxVars == <<states, dev, flags, down, lock_mouse>>
inputVars == <<kernelVars, evdevVars, ctxVars>>

Dropped == <<"dropped">>
Event(key, value) == <<"key", key, value>>

Events == {Dropped} \cup {Event(key, value) : key \in Keys, value \in 0 .. 1}

\* A key flag follows the value of the event: `key_enter = ievent.value > 0`.
Take(flagged, key, value) == IF value > 0 THEN flagged \cup {key} ELSE flagged \ {key}

\* Orders in which readdir may list a set of devices.
Listings(D) == {s \in [1 .. Cardinality(D) -> D] : \A i, j \in DOMAIN s : s[i] = s[j] => i = j}

InputInit ==
  /\ held = [d \in Keyboards |-> {}]
  /\ queue = [d \in Keyboards |-> <<>>]
  /\ gone = {}
  /\ inputs = 0
  /\ seen = [d \in Keyboards |-> {}]
  /\ sync = [d \in Keyboards |-> "none"]
  /\ pend = [d \in Keyboards |-> {}]
  /\ states = <<>>
  /\ dev = 1
  /\ flags = "normal"
  /\ down = {}
  /\ lock_mouse = FALSE

-------------------------------------------------------------------------------
(* The kernel and its users. *)

\* When the queue is full the kernel empties it, says so, and keeps the newest event.
Enqueue(d, event) ==
  queue' = [queue EXCEPT ![d] = IF Len(@) < QueueCap THEN Append(@, event)
                                                     ELSE <<Dropped, event>>]

Press(d, key) ==
  /\ d \notin gone
  /\ inputs < MaxInputs /\ inputs' = inputs + 1
  /\ LET value == IF key \in held[d] THEN 0 ELSE 1 IN
       /\ held' = [held EXCEPT ![d] = Take(@, key, value)]
       /\ IF states = <<>> THEN UNCHANGED queue ELSE Enqueue(d, Event(key, value))
  /\ UNCHANGED <<gone, evdevVars, ctxVars, pc, alive>>

\* From now on reads fail with ENODEV; what was queued cannot be read any more.
Unplug(d) ==
  /\ d \notin gone
  /\ inputs < MaxInputs /\ inputs' = inputs + 1
  /\ gone' = gone \cup {d}
  /\ held' = [held EXCEPT ![d] = {}]
  /\ queue' = [queue EXCEPT ![d] = <<>>]
  /\ UNCHANGED <<evdevVars, ctxVars, pc, alive>>

\* Nothing reads the keyboards after the loop.
Kernel == ~Ending /\ \E d \in Keyboards : Unplug(d) \/ \E key \in KeysOf[d] : Press(d, key)

-------------------------------------------------------------------------------
(* The program. *)

\* input_ctx_create, input_refresh: every device listed is opened and kept; libevdev
\* reads the keys that are down as it is attached.
InputRefresh ==
  /\ At("input_ctx_create")
  /\ states' \in Listings(Keyboards \ gone)
  /\ seen' = held
  /\ GoTo("window_create")
  /\ UNCHANGED <<kernelVars, sync, pend, dev, flags, down, lock_mouse, alive>>

\* input_update clears what it computed last time and starts with the first device.
InputUpdate ==
  /\ At("input_update")
  /\ lock_mouse' = FALSE
  /\ dev' = 1 /\ flags' = "normal"
  /\ GoTo("next_event")
  /\ UNCHANGED <<kernelVars, evdevVars, states, down, alive>>

\* Mutant: READ_STATUS_SYNC is taken for any other event.
ReadNormalNoSync(d) ==
  /\ flags = "normal" /\ d \notin gone /\ queue[d] # <<>>
  /\ pend' = [pend EXCEPT ![d] = {}]
  /\ queue' = [queue EXCEPT ![d] = Tail(@)]
  /\ LET event == Head(queue[d]) IN
       IF event = Dropped
         THEN /\ sync' = [sync EXCEPT ![d] = "needed"]
              /\ UNCHANGED <<seen, down, flags>>
         ELSE /\ sync' = [sync EXCEPT ![d] = "none"]
              /\ seen' = [seen EXCEPT ![d] = Take(@, event[2], event[3])]
              /\ down' = Take(down, event[2], event[3])
              /\ UNCHANGED flags
\* libevdev_next_event with the flag NORMAL gives up differences nobody asked for and
\* hands out the oldest event; SYN_DROPPED makes input_update ask with the flag SYNC.
ReadNormal(d) ==
  /\ flags = "normal" /\ d \notin gone /\ queue[d] # <<>>
  /\ pend' = [pend EXCEPT ![d] = {}]
  /\ queue' = [queue EXCEPT ![d] = Tail(@)]
  /\ LET event == Head(queue[d]) IN
       IF event = Dropped
         THEN /\ sync' = [sync EXCEPT ![d] = "needed"]
              /\ flags' = "sync"
              /\ UNCHANGED <<seen, down>>
         ELSE /\ sync' = [sync EXCEPT ![d] = "none"]
              /\ seen' = [seen EXCEPT ![d] = Take(@, event[2], event[3])]
              /\ down' = Take(down, event[2], event[3])
              /\ UNCHANGED flags

\* The first call with the flag SYNC throws away the queue and compares.
Compare(d) ==
  /\ flags = "sync" /\ sync[d] = "needed" /\ d \notin gone
  /\ sync' = [sync EXCEPT ![d] = "running"]
  /\ queue' = [queue EXCEPT ![d] = <<>>]
  /\ seen' = [seen EXCEPT ![d] = held[d]]
  /\ pend' = [pend EXCEPT ![d] = (seen[d] \ held[d]) \cup (held[d] \ seen[d])]
  /\ UNCHANGED <<down, flags>>

\* It and the calls after it hand out the differences, as key events.
ReadSync(d) ==
  /\ flags = "sync" /\ sync[d] = "running"
  /\ \E key \in pend[d] :
       /\ down' = Take(down, key, IF key \in seen[d] THEN 1 ELSE 0)
       /\ pend' = [pend EXCEPT ![d] = @ \ {key}]
       /\ sync' = [sync EXCEPT ![d] = IF pend[d] = {key} THEN "none" ELSE @]
  /\ UNCHANGED <<queue, seen, flags>>

\* Nothing to hand out: EAGAIN, or ENODEV of a device that is gone.
NothingToRead(d) ==
  CASE flags = "normal" -> d \in gone \/ queue[d] = <<>>
    [] flags = "sync" -> IF sync[d] = "needed" THEN d \in gone ELSE pend[d] = {}

NextEvent ==
  /\ At("next_event") /\ dev <= Len(states)
  /\ LET d == states[dev] IN ReadNormal(d) \/ Compare(d) \/ ReadSync(d)
  /\ UNCHANGED <<held, gone, inputs, states, dev, lock_mouse, pc, alive>>

NextDevice ==
  /\ At("next_event") /\ dev <= Len(states)
  /\ LET d == states[dev] IN
       /\ NothingToRead(d)
       /\ sync' = [sync EXCEPT ![d] = IF flags = "sync" /\ @ = "running" THEN "none" ELSE @]
  /\ dev' = dev + 1 /\ flags' = "normal"
  /\ UNCHANGED <<kernelVars, seen, pend, states, down, lock_mouse, pc, alive>>

\* The end of input_update.
InputDone ==
  /\ At("next_event") /\ dev > Len(states)
  /\ lock_mouse' = (Enter \in down)
  /\ GoTo("pointer_lock")
  /\ UNCHANGED <<kernelVars, evdevVars, states, dev, flags, down, alive>>

\* input_cleanup closes every device.
InputCleanup ==
  /\ At("input_cleanup")
  /\ states' = <<>>
  /\ GoTo("exit")
  /\ UNCHANGED <<kernelVars, evdevVars, dev, flags, down, lock_mouse, alive>>

InputSteps == InputRefresh \/ InputUpdate \/ NextEvent \/ NextDevice \/ InputDone

-------------------------------------------------------------------------------
(* Properties. *)

\* Something of the keyboard has still to reach the program.
Unread(d) == queue[d] # <<>> \/ sync[d] # "none"

InputTypeOK ==
  /\ held \in [Keyboards -> SUBSET Keys]
  /\ gone \subseteq Keyboards
  /\ seen \in [Keyboards -> SUBSET Keys]
  /\ sync \in [Keyboards -> {"none", "needed", "running"}]
  /\ pend \in [Keyboards -> SUBSET Keys]
  /\ queue \in [Keyboards -> Seq(Events)]
  /\ states \in Seq(Keyboards)
  /\ dev \in Nat \ {0}
  /\ flags \in {"normal", "sync"}
  /\ down \subseteq Keys
  /\ lock_mouse \in BOOLEAN

\* A key that nobody holds does not stay down: once every keyboard still plugged in
\* has been read, a flag that is set is set for a key held on one of them, also when
\* the kernel threw away the release because the loop was too slow to read it.  (A
\* keyboard pulled out with the key down takes the release with it.)
NoStuckKey ==
  ~At("exit") =>
    \A key \in down : \E d \in Keyboards : d \in gone \/ key \in held[d] \/ Unread(d)
===============================================================================
