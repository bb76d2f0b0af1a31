-------------------------------- MODULE Desktop --------------------------------
(***************************************************************************)
(* The program of src/main.c around its frames: input, window and GPU are  *)
(* set up, the main loop polls the window, reads the keyboards, locks or   *)
(* frees the pointer and draws, and at the end everything is taken down.   *)
(***************************************************************************)
EXTENDS InputDevices, GrimWindow, GpuContext

ASSUME DesktopAssumption ==
  /\ IsFiniteSet(Keyboards) /\ Enter \in Keys
  /\ QueueCap \in Nat \ {0} /\ MaxInputs \in Nat
  /\ Backends \subseteq {"wayland", "x11"} /\ Sizes \subseteq Nat /\ DefaultSize \in Nat \ {0}
  /\ MaxEvents \in Nat
  /\ Devices \subseteq Seq(SUBSET {"graphics", "transfer", "present"})
  /\ \A device \in Devices : \A capability \in {"graphics", "present"} :
       \E f \in DOMAIN device : capability \in device[f]

VARIABLES
  doomed,       \* at the end of main: the calls that destroy still to be made, in order
  twice         \* history: what a call destroyed when it did not exist any more

desktopVars == <<pc, alive, inputVars, windowVars, gpuVars, doomed, twice>>

DInit ==
  /\ pc = "input_ctx_create" /\ alive = {}
  /\ InputInit /\ WindowInit /\ GpuInit
  /\ doomed = <<>> /\ twice = {}

\* What window_unlock_pointer destroys: the lock it has a handle of.
Unlocked(lock) ==
  IF backend = "wayland" /\ locked_pointer /\ ~lock THEN {"locked_pointer"} ELSE {}

\* main.c: the pointer is locked while Enter is down.
PointerLock ==
  /\ At("pointer_lock")
  /\ LockPointer(lock_mouse)
  /\ twice' = twice \cup (Unlocked(lock_mouse) \ alive)
  /\ GoTo("start_frame")
  /\ UNCHANGED <<inputVars, gpuVars, doomed, backend, wire, asked, syncing, poll_at, pinged, attached,
                 acked, events, width, request_close>>

\* start_frame finds the swapchain out of date: the loop starts again.
FrameRestarts ==
  /\ At("start_frame")
  /\ GoTo("window_poll_events")
  /\ UNCHANGED <<alive, inputVars, windowVars, gpuVars, doomed, twice>>

\* main's calls after the loop, but for input_cleanup.
Cleanup == GpuCleanup \o CloseOrder

\* start_frame, draw_frame and end_frame: a buffer is presented; after a frame the
\* loop may end.
Frame ==
  /\ At("start_frame")
  /\ attached' = TRUE
  /\ IF request_close THEN GoTo("cleanup") /\ doomed' = Cleanup
                      ELSE GoTo("window_poll_events") /\ UNCHANGED doomed
  /\ UNCHANGED <<alive, twice, inputVars, gpuVars, backend, wire, asked, syncing, poll_at, pinged,
                 constraints, acked, events, grimVars>>

\* What a call destroys: a command pool by its handle, none if that is null; the X11
\* display with its screen; anything else by its name.
Destroyed(call) ==
  CASE call \in {"graphics_pool", "transfer_pool"} -> {pools[PoolOf(call)]} \ {"null"}
    [] call = "display" /\ backend = "x11" -> {"display", "screen"}
    [] OTHER -> {call}

\* The next call that destroys.
Destroy ==
  /\ At("cleanup") /\ doomed # <<>>
  /\ doomed' = Tail(doomed)
  /\ alive' = alive \ Destroyed(Head(doomed))
  /\ twice' = twice \cup (Destroyed(Head(doomed)) \ alive)
  /\ IF Head(doomed) \in {"graphics_pool", "transfer_pool"}
       THEN CleanupCommandPool(Head(doomed)) ELSE UNCHANGED pools
  /\ IF Head(doomed) = "locked_pointer"
       THEN constraints' = constraints - 1 /\ locked_pointer' = FALSE
       ELSE UNCHANGED <<constraints, locked_pointer>>
  /\ UNCHANGED <<pc, inputVars, families, graphics_idx, present_idx, transfer_idx, buffers, backend,
                 wire, asked, syncing, poll_at, pinged, attached, acked, events, width, request_close>>

Closed ==
  /\ At("cleanup") /\ doomed = <<>>
  /\ GoTo("input_cleanup")
  /\ UNCHANGED <<alive, inputVars, windowVars, gpuVars, doomed, twice>>

Main ==
  \/ InputSteps /\ UNCHANGED <<windowVars, gpuVars, doomed, twice>>
  \/ WindowSteps /\ UNCHANGED <<inputVars, gpuVars, doomed, twice>>
  \/ GpuSteps /\ UNCHANGED <<inputVars, windowVars, doomed, twice>>
  \/ InputCleanup /\ UNCHANGED <<windowVars, gpuVars, doomed, twice>>
  \/ PointerLock \/ FrameRestarts \/ Frame \/ Destroy \/ Closed

DNext ==
  \/ Main
  \/ Kernel /\ UNCHANGED <<windowVars, gpuVars, doomed, twice>>
  \/ Server /\ UNCHANGED <<inputVars, gpuVars, doomed, twice>>

DSpec == DInit /\ [][DNext]_desktopVars

\* The thread runs, and the server answers a round trip.
DFairSpec == DSpec /\ WF_desktopVars(Main)
                   /\ WF_desktopVars(AnswerRoundtrip /\ UNCHANGED <<inputVars, gpuVars, doomed, twice>>)

-------------------------------------------------------------------------------
(* Properties. *)

\* The pointer is given back: once no keyboard holds Enter for good it ends up free
\* for good, unless a keyboard was pulled out or the program ended, through overflows
\* of the kernel's queues and with several keyboards that share the flag.
PointerGivenBack ==
  ([](gone = {}) /\ <>[](\A d \in Keyboards : Enter \notin held[d]))
    => <>[](At("exit") \/ ~locked_pointer)

\* What an object was made from: everything of the window from its display, the GPU's
\* surface from the window's.
Owners(o) ==
  LET surface == IF backend = "wayland" THEN "surface" ELSE "x11_window"
      window == {WindowObjects[i] : i \in DOMAIN WindowObjects} \cup {"locked_pointer"}
  IN GpuOwners(o) \cup WindowOwners(o)
       \cup (IF o = "vk_surface" THEN {surface} ELSE {})
       \cup (IF o \in window \ {"display"} THEN {"display"} ELSE {})

\* close_window gives the X11 screen to XFree while its display is open, and
\* XCloseDisplay frees it again.
Misfreed == IF backend = "x11" THEN {"screen"} ELSE {}

\* But for that screen, nothing is destroyed while something made from it exists (the
\* GPU's surface goes before the window's, the pointer lock before the pointer, the
\* command pools before the device) and nothing is destroyed twice, the lock in the loop
\* or a pool with two names included; main leaves nothing behind, whenever the loop ends.
TeardownIsClean ==
  /\ Ending => \A o \in alive : Owners(o) \subseteq alive \cup Misfreed
  /\ twice \subseteq Misfreed
  /\ At("exit") => alive = {}
===============================================================================
