------------------------------ MODULE GrimWindow -------------------------------
(***************************************************************************)
(* The window of lib/grim/os: window_wayland.h or, chosen when the program *)
(* is built, window_x11.h, and the server it talks to.  Requests reach the *)
(* server in the order they are made, so each takes effect at once; events *)
(* wait on the wire until window_poll_events dispatches them.  A size is a *)
(* number; 0 in a Wayland configure leaves the size to the client.         *)
(***************************************************************************)
EXTENDS Naturals, Sequences, MainThread

CONSTANTS
  Backends,     \* which of "wayland", "x11" to consider
  Sizes,        \* sizes the server may give the window
  DefaultSize,  \* 1920 x 1080
  MaxEvents     \* bound: events the server sends of its own accord

VARIABLES
  \* the server
  backend,
  wire,         \* events not yet dispatched
  asked,        \* the sizes the server gave the window, oldest first
  syncing,      \* a wl_display_roundtrip waits for its answer
  poll_at,      \* on Wayland, Len(asked) when the last window_poll_events began
  pinged,       \* a ping that was not answered yet
  constraints,  \* locked-pointer objects on the surface
  attached,     \* a buffer was attached to the surface
  acked,        \* number of the last configure acknowledged, 0 for none
  events,       \* events sent of its own accord so far
  \* struct GrimWindow
  width,        \* width and height
  request_close,
  locked_pointer  \* locked_pointer # NULL; pointer_locked

serverVars == <<backend, wire, asked, syncing, poll_at, pinged, constraints, attached, acked, events>>
grimVars == <<width, request_close, locked_pointer>>
windowVars == <<serverVars, grimVars>>

\* What close_window destroys, in its order.
WaylandObjects == <<"pointer_constraints", "relative_pointer", "relative_pointer_manager",
                    "xdg_toplevel", "xdg_surface", "xdg_base", "pointer", "keyboard", "seat",
                    "surface", "compositor", "display">>
\* The screen is the display's own, found in it and not made by the program.
X11Objects == <<"x11_window", "screen", "display">>
WindowObjects == IF backend = "wayland" THEN WaylandObjects ELSE X11Objects
CloseOrder == IF locked_pointer /\ backend = "wayland"
                THEN <<"locked_pointer">> \o WindowObjects ELSE WindowObjects

\* What has to outlive what, by the rules of the protocols; Xlib's display uses its
\* screen until it is closed.
WindowOwners(o) ==
  CASE o = "locked_pointer" -> {"surface", "pointer"}
    [] o = "relative_pointer" -> {"pointer"}
    [] o = "xdg_toplevel" -> {"xdg_surface"}
    [] o = "xdg_surface" -> {"xdg_base", "surface"}
    [] o = "display" /\ backend = "x11" -> {"screen"}
    [] OTHER -> {}

WindowInit ==
  /\ backend \in Backends
  /\ wire = <<>> /\ asked = <<>>
  /\ syncing = FALSE /\ poll_at = 0
  /\ pinged = FALSE /\ constraints = 0
  /\ attached = FALSE /\ acked = 0
  /\ events = 0
  /\ width = 0 /\ request_close = FALSE /\ locked_pointer = FALSE

-------------------------------------------------------------------------------
(* The server. *)

Send(event) == wire' = Append(wire, event)
Spontaneous == "display" \in alive /\ ~Ending /\ events < MaxEvents /\ events' = events + 1

\* The compositor's surface is mapped once a buffer was committed to it; configures
\* come from then on.
Resize(size) ==
  /\ Spontaneous
  /\ backend = "wayland" => attached
  /\ asked' = Append(asked, size)
  /\ IF backend = "wayland" THEN Send(<<"configure", Len(asked')>>)
     ELSE IF asked # <<>> /\ size < asked[Len(asked)] THEN Send(<<"notify">>)
     ELSE Send(<<"expose">>)
  /\ UNCHANGED <<backend, syncing, poll_at, pinged, constraints, attached, acked, grimVars, pc, alive>>

Ping ==
  /\ Spontaneous
  /\ backend = "wayland" /\ ~pinged
  /\ pinged' = TRUE
  /\ Send(<<"ping">>)
  /\ UNCHANGED <<backend, asked, syncing, poll_at, constraints, attached, acked, grimVars, pc, alive>>

AskToClose ==
  /\ Spontaneous
  /\ Send(<<"close">>)
  /\ UNCHANGED <<backend, asked, syncing, poll_at, pinged, constraints, attached, acked, grimVars,
                 pc, alive>>

AnswerRoundtrip ==
  /\ syncing
  /\ syncing' = FALSE
  /\ Send(<<"done">>)
  /\ UNCHANGED <<backend, asked, poll_at, pinged, constraints, attached, acked, events, grimVars, pc, alive>>

Server == AskToClose \/ Ping \/ AnswerRoundtrip \/ \E size \in Sizes : Resize(size)

-------------------------------------------------------------------------------
(* The program. *)

\* window_open and window_setup_listeners.
WindowCreate ==
  /\ At("window_create")
  /\ alive' = alive \cup {WindowObjects[i] : i \in DOMAIN WindowObjects}
  /\ width' = DefaultSize
  /\ GoTo("graphics_context_create")
  /\ UNCHANGED <<serverVars, request_close, locked_pointer>>

\* xdg_toplevel_configure and xdg_surface_configure, which come together.  The first also
\* acknowledges a configure 0, which the server never sent: it is taken to ignore that.
OnConfigure(n) ==
  /\ width' = IF asked[n] = 0 THEN DefaultSize ELSE asked[n]
  /\ acked' = n
  /\ UNCHANGED <<pinged, request_close>>

\* Mutant: a ping is only logged.
OnPingSilent ==
  /\ pinged' = pinged
  /\ UNCHANGED <<width, acked, request_close>>
\* xdg_ping
OnPing ==
  /\ pinged' = FALSE
  /\ UNCHANGED <<width, acked, request_close>>

\* xdg_toplevel_close; a ClientMessage with WM_DELETE_WINDOW
OnClose ==
  /\ request_close' = TRUE
  /\ UNCHANGED <<width, acked, pinged>>

\* Expose: the size is asked of the server again.
OnExpose ==
  /\ width' = asked[Len(asked)]
  /\ UNCHANGED <<pinged, acked, request_close>>

Handle(event) ==
  \/ event[1] = "configure" /\ OnConfigure(event[2])
  \/ event[1] = "ping" /\ OnPing
  \/ event[1] = "close" /\ OnClose
  \/ event[1] = "expose" /\ OnExpose
  \/ event[1] \in {"notify", "done"} /\ UNCHANGED <<width, acked, pinged, request_close>>

\* Mutant: window_poll_events only dispatches what is there.
PollPending ==
  /\ At("window_poll_events")
  /\ syncing' = FALSE
  /\ poll_at' = IF backend = "wayland" THEN Len(asked) ELSE 0
  /\ GoTo("dispatch_pending")
  /\ UNCHANGED <<backend, wire, asked, pinged, constraints, attached, acked, events, grimVars,
                 alive>>
\* window_poll_events: Wayland makes a round trip, X11 takes what is there.
Poll ==
  /\ At("window_poll_events")
  /\ syncing' = (backend = "wayland")
  /\ poll_at' = IF backend = "wayland" THEN Len(asked) ELSE 0
  /\ GoTo(IF backend = "wayland" THEN "roundtrip" ELSE "dispatch_pending")
  /\ UNCHANGED <<backend, wire, asked, pinged, constraints, attached, acked, events, grimVars,
                 alive>>

\* One event is dispatched; the answer to the round trip ends it, and an X11 request
\* to close ends the poll.
Dispatch ==
  /\ pc \in {"roundtrip", "dispatch_pending"} /\ wire # <<>>
  /\ wire' = Tail(wire)
  /\ Handle(Head(wire))
  /\ CASE Head(wire) = <<"done">> -> GoTo("dispatch_pending")
       [] Head(wire) = <<"close">> /\ backend = "x11" -> GoTo("input_update")
       [] OTHER -> UNCHANGED pc
  /\ UNCHANGED <<backend, asked, syncing, poll_at, constraints, attached, events, locked_pointer,
                 alive>>

\* wl_display_dispatch_pending stops at what was not read from the socket yet;
\* XPending does not.
PollDone ==
  /\ At("dispatch_pending")
  /\ backend = "x11" => wire = <<>>
  /\ GoTo("input_update")
  /\ UNCHANGED <<windowVars, alive>>

\* Mutant: a lock is asked for whether or not there is one.
LockPointerAgain(lock) ==
  /\ locked_pointer' = lock
  /\ IF backend = "wayland" /\ (lock \/ locked_pointer)
       THEN constraints' = IF lock THEN constraints + 1 ELSE constraints - 1
       ELSE UNCHANGED constraints
  /\ alive' = IF backend = "wayland" /\ lock THEN alive \cup {"locked_pointer"}
                                             ELSE alive \ {"locked_pointer"}
\* Mutant: an unlock destroys the lock and keeps the handle.
LockPointerStale(lock) ==
  /\ locked_pointer' = (lock \/ locked_pointer)
  /\ IF backend = "wayland" /\ lock # locked_pointer
       THEN constraints' = IF lock THEN constraints + 1 ELSE constraints - 1
       ELSE UNCHANGED constraints
  /\ alive' = IF backend = "wayland" /\ lock THEN alive \cup {"locked_pointer"}
                                             ELSE alive \ {"locked_pointer"}
\* Mutant: nothing unlocks the pointer.
LockPointerForGood(lock) ==
  /\ locked_pointer' = (lock \/ locked_pointer)
  /\ IF backend = "wayland" /\ lock /\ ~locked_pointer
       THEN constraints' = constraints + 1
       ELSE UNCHANGED constraints
  /\ alive' = IF backend = "wayland" /\ lock THEN alive \cup {"locked_pointer"} ELSE alive
\* window_lock_pointer and window_unlock_pointer: on Wayland a request, unless the
\* pointer is already as it is to be; on X11 a flag.
LockPointer(lock) ==
  /\ locked_pointer' = lock
  /\ IF backend = "wayland" /\ lock # locked_pointer
       THEN constraints' = IF lock THEN constraints + 1 ELSE constraints - 1
       ELSE UNCHANGED constraints
  /\ alive' = IF backend = "wayland" /\ lock THEN alive \cup {"locked_pointer"}
                                             ELSE alive \ {"locked_pointer"}

WindowSteps == WindowCreate \/ Poll \/ Dispatch \/ PollDone

-------------------------------------------------------------------------------
(* Properties. *)

EffectiveSize(size) == IF size = 0 THEN DefaultSize ELSE size

\* After window_poll_events the window has the last size the Wayland server gave it
\* before the poll began, or a later one: the frame that follows is not drawn for a
\* size that was out of date already.
SizeIsLatest ==
  At("input_update") /\ backend = "wayland" /\ poll_at > 0
    => \E n \in poll_at .. Len(asked) : width = EffectiveSize(asked[n])

\* A surface has one pointer constraint at a time (a second lock is a protocol error),
\* and the program's idea of whether it holds one is the server's.
OneConstraint ==
  backend = "wayland" => constraints = IF locked_pointer THEN 1 ELSE 0

\* "the client must perform an initial commit without any buffer attached": no buffer
\* reaches the surface before its first configure was acknowledged.
AttachAfterConfigure == backend = "wayland" /\ attached => acked > 0

\* A server that asks whether the program is alive hears from it.
PingIsAnswered == pinged ~> (~pinged \/ Ending)
===============================================================================
