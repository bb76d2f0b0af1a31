------------------------------ MODULE MainThread -------------------------------
(***************************************************************************)
(* What the parts of the program of src/main.c share: the place its one    *)
(* thread is at, and the objects it has created and not yet destroyed, in  *)
(* the Vulkan driver and in the window server.                             *)
(***************************************************************************)
VARIABLES
  pc,           \* the call of main the thread is in, or about to make
  alive         \* the objects that exist, by name

At(call) == pc = call
GoTo(call) == pc' = call

\* After the loop: nothing reads the keyboards or the window's events any more.
Ending == pc \in {"cleanup", "input_cleanup", "exit"}
===============================================================================
