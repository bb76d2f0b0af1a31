---------------------------- MODULE MCFrameLoop -----------------------------
EXTENDS FrameLoop, TLC

(* No definition tells one swapchain from another but by equality. *)
AnyGeneration == Permutations(Generations)
=============================================================================
