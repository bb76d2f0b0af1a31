---------------------------- MODULE MCPhysicsSlots -----------------------------
(* Three slots, with masses whose bits read as a slot in use, a free one, or none. *)
EXTENDS PhysicsSlots
===============================================================================
