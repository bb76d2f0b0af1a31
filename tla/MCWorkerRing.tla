----------------------------- MODULE MCWorkerRing -----------------------------
(* WorkerRing on small rings; the constants are given in the configurations. *)
EXTENDS WorkerRing
===============================================================================
