-------------------------------- MODULE MCEngines --------------------------------
(* Three transactions of three bytes: a write can be cut short twice, and a chunk *)
(* of four bytes grows the file at some transactions and not at others.           *)
EXTENDS Engines
=================================================================================
