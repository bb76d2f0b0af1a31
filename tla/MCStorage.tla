------------------------------- MODULE MCStorage -------------------------------
(* Histories of documents of one byte, edited in place by bench; and a few whole *)
(* documents of a few blocks.                                                     *)
EXTENDS Storage

MCBase == <<1>>
MCOtherBase == <<2>>
===============================================================================
