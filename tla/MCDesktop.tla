------------------------------ MODULE MCDesktop --------------------------------
(* Two keyboards that share a key, and two graphics cards that copy apart from where *)
(* they draw: with a family that draws and copies, one that only copies and one that *)
(* presents and copies; and with one that only copies and one that does it all.  And *)
(* a card whose one family does it all.                                              *)
EXTENDS Desktop

MCKeysOf == [keyboard |-> {"enter", "space"}, keypad |-> {"enter"}]
MCDevices == {<<{"graphics", "transfer"}, {"transfer"}, {"present", "transfer"}>>,
              <<{"transfer"}, {"graphics", "transfer", "present"}>>}
MCSingle == {<<{"graphics", "transfer", "present"}>>}
===============================================================================
